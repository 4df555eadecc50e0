------------------------------ MODULE MC_Confs ------------------------------
EXTENDS Confs, TLC

MCKindOf == [b \in Block |->
    CASE b \in {"i", "x"} -> "auth" [] b = "o" -> "operator" [] b = "c" -> "connect" [] b = "h" -> "hub"]

File(has, class, maxk, cidrk) ==
    [has |-> has, class |-> [b \in Block |-> class],
     max |-> [k \in ClassName |-> maxk], cidr |-> [k \in ClassName |-> cidrk]]

(* Everything in the class k; k gone, so that the lines get the default,   *)
(* which has room for one; only auth blocks, one of them exempt from the   *)
(* limits, in a class with room for one.                                   *)
MCConfig ==
    {File({"i", "o", "c", "h"}, "k", 2, 2), File({"i", "o", "c"}, "k", -1, 0),
     File({"i", "x"}, "k", 1, 1)}

Clients == Permutations(Client)
=============================================================================
