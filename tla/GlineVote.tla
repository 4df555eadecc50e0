------------------------------ MODULE GlineVote ------------------------------
(***************************************************************************)
(* The votes on one G-line (modules/m_gline.c, src/s_gline.c).  An         *)
(* operator's GLINE goes to every server, and each of them counts for      *)
(* itself.  This is one server and one user@host.                          *)
(***************************************************************************)
EXTENDS Integers, FiniteSets

CONSTANTS
    Oper,       \* operators who may GLINE, anywhere
    Server,
    Home,       \* Home[o]: the server of operator o
    Expire      \* GLINE_PENDING_EXPIRE, in minutes

VARIABLES
    pending,    \* entries of pending_glines: who asked and how long ago
    glined      \* the G-line is on glines and in the address table

vars == << pending, glined >>

Init == pending = {} /\ glined = FALSE

(* cleanup_glines: the entries that are too old go, and all of them when   *)
(* the G-line is there.                                                    *)
Kept == IF glined THEN {} ELSE {v \in pending : v.age < Expire}

(* mo_gline and ms_gline, through check_majority_gline: majority_gline     *)
(* makes an entry of its own for each vote and returns NO.                 *)
Vote(o) ==
    /\ pending' = IF glined THEN Kept ELSE Kept \union {[oper |-> o, age |-> 0]}
    /\ UNCHANGED glined

(* The event cleanup_glines, and REHASH GLINES PENDING.                    *)
Cleanup == pending' = Kept /\ UNCHANGED glined
ClearPending == pending' = {} /\ UNCHANGED glined

(* A minute; entries older than Expire are one age.                        *)
Tick ==
    /\ pending' = {[v EXCEPT !.age = IF @ < Expire THEN @ + 1 ELSE @] : v \in pending}
    /\ UNCHANGED glined

Next == (\E o \in Oper : Vote(o)) \/ Cleanup \/ ClearPending \/ Tick

Spec == Init /\ [][Next]_vars

(* "Place a G line if 3 opers agree on the identical user@host" (modules/  *)
(* m_gline.c), "YES if there are 3 different opers on 3 different servers  *)
(* agreeing": with such votes in force the G-line is placed.               *)
MajorityIsGlined ==
    Cardinality({Home[v.oper] : v \in {w \in pending : w.age < Expire}}) >= 3 => glined
=============================================================================
