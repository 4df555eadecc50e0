---------------------------- MODULE MC_GlineVote ----------------------------
(* Four operators on three servers.                                        *)
EXTENDS GlineVote

MCHome == [o \in 1..4 |-> IF o = 4 THEN 3 ELSE o]
=============================================================================
