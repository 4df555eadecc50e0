----------------------------- MODULE MC_NickTS -----------------------------
EXTENDS NickTS
CONSTANTS s1, s2, s3, ua, ub, uc
Chain == {{s1, s2}, {s2, s3}}
Homes == [u \in User |-> IF u = ua THEN s1 ELSE IF u = ub THEN s2 ELSE s3]
\* The first two connections are made from one user@host.
Hosts == [u \in User |-> IF u \in {ua, ub} THEN "x@h" ELSE "y@h"]
\* Clocks that show the same time or not.
Some == [s \in Server |-> IF s = s1 THEN {1, 2} ELSE IF s = s2 THEN {2} ELSE {1}]
=============================================================================
