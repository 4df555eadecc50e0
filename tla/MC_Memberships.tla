--------------------------- MODULE MC_Memberships ---------------------------
(* Two local clients and one of another server on two channels.            *)
EXTENDS Memberships

CONSTANTS a, b, r, c1, c2

MCPerson == {a, b, r}
MCLocal == {a, b}
MCChannel == {c1, c2}
MCInvex == {c2}
MCOper == {a}
=============================================================================
