--------------------------- MODULE MC_ClientLife ---------------------------
EXTENDS ClientLife
\* exit_aborted_clients is due every second, the other events every two.
MCFreq == [e \in Event |-> IF e = "exit_aborted_clients" THEN 1 ELSE 2]
=============================================================================
