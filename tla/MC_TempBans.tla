---------------------------- MODULE MC_TempBans ----------------------------
EXTENDS TempBans, TLC

(* An hour of two minutes, a day of four; the last period is too long.     *)
MCFrom == << 0, 2, 4 >>
MCPeriod == << 1, 2, 5 >>

Lines == Permutations(Line)
=============================================================================
