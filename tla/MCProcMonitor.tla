--------------------------- MODULE MCProcMonitor ---------------------------
(* Two processes to watch and the monitor itself, on a few thread ids.       *)
EXTENDS ProcMonitor, TLC

CONSTANTS T1, T2

Symmetry == Permutations(Tids)
============================================================================
