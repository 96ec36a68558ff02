---------------------------- MODULE MCPerfStream ----------------------------
(* Two keys, one value, up to three intervals and a shorter last one.        *)
EXTENDS PerfStream, TLC

CONSTANTS K1, K2

TwoKeys == {K1, K2}

Symmetry == Permutations(TwoKeys)
============================================================================
