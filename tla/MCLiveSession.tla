--------------------------- MODULE MCLiveSession ---------------------------
(* Two perf slots: the perf of one window and that of the next.               *)
EXTENDS LiveSession

CONSTANTS P1, P2
============================================================================
