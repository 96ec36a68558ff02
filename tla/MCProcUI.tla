------------------------------ MODULE MCProcUI ------------------------------
(* Three processes, two metrics, two rows: processes come and go, change     *)
(* places with each other under either metric, and tie.                      *)
EXTENDS ProcUI, TLC

Values(a, b) == (0 :> a) @@ (1 :> b)

MCFrames ==
    { (1 :> Values(2, 0)) @@ (2 :> Values(1, 1)) @@ (3 :> Values(0, 2)),
      (1 :> Values(1, 1)) @@ (2 :> Values(1, 2)) @@ (3 :> Values(2, 1)),
      (2 :> Values(0, 0)) @@ (3 :> Values(0, 1)) }
============================================================================
