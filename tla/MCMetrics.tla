----------------------------- MODULE MCMetrics -----------------------------
(* Two threads that may have run on both kinds of core of a hybrid part, and *)
(* one cache level; counters that are missing one by one, and zeros.         *)
EXTENDS Metrics

Reading(acc, miss, evi, ins, cyc) ==
    [s \in Slots |-> CASE s[2] = "access"       -> acc
                       [] s[2] = "miss"         -> miss
                       [] s[2] = "evict"        -> evi
                       [] s[2] = "instructions" -> ins
                       [] s[2] = "cycles"       -> cyc]

MCReadings ==
    { Reading(None, None, None, None, None),    \* did not run there
      Reading(4, 1, 2, 3, 2),
      Reading(2, 2, None, 1, 3),                \* no eviction event
      Reading(0, 0, 0, 0, 0),
      Reading(None, 3, None, 2, None) }         \* only some were counted
============================================================================
