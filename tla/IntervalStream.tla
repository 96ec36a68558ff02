--------------------------- MODULE IntervalStream ---------------------------
(***************************************************************************)
(* What the consumer of a collector is promised, whatever the parser does *)
(* to keep the promise: the frames are the intervals perf printed, in     *)
(* order, and the stream of frames is exactly one interval behind the     *)
(* stream of lines.  There is no parser here: the frame of an interval is *)
(* a function of what was said.                                           *)
(***************************************************************************)
EXTENDS Integers, Sequences

CONSTANTS Keys, Values, NA, Absent, Interval, MaxTs

VARIABLES
    kind,   \* "system" or "thread": the latter leaves out what has no value
    said,   \* what perf printed, per timestamp and key
    out,    \* the frames handed out
    open    \* the consumer may get more

vars == <<kind, said, out, open>>

Stamps == 1 .. MaxTs
Empty == [k \in Keys |-> Absent]

Init ==
    /\ kind \in {"thread", "system"}
    /\ said = [ts \in Stamps |-> Empty]
    /\ out = <<>> /\ open = TRUE

LastOut == IF out = <<>> THEN 0 ELSE out[Len(out)].t

\* The intervals that have begun and are not handed out.
Pending == {ts \in Stamps : said[ts] # Empty /\ ts > LastOut}

Shown(cells) ==
    [k \in Keys |-> IF cells[k] = NA /\ kind = "thread" THEN Absent ELSE cells[k]]

Frame(ts) ==
    [t    |-> ts,
     dt   |-> IF out = <<>> THEN Interval ELSE ts - LastOut,
     rows |-> Shown(said[ts])]

\* A line of the interval ts, which is the newest.  The first one completes the
\* interval before: it is handed out, and the consumer may take no more.
Line(ts, k, v) ==
    /\ open /\ said[ts][k] = Absent
    /\ \A later \in Stamps : later > ts => said[later] = Empty
    /\ said' = [said EXCEPT ![ts][k] = v]
    /\ \/ Pending \subseteq {ts} /\ UNCHANGED <<out, open>>
       \/ \E ended \in Pending \ {ts} :
             /\ Pending \subseteq {ended, ts}
             /\ out' = Append(out, Frame(ended))
             /\ open' \in BOOLEAN
    /\ UNCHANGED kind

\* No more lines: the interval begun last is handed out too, but a thread
\* collector gives up one without any value.
Close ==
    /\ open /\ open' = FALSE
    /\ \/ \A ts \in Pending : kind = "thread" /\ Shown(said[ts]) = Empty
          /\ out' = out
       \/ \E ended \in Pending :
             /\ Pending = {ended}
             /\ kind = "thread" => Shown(said[ended]) # Empty
             /\ out' = Append(out, Frame(ended))
    /\ UNCHANGED <<kind, said>>

Next ==
    \/ \E ts \in Stamps, k \in Keys, v \in Values \cup {NA} : Line(ts, k, v)
    \/ Close

Spec == Init /\ [][Next]_vars
=============================================================================
