----------------------------- MODULE PerfStream -----------------------------
(***************************************************************************)
(* The loop that both collectors run over the output of `perf stat -I`:   *)
(* `Collector.frames` (kind "system") and `ThreadCollector.frames` (kind  *)
(* "thread").  perf prints, per interval, one line per key, each with the *)
(* interval's timestamp; nothing in the stream says that an interval is   *)
(* complete, so a frame is cut when a line with another timestamp comes,  *)
(* or at the end of the stream.                                           *)
(*                                                                        *)
(* A key is a channel key, or a thread and a channel key.  Lines that the *)
(* parser skips (comments, other text) change nothing and are left out.   *)
(***************************************************************************)
EXTENDS Integers, Sequences

CONSTANTS
    Keys,       \* what a line can be about
    Values,     \* counts
    NA,         \* "<not counted>" or "<not supported>"
    Absent,     \* no line for the key
    Interval,   \* interval_ms, in the unit of the timestamps
    MaxTs       \* bound: the last timestamp perf prints

ASSUME CellAssumption == NA \notin Values /\ Absent \notin Values \cup {NA}
ASSUME IntervalAssumption == Interval \in Nat \ {0}
ASSUME MaxTsAssumption == MaxTs \in Nat

VARIABLES
    kind,       \* which of the two collectors
    perf,       \* "running", "last" (printing a final, shorter interval), "ended"
    now,        \* timestamp of the interval perf is printing, 0 before the first
    said,       \* history: what perf printed, per timestamp and key
    reader,     \* "reading", "left" (the consumer broke off), "returned"
    curTs,      \* cur_ts; NoTs is None
    prevTs,     \* prev_ts
    rows,       \* the interval being collected
    frames      \* the frames yielded

parser == <<kind, reader, curTs, prevTs, rows, frames>>
vars == <<kind, perf, now, said, reader, curTs, prevTs, rows, frames>>

NoTs == 0
Stamps == 1 .. MaxTs
Cells == Values \cup {NA, Absent}
Empty == [k \in Keys |-> Absent]

Init ==
    /\ kind \in {"thread", "system"}
    /\ perf = "running" /\ now = 0
    /\ said = [ts \in Stamps |-> Empty]
    /\ reader = "reading"
    /\ curTs = NoTs /\ prevTs = NoTs
    /\ rows = Empty /\ frames = <<>>

----------------------------------------------------------------------------
(* perf (not part of the repository). *)

\* The interval is over.  Every interval prints a line at least.
NextInterval ==
    /\ perf = "running" /\ now + Interval \in Stamps
    /\ now \in Stamps => said[now] # Empty
    /\ now' = now + Interval
    /\ UNCHANGED <<perf, said, parser>>

\* SIGINT cuts the interval short: perf prints what it has and ends.
LastInterval ==
    /\ perf = "running"
    /\ now \in Stamps => said[now] # Empty
    /\ \E d \in 1 .. Interval : now + d \in Stamps /\ now' = now + d
    /\ perf' = "last"
    /\ UNCHANGED <<said, parser>>

End ==
    /\ perf \in {"running", "last"}
    /\ perf' = "ended"
    /\ UNCHANGED <<now, said, parser>>

\* A line for k is on its way to the parser.
Prints(k, v) ==
    /\ perf \in {"running", "last"} /\ now \in Stamps /\ said[now][k] = Absent
    /\ said' = [said EXCEPT ![now][k] = v]
    /\ UNCHANGED <<perf, now>>

----------------------------------------------------------------------------
(* The parser. *)

\* What a line adds: the thread collector drops a key without a value, the
\* other keeps it in `unsupported`.
Put(r, k, v) ==
    IF v = NA /\ kind = "thread" THEN r ELSE [r EXCEPT ![k] = v]

\* Mutant of Width: the operands swapped.
WidthSwapped == IF prevTs # NoTs THEN prevTs - curTs ELSE Interval

\* dt of the interval that ends at cur_ts.
Width == IF prevTs # NoTs THEN curTs - prevTs ELSE Interval

Yield == Append(frames, [t |-> curTs, dt |-> Width, rows |-> rows])

\* Mutant of SameInterval: the first line decides, cur_ts is not compared.
SameIntervalAnyTs(k, v) ==
    /\ reader = "reading"
    /\ Prints(k, v)
    /\ rows' = Put(rows, k, v)
    /\ curTs' = now
    /\ UNCHANGED <<kind, reader, prevTs, frames>>

\* A line of the interval being collected, or the first line of all.
SameInterval(k, v) ==
    /\ reader = "reading" /\ curTs \in {NoTs, now}
    /\ Prints(k, v)
    /\ rows' = Put(rows, k, v)
    /\ curTs' = now
    /\ UNCHANGED <<kind, reader, prevTs, frames>>

\* Mutant of NewInterval: rows are not emptied.
NewIntervalKeepsRows(k, v) ==
    /\ reader = "reading" /\ curTs \notin {NoTs, now}
    /\ Prints(k, v)
    /\ frames' = Yield
    /\ prevTs' = curTs
    /\ rows' = Put(rows, k, v)
    /\ curTs' = now
    /\ UNCHANGED <<kind, reader>>

\* A line with another timestamp: yield, and start afresh with it.
NewInterval(k, v) ==
    /\ reader = "reading" /\ curTs \notin {NoTs, now}
    /\ Prints(k, v)
    /\ frames' = Yield
    /\ prevTs' = curTs
    /\ rows' = Put(Empty, k, v)
    /\ curTs' = now
    /\ UNCHANGED <<kind, reader>>

\* The same line, but the consumer breaks off at the yield: the generator is
\* closed and the line lost with it.
LeaveAtYield(k, v) ==
    /\ reader = "reading" /\ curTs \notin {NoTs, now}
    /\ Prints(k, v)
    /\ frames' = Yield
    /\ reader' = "left"
    /\ UNCHANGED <<kind, curTs, prevTs, rows>>

\* Mutant of YieldsTail: `if rows` is left out.
TailAlways == curTs # NoTs

\* The interval still held at the end of the stream is yielded; the thread
\* collector does so only when it has a value.
YieldsTail == curTs # NoTs /\ (kind = "thread" => rows # Empty)

EndOfStream ==
    /\ reader = "reading" /\ perf = "ended"
    /\ frames' = IF YieldsTail THEN Yield ELSE frames
    /\ reader' = "returned"
    /\ UNCHANGED <<kind, perf, now, said, curTs, prevTs, rows>>

\* The consumer is through with the stream.
Done == reader # "reading" /\ UNCHANGED vars

Next ==
    \/ NextInterval \/ LastInterval \/ End
    \/ \E k \in Keys, v \in Values \cup {NA} :
          SameInterval(k, v) \/ NewInterval(k, v) \/ LeaveAtYield(k, v)
    \/ EndOfStream
    \/ Done

Spec == Init /\ [][Next]_vars

----------------------------------------------------------------------------
(* Properties. *)

Printed(ts) == said[ts] # Empty

\* What a frame shows of the cells perf printed.
Shown(cells) ==
    [k \in Keys |-> IF cells[k] = NA /\ kind = "thread" THEN Absent ELSE cells[k]]

\* The values the parser's locals and the frames take; no frame has width zero
\* or less, which rates could not be divided by.
TypeOK ==
    /\ kind \in {"thread", "system"}
    /\ perf \in {"running", "last", "ended"}
    /\ now \in 0 .. MaxTs
    /\ said \in [Stamps -> [Keys -> Cells]]
    /\ reader \in {"reading", "left", "returned"}
    /\ curTs \in 0 .. MaxTs /\ prevTs \in 0 .. MaxTs
    /\ rows \in [Keys -> Cells]
    /\ frames \in Seq([t : Stamps, dt : Nat \ {0}, rows : [Keys -> Cells]])

\* A frame holds the lines of its own interval and all of them: no count is
\* carried over from the interval before, none is cut off at the boundary.
FramesAreIntervals ==
    \A i \in 1 .. Len(frames) : frames[i].rows = Shown(said[frames[i].t])

\* Frames come in the order of the intervals, none twice, and every interval
\* before the one being collected has one.
NoIntervalLost ==
    /\ \A i, j \in 1 .. Len(frames) : i < j => frames[i].t < frames[j].t
    /\ \A ts \in Stamps : Printed(ts) /\ ts < curTs =>
          \E i \in 1 .. Len(frames) : frames[i].t = ts

\* At the end of the stream the interval held is not lost either; the thread
\* collector alone gives up one that has no value at all.
TailDelivered ==
    reader = "returned" =>
        \A ts \in Stamps : Printed(ts) =>
            \/ \E i \in 1 .. Len(frames) : frames[i].t = ts
            \/ kind = "thread" /\ ts = curTs /\ Shown(said[ts]) = Empty

\* The width that rates are divided by is the time since the frame before.
WidthSincePrevious ==
    \A i \in 2 .. Len(frames) : frames[i].dt = frames[i].t - frames[i - 1].t

\* What a consumer sees of the two collectors.
Stream == INSTANCE IntervalStream WITH out <- frames, open <- (reader = "reading")

\* Collector.frames and ThreadCollector.frames implement the stream of intervals:
\* every step of the parser is a line said, a frame handed out by the line that
\* completes it, the end, or nothing a consumer can see.
StreamSpec == Stream!Spec
============================================================================
