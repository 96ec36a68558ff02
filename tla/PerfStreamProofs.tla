-------------------------- MODULE PerfStreamProofs --------------------------
(***************************************************************************)
(* The frames of both collectors are the intervals perf printed, each     *)
(* once and in order, for any keys, values, interval and stream length.   *)
(***************************************************************************)
EXTENDS PerfStream, TLAPS

\* What is being collected is what perf printed with cur_ts, and nothing was
\* printed after it while the parser is listening.
HeldInv ==
    /\ curTs <= now
    /\ curTs = NoTs => rows = Empty
    /\ curTs # NoTs => rows = Shown(said[curTs]) /\ said[curTs] # Empty
    /\ reader # "left" => \A ts \in Stamps : ts > curTs => said[ts] = Empty

\* The frames yielded so far end with prev_ts, before cur_ts.
ReadingInv ==
    reader = "reading" =>
        /\ frames = <<>> <=> prevTs = NoTs
        /\ frames # <<>> => frames[Len(frames)].t = prevTs
        /\ prevTs = NoTs \/ prevTs < curTs
        /\ \A i \in 1 .. Len(frames) : frames[i].t < curTs

IInv ==
    /\ TypeOK /\ HeldInv /\ ReadingInv
    /\ FramesAreIntervals /\ NoIntervalLost /\ TailDelivered /\ WidthSincePrevious

\* What Append does to the positions of a sequence.
LEMMA AppendFacts ==
    ASSUME NEW S, NEW s \in Seq(S), NEW e \in S
    PROVE  /\ Append(s, e) \in Seq(S)
           /\ Append(s, e) # <<>>
           /\ Len(s) \in Nat
           /\ Len(Append(s, e)) = Len(s) + 1
           /\ \A i \in 1 .. Len(s) : Append(s, e)[i] = s[i]
           /\ Append(s, e)[Len(s) + 1] = e
OBVIOUS

\* A frame is about a timestamp of the stream.
LEMMA FrameStamps == TypeOK => \A i \in 1 .. Len(frames) : frames[i].t \in Stamps
<1> SUFFICES ASSUME TypeOK, NEW i \in 1 .. Len(frames) PROVE frames[i].t \in Stamps
    OBVIOUS
<1> DEFINE F == [t : Stamps, dt : Nat \ {0}, rows : [Keys -> Cells]]
<1>1. frames \in Seq(F)
    BY DEF TypeOK
<1>2. \A f \in F : f.t \in Stamps
    OBVIOUS
<1> HIDE DEF F
<1>3. frames[i] \in F
    BY <1>1
<1> QED BY <1>2, <1>3

LEMMA InitIInv == Init => IInv
<1> SUFFICES ASSUME Init PROVE IInv
    OBVIOUS
<1> USE CellAssumption, IntervalAssumption, MaxTsAssumption DEF Init, NoTs
<1>1. TypeOK
    BY DEF TypeOK, Empty, Cells, Stamps
<1>2. HeldInv /\ ReadingInv
    BY DEF HeldInv, ReadingInv, Stamps
<1>3. FramesAreIntervals /\ NoIntervalLost /\ TailDelivered /\ WidthSincePrevious
    BY DEF FramesAreIntervals, NoIntervalLost, TailDelivered, WidthSincePrevious, Stamps
<1> QED BY <1>1, <1>2, <1>3 DEF IInv

\* The steps of perf alone touch nothing the parser has.
LEMMA PerfIInv ==
    ASSUME IInv, NextInterval \/ LastInterval \/ End PROVE IInv'
<1> USE IntervalAssumption, MaxTsAssumption
       DEF NextInterval, LastInterval, End, parser, IInv, Stamps
<1>1. TypeOK'
    BY DEF TypeOK
<1>2. HeldInv'
    BY DEF HeldInv, TypeOK, Shown, NoTs
<1>3. ReadingInv'
    BY DEF ReadingInv
<1>4. UNCHANGED <<frames, kind, said, curTs, reader>>
    OBVIOUS
<1>5. FramesAreIntervals' /\ WidthSincePrevious'
    BY <1>4 DEF FramesAreIntervals, WidthSincePrevious, Shown
<1>6. NoIntervalLost' /\ TailDelivered'
    BY <1>4 DEF NoIntervalLost, TailDelivered, Printed, Shown
<1> QED BY <1>1, <1>2, <1>3, <1>5, <1>6

\* A line changes said at its own timestamp and key only.
LEMMA PrintsFacts ==
    ASSUME TypeOK, NEW k \in Keys, NEW v \in Values \cup {NA}, Prints(k, v)
    PROVE  /\ said' \in [Stamps -> [Keys -> Cells]]
           /\ said[now] \in [Keys -> Cells]
           /\ now \in Stamps
           /\ said'[now] = [said[now] EXCEPT ![k] = v]
           /\ \A ts \in Stamps : ts # now => said'[ts] = said[ts]
           /\ said'[now] # Empty
<1>1. said \in [Stamps -> [Keys -> Cells]] /\ now \in Stamps
      /\ said' = [said EXCEPT ![now][k] = v]
    BY DEF TypeOK, Prints
<1>2. said'[now][k] = v /\ Empty[k] = Absent /\ v # Absent
    BY <1>1, CellAssumption DEF Empty
<1> QED BY <1>1, <1>2 DEF Cells

\* A line that ends no interval: the interval held is still all that was printed.
LEMMA SameIntervalIInv ==
    ASSUME IInv, NEW k \in Keys, NEW v \in Values \cup {NA}, SameInterval(k, v)
    PROVE  IInv'
<1> USE DEF IInv, SameInterval
<1>1. /\ TypeOK /\ Prints(k, v) /\ now \in Stamps /\ now' = now /\ perf' = perf
      /\ curTs \in {NoTs, now} /\ reader = "reading" /\ now # NoTs
    BY MaxTsAssumption DEF Prints, Stamps, NoTs
<1>2. /\ said' \in [Stamps -> [Keys -> Cells]]
      /\ said[now] \in [Keys -> Cells]
      /\ said'[now] = [said[now] EXCEPT ![k] = v]
      /\ \A ts \in Stamps : ts # now => said'[ts] = said[ts]
    BY <1>1, PrintsFacts
<1>3. rows = Shown(said[now])
    <2>1. CASE curTs = now
        BY <2>1, <1>1 DEF HeldInv
    <2>2. CASE curTs = NoTs
        <3>1. said[now] = Empty
            BY <2>2, <1>1, MaxTsAssumption DEF HeldInv, Stamps, NoTs
        <3>2. rows = Empty
            BY <2>2 DEF HeldInv
        <3>3. Shown(Empty) = Empty
            BY CellAssumption DEF Shown, Empty
        <3> QED BY <3>1, <3>2, <3>3
    <2> QED BY <2>1, <2>2, <1>1
<1>4. rows' = Shown(said[now])' /\ rows' \in [Keys -> Cells]
    <2>1. rows' = Put(rows, k, v) /\ kind' = kind /\ rows \in [Keys -> Cells]
        BY DEF TypeOK
    <2>2. CASE v = NA /\ kind = "thread"
        BY <1>1, <1>2, <1>3, <2>1, <2>2 DEF Put, Shown, Prints
    <2>3. CASE ~(v = NA /\ kind = "thread")
        BY <1>1, <1>2, <1>3, <2>1, <2>3, CellAssumption DEF Put, Shown, Cells
    <2> QED BY <2>2, <2>3
<1>5. TypeOK'
    BY <1>1, <1>2, <1>4 DEF TypeOK, Stamps
<1>6. HeldInv'
    BY <1>1, <1>2, <1>4, PrintsFacts, MaxTsAssumption DEF HeldInv, TypeOK, Stamps, NoTs, Empty
<1>7. ReadingInv'
    BY <1>1, MaxTsAssumption DEF ReadingInv, TypeOK, Stamps, NoTs
<1>8. \A i \in 1 .. Len(frames) : frames[i].t \in Stamps /\ frames[i].t < now
    BY <1>1, FrameStamps DEF ReadingInv, TypeOK, Stamps, NoTs, HeldInv
<1>9. FramesAreIntervals'
    BY <1>1, <1>2, <1>8 DEF FramesAreIntervals, Shown, Stamps
<1>10. NoIntervalLost'
    <2>1. ASSUME NEW ts \in Stamps, Printed(ts)', ts < now
          PROVE  \E i \in 1 .. Len(frames) : frames[i].t = ts
        <3>1. said'[ts] = said[ts] /\ Printed(ts)
            BY <2>1, <1>2 DEF Printed, Stamps, Empty
        <3>2. ts < curTs
            BY <3>1, <1>1, <2>1 DEF HeldInv, Printed, Stamps, NoTs
        <3> QED BY <3>1, <3>2 DEF NoIntervalLost
    <2> QED BY <2>1, <1>1 DEF NoIntervalLost
<1>11. TailDelivered' /\ WidthSincePrevious'
    BY <1>1 DEF TailDelivered, WidthSincePrevious
<1> QED BY <1>5, <1>6, <1>7, <1>9, <1>10, <1>11

\* A yield appends the interval held, which is complete: whatever perf prints
\* meanwhile has another timestamp.
LEMMA YieldFacts ==
    ASSUME IInv, reader = "reading", curTs # NoTs, frames' = Yield, kind' = kind,
           \A ts \in Stamps : ts <= curTs => said'[ts] = said[ts]
    PROVE  /\ frames' \in Seq([t : Stamps, dt : Nat \ {0}, rows : [Keys -> Cells]])
           /\ frames' # <<>>
           /\ frames'[Len(frames')].t = curTs
           /\ \A i \in 1 .. Len(frames') : frames'[i].t \in Stamps /\ frames'[i].t <= curTs
           /\ \A i, j \in 1 .. Len(frames') : i < j => frames'[i].t < frames'[j].t
           /\ \A ts \in Stamps : said[ts] # Empty /\ ts <= curTs =>
                 \E i \in 1 .. Len(frames') : frames'[i].t = ts
           /\ FramesAreIntervals'
           /\ WidthSincePrevious'
<1> DEFINE F == [t : Stamps, dt : Nat \ {0}, rows : [Keys -> Cells]]
           e == [t |-> curTs, dt |-> Width, rows |-> rows]
<1> USE DEF IInv
<1>1. curTs \in Stamps /\ curTs \in Nat /\ prevTs \in Nat
    BY MaxTsAssumption DEF TypeOK, Stamps, NoTs
<1>2. Width \in Nat \ {0}
    BY <1>1, IntervalAssumption DEF Width, ReadingInv, NoTs
<1>3. e \in F
    BY <1>1, <1>2 DEF TypeOK
<1>4. frames \in Seq(F)
    BY DEF TypeOK
<1> HIDE DEF F
<1>5. /\ frames' \in Seq(F)
      /\ frames' # <<>>
      /\ Len(frames) \in Nat
      /\ Len(frames') = Len(frames) + 1
      /\ \A i \in 1 .. Len(frames) : frames'[i] = frames[i]
      /\ frames'[Len(frames) + 1] = e
    BY <1>3, <1>4, AppendFacts DEF Yield
<1>6. \A i \in 1 .. Len(frames) : frames[i].t \in Stamps /\ frames[i].t < curTs
    BY FrameStamps DEF ReadingInv
<1>7. e.t = curTs /\ e.dt = Width /\ e.rows = rows
    OBVIOUS
<1> HIDE DEF e
<1>8. \A i \in 1 .. Len(frames') : i \in 1 .. Len(frames) \/ i = Len(frames) + 1
    BY <1>5
<1>9. \A i \in 1 .. Len(frames') : frames'[i].t \in Stamps /\ frames'[i].t <= curTs
    BY <1>1, <1>5, <1>6, <1>7, <1>8 DEF Stamps
<1>10. \A i, j \in 1 .. Len(frames') : i < j => frames'[i].t < frames'[j].t
    <2> SUFFICES ASSUME NEW i \in 1 .. Len(frames'), NEW j \in 1 .. Len(frames'), i < j
                 PROVE  frames'[i].t < frames'[j].t
        OBVIOUS
    <2>1. i \in 1 .. Len(frames)
        BY <1>5
    <2>2. CASE j \in 1 .. Len(frames)
        BY <2>1, <2>2, <1>5 DEF NoIntervalLost
    <2>3. CASE j = Len(frames) + 1
        BY <2>1, <2>3, <1>5, <1>6, <1>7
    <2> QED BY <2>2, <2>3, <1>8
<1>11. \A ts \in Stamps : said[ts] # Empty /\ ts <= curTs =>
          \E i \in 1 .. Len(frames') : frames'[i].t = ts
    <2> SUFFICES ASSUME NEW ts \in Stamps, said[ts] # Empty, ts <= curTs
                 PROVE  \E i \in 1 .. Len(frames') : frames'[i].t = ts
        OBVIOUS
    <2>1. CASE ts = curTs
        BY <2>1, <1>5, <1>7
    <2>2. CASE ts < curTs
        <3>1. PICK i \in 1 .. Len(frames) : frames[i].t = ts
            BY <2>2 DEF NoIntervalLost, Printed
        <3> QED BY <3>1, <1>5
    <2> QED BY <2>1, <2>2, <1>1 DEF Stamps
<1>12. FramesAreIntervals'
    <2> SUFFICES ASSUME NEW i \in 1 .. Len(frames')
                 PROVE  frames'[i].rows = Shown(said[frames[i].t])'
        BY DEF FramesAreIntervals
    <2>1. CASE i \in 1 .. Len(frames)
        BY <2>1, <1>1, <1>5, <1>6 DEF FramesAreIntervals, Shown, Stamps
    <2>2. CASE i = Len(frames) + 1
        BY <2>2, <1>1, <1>5, <1>7 DEF HeldInv, Shown
    <2> QED BY <2>1, <2>2, <1>8
<1>13. WidthSincePrevious'
    <2> SUFFICES ASSUME NEW i \in 2 .. Len(frames')
                 PROVE  frames'[i].dt = frames'[i].t - frames'[i - 1].t
        BY DEF WidthSincePrevious
    <2>1. CASE i \in 2 .. Len(frames)
        <3>1. i \in 1 .. Len(frames) /\ i - 1 \in 1 .. Len(frames)
            BY <2>1, <1>5
        <3> QED BY <2>1, <3>1, <1>5 DEF WidthSincePrevious
    <2>2. CASE i = Len(frames) + 1
        <3>1. Len(frames) \in 1 .. Len(frames) /\ frames # <<>>
            BY <2>2, <1>4, <1>5
        <3>2. frames'[i - 1].t = prevTs /\ prevTs # NoTs
            BY <2>2, <3>1, <1>5 DEF ReadingInv
        <3> QED BY <2>2, <3>2, <1>5, <1>7 DEF Width
    <2> QED BY <2>1, <2>2, <1>5
<1>14. frames'[Len(frames')].t = curTs
    BY <1>5, <1>7
<1> QED BY <1>5, <1>9, <1>10, <1>11, <1>12, <1>13, <1>14 DEF F

\* A line of the next interval.
LEMMA NewIntervalIInv ==
    ASSUME IInv, NEW k \in Keys, NEW v \in Values \cup {NA},
           NewInterval(k, v) \/ LeaveAtYield(k, v)
    PROVE  IInv'
<1> USE DEF IInv
<1>1. /\ Prints(k, v) /\ now \in Stamps /\ now' = now /\ perf' = perf /\ kind' = kind
      /\ curTs # NoTs /\ curTs # now /\ reader = "reading" /\ frames' = Yield
    BY DEF Prints, NewInterval, LeaveAtYield, Stamps, NoTs
<1>2. /\ said' \in [Stamps -> [Keys -> Cells]]
      /\ said'[now] = [said[now] EXCEPT ![k] = v]
      /\ \A ts \in Stamps : ts # now => said'[ts] = said[ts]
    BY <1>1, PrintsFacts
<1>3. curTs < now /\ curTs \in Stamps
    BY <1>1, MaxTsAssumption DEF HeldInv, TypeOK, Stamps, NoTs
<1>4. \A ts \in Stamps : ts <= curTs => said'[ts] = said[ts]
    BY <1>1, <1>2, <1>3 DEF Stamps
<1>5. /\ frames' \in Seq([t : Stamps, dt : Nat \ {0}, rows : [Keys -> Cells]])
      /\ frames' # <<>>
      /\ frames'[Len(frames')].t = curTs
      /\ \A i \in 1 .. Len(frames') : frames'[i].t \in Stamps /\ frames'[i].t <= curTs
      /\ \A i, j \in 1 .. Len(frames') : i < j => frames'[i].t < frames'[j].t
      /\ \A ts \in Stamps : said[ts] # Empty /\ ts <= curTs =>
            \E i \in 1 .. Len(frames') : frames'[i].t = ts
      /\ FramesAreIntervals' /\ WidthSincePrevious'
    BY <1>1, <1>4, YieldFacts
<1>6. \A ts \in Stamps : ts > curTs /\ ts # now => said'[ts] = Empty
    BY <1>1, <1>2 DEF HeldInv
<1>7. NoIntervalLost'
    <2>1. ASSUME NEW ts \in Stamps, said'[ts] # Empty, ts < curTs'
          PROVE  \E i \in 1 .. Len(frames') : frames'[i].t = ts
        <3>1. curTs' = curTs \/ curTs' = now
            BY DEF NewInterval, LeaveAtYield
        <3>2. ts <= curTs
            BY <2>1, <3>1, <1>3, <1>6 DEF Stamps
        <3> QED BY <2>1, <3>2, <1>4, <1>5
    <2> QED BY <2>1, <1>5 DEF NoIntervalLost, Printed, Stamps, Empty
<1>8. CASE NewInterval(k, v)
    <2> USE <1>8 DEF NewInterval
    <2>1. said[now] = Empty
        BY <1>1, <1>3 DEF HeldInv, Stamps
    <2>2. rows' = Shown(said[now])' /\ rows' \in [Keys -> Cells]
        BY <1>1, <1>2, <2>1, CellAssumption DEF Put, Shown, Empty, Cells
    <2>3. TypeOK'
        BY <1>1, <1>2, <1>3, <1>5, <2>2 DEF TypeOK, Stamps
    <2>4. HeldInv'
        BY <1>1, <1>2, <1>3, <1>6, <2>2, PrintsFacts DEF HeldInv, TypeOK, Stamps, NoTs, Empty
    <2>5. ReadingInv'
        <3>1. curTs' = now /\ prevTs' = curTs
            OBVIOUS
        <3>2. \A i \in 1 .. Len(frames') : frames'[i].t < now
            BY <1>3, <1>5, MaxTsAssumption DEF TypeOK, Stamps
        <3> QED BY <1>1, <1>3, <1>5, <3>1, <3>2 DEF ReadingInv
    <2>6. TailDelivered'
        BY <1>1 DEF TailDelivered
    <2> QED BY <1>5, <1>7, <2>3, <2>4, <2>5, <2>6
<1>9. CASE LeaveAtYield(k, v)
    <2> USE <1>9 DEF LeaveAtYield
    <2>1. TypeOK'
        BY <1>1, <1>2, <1>3, <1>5 DEF TypeOK, Stamps
    <2>2. HeldInv'
        BY <1>1, <1>3, <1>4 DEF HeldInv, Shown, TypeOK, Stamps
    <2>3. ReadingInv' /\ TailDelivered'
        BY <1>1 DEF ReadingInv, TailDelivered
    <2> QED BY <1>5, <1>7, <2>1, <2>2, <2>3
<1> QED BY <1>8, <1>9

\* What is not yielded at the end had no value.
LEMMA NoTailFacts == ~YieldsTail => curTs = NoTs \/ (kind = "thread" /\ rows = Empty)
BY Zenon DEF YieldsTail

\* The end of the stream.
LEMMA EndOfStreamIInv == IInv /\ EndOfStream => IInv'
<1> SUFFICES ASSUME IInv, EndOfStream PROVE IInv'
    OBVIOUS
<1> USE DEF IInv, EndOfStream
<1>1. HeldInv' /\ ReadingInv'
    BY DEF HeldInv, ReadingInv, Shown
<1>2. CASE YieldsTail
    <2>1. curTs # NoTs /\ frames' = Yield
        BY <1>2 DEF YieldsTail
    <2>2. /\ frames' \in Seq([t : Stamps, dt : Nat \ {0}, rows : [Keys -> Cells]])
          /\ \A i, j \in 1 .. Len(frames') : i < j => frames'[i].t < frames'[j].t
          /\ \A ts \in Stamps : said[ts] # Empty /\ ts <= curTs =>
                \E i \in 1 .. Len(frames') : frames'[i].t = ts
          /\ FramesAreIntervals' /\ WidthSincePrevious'
        BY <2>1, YieldFacts
    <2>3. TypeOK'
        BY <2>2 DEF TypeOK
    <2>4. \A ts \in Stamps : said[ts] # Empty => ts <= curTs
        BY DEF HeldInv, Stamps, TypeOK
    <2>5. NoIntervalLost' /\ TailDelivered'
        BY <2>2, <2>4 DEF NoIntervalLost, TailDelivered, Printed, Empty
    <2> QED BY <1>1, <2>2, <2>3, <2>5
<1>3. CASE ~YieldsTail
    <2>0. curTs = NoTs \/ (kind = "thread" /\ rows = Empty)
        BY <1>3, NoTailFacts
    <2>1. frames' = frames /\ (curTs = NoTs \/ (kind = "thread" /\ rows = Empty))
        BY <1>3, <2>0
    <2>2. TypeOK'
        BY <2>1 DEF TypeOK
    <2>3. FramesAreIntervals' /\ NoIntervalLost' /\ WidthSincePrevious'
        BY <2>1 DEF FramesAreIntervals, NoIntervalLost, WidthSincePrevious, Printed, Shown
    <2>4. ASSUME NEW ts \in Stamps, said[ts] # Empty
          PROVE  \/ \E i \in 1 .. Len(frames) : frames[i].t = ts
                 \/ kind = "thread" /\ ts = curTs /\ Shown(said[ts]) = Empty
        <3>1. ts <= curTs /\ curTs # NoTs
            BY <2>4, MaxTsAssumption DEF HeldInv, Stamps, TypeOK, NoTs
        <3>2. CASE ts < curTs
            BY <3>2, <2>4 DEF NoIntervalLost, Printed
        <3>3. CASE ts = curTs
            BY <3>1, <3>3, <2>1 DEF HeldInv
        <3> QED BY <3>1, <3>2, <3>3 DEF Stamps, TypeOK
    <2>5. TailDelivered'
        BY <2>1, <2>4 DEF TailDelivered, Printed, Shown, Empty
    <2> QED BY <1>1, <2>2, <2>3, <2>5
<1> QED BY <1>2, <1>3

LEMMA NextIInv == IInv /\ [Next]_vars => IInv'
<1> SUFFICES ASSUME IInv, [Next]_vars PROVE IInv'
    OBVIOUS
<1>1. CASE NextInterval \/ LastInterval \/ End
    BY <1>1, PerfIInv
<1>2. CASE \E k \in Keys, v \in Values \cup {NA} :
              SameInterval(k, v) \/ NewInterval(k, v) \/ LeaveAtYield(k, v)
    BY <1>2, SameIntervalIInv, NewIntervalIInv
<1>3. CASE EndOfStream
    BY <1>3, EndOfStreamIInv
<1>4. CASE UNCHANGED vars
    BY <1>4 DEF vars, IInv, TypeOK, HeldInv, ReadingInv, FramesAreIntervals,
       NoIntervalLost, TailDelivered, WidthSincePrevious, Printed, Shown
<1> QED BY <1>1, <1>2, <1>3, <1>4 DEF Next, Done

\* The strengthening is an invariant of the frame stream.
THEOREM Inductive == Spec => []IInv
BY InitIInv, NextIInv, PTL DEF Spec

----------------------------------------------------------------------------

\* The parser's locals keep their types and every width is positive, so
\* Collector and ThreadCollector never hand out a frame to divide by zero.
THEOREM TypeCorrect == Spec => []TypeOK
<1>1. IInv => TypeOK
    BY DEF IInv
<1> QED BY <1>1, Inductive, PTL

\* Every frame of Collector.frames and ThreadCollector.frames is one interval.
THEOREM FramesCorrect == Spec => []FramesAreIntervals
<1>1. IInv => FramesAreIntervals
    BY DEF IInv
<1> QED BY <1>1, Inductive, PTL

\* Frames come in order, and none is missing before cur_ts.
THEOREM NothingLost == Spec => []NoIntervalLost
<1>1. IInv => NoIntervalLost
    BY DEF IInv
<1> QED BY <1>1, Inductive, PTL

\* The last interval is delivered when the stream ends.
THEOREM LastIntervalDelivered == Spec => []TailDelivered
<1>1. IInv => TailDelivered
    BY DEF IInv
<1> QED BY <1>1, Inductive, PTL

\* dt is the time since the frame before.
THEOREM WidthsCorrect == Spec => []WidthSincePrevious
<1>1. IInv => WidthSincePrevious
    BY DEF IInv
<1> QED BY <1>1, Inductive, PTL

----------------------------------------------------------------------------
(* The refinement. *)

\* The abstract step speaks of the same stream.
LEMMA SameNames ==
    /\ Stream!Stamps = Stamps /\ Stream!Empty = Empty
    /\ \A cells : Stream!Shown(cells) = Shown(cells)
BY DEF Stream!Stamps, Stamps, Stream!Empty, Empty, Stream!Shown, Shown

\* While the parser reads, the last frame handed out is that of prev_ts, and
\* the one interval that may be pending is the one held.
LEMMA HeldIsPending ==
    ASSUME IInv, reader = "reading"
    PROVE  /\ Stream!LastOut = prevTs
           /\ Stream!Pending = IF curTs = NoTs THEN {} ELSE {curTs}
           /\ curTs # NoTs => /\ curTs \in Stamps
                              /\ Stream!Frame(curTs) = [t |-> curTs, dt |-> Width, rows |-> rows]
<1> USE DEF IInv
<1>1. Stream!LastOut = prevTs
    BY DEF Stream!LastOut, ReadingInv, NoTs
<1>2. curTs \in 0 .. MaxTs /\ prevTs \in 0 .. MaxTs
    BY DEF TypeOK
<1>3. ASSUME NEW ts \in Stamps, said[ts] # Empty, ts > prevTs PROVE ts = curTs
    <2>1. ts <= curTs
        BY <1>2, <1>3 DEF HeldInv, Stamps
    <2>2. CASE ts < curTs
        <3>1. PICK i \in 1 .. Len(frames) : frames[i].t = ts
            BY <2>2, <1>3 DEF NoIntervalLost, Printed
        <3>2. frames # <<>> /\ Len(frames) \in 1 .. Len(frames) /\ Len(frames) \in Nat
            BY <3>1 DEF TypeOK
        <3>3. frames[i].t <= frames[Len(frames)].t
            <4>1. i = Len(frames) \/ i < Len(frames)
                BY <3>2
            <4>2. frames[i].t \in Stamps /\ frames[Len(frames)].t \in Stamps
                BY <3>2, FrameStamps
            <4> QED BY <3>2, <4>1, <4>2 DEF NoIntervalLost, Stamps
        <3>4. frames[Len(frames)].t = prevTs
            BY <3>2 DEF ReadingInv
        <3> QED BY <3>1, <3>3, <3>4, <1>2, <1>3 DEF Stamps
    <2> QED BY <2>1, <2>2, <1>2 DEF Stamps
<1>4. curTs # NoTs => curTs \in Stamps /\ said[curTs] # Empty /\ curTs > prevTs
    BY <1>2, MaxTsAssumption DEF HeldInv, ReadingInv, NoTs, Stamps
<1>5. Stream!Pending = IF curTs = NoTs THEN {} ELSE {curTs}
    BY <1>1, <1>3, <1>4, SameNames DEF Stream!Pending, NoTs, Stamps
<1>6. ASSUME curTs # NoTs
      PROVE  Stream!Frame(curTs) = [t |-> curTs, dt |-> Width, rows |-> rows]
    <2>1. Stream!Shown(said[curTs]) = rows
        BY <1>6, SameNames DEF HeldInv
    <2>2. (IF frames = <<>> THEN Interval ELSE curTs - Stream!LastOut) = Width
        BY <1>1, <1>6 DEF Width, ReadingInv
    <2> QED BY <2>1, <2>2 DEF Stream!Frame
<1> QED BY <1>1, <1>4, <1>5, <1>6

\* The parser's first state is the stream's.
LEMMA InitStream == Init => Stream!Init
BY SameNames DEF Init, Stream!Init

\* A line is a line of the stream; it hands out the interval held when it is
\* the first of the next one.
LEMMA LineStream ==
    ASSUME IInv, NEW k \in Keys, NEW v \in Values \cup {NA},
           SameInterval(k, v) \/ (NewInterval(k, v) \/ LeaveAtYield(k, v))
    PROVE  Stream!Line(now, k, v)
<1>1. /\ reader = "reading" /\ now \in Stamps /\ said[now][k] = Absent /\ kind' = kind
      /\ said' = [said EXCEPT ![now][k] = v]
    BY DEF SameInterval, NewInterval, LeaveAtYield, Prints
<1>2. curTs <= now /\ curTs \in 0 .. MaxTs /\ now \in 0 .. MaxTs
    BY DEF IInv, HeldInv, TypeOK
<1>3. \A later \in Stream!Stamps : later > now => said[later] = Stream!Empty
    BY <1>1, <1>2, SameNames DEF IInv, HeldInv, Stamps
<1>4. Stream!Pending = IF curTs = NoTs THEN {} ELSE {curTs}
    BY <1>1, HeldIsPending
<1>5. CASE SameInterval(k, v)
    <2>1. Stream!Pending \subseteq {now}
        BY <1>4, <1>5 DEF SameInterval
    <2>2. UNCHANGED <<frames, reader>>
        BY <1>5 DEF SameInterval
    <2> QED BY <1>1, <1>3, <2>1, <2>2 DEF Stream!Line
<1>6. CASE NewInterval(k, v) \/ LeaveAtYield(k, v)
    <2>1. curTs # NoTs /\ curTs # now /\ frames' = Yield
        BY <1>6 DEF NewInterval, LeaveAtYield
    <2>2. curTs \in Stream!Pending \ {now} /\ Stream!Pending \subseteq {curTs, now}
        BY <1>4, <2>1
    <2>3. frames' = Append(frames, Stream!Frame(curTs))
        BY <1>1, <2>1, HeldIsPending DEF Yield
    <2>4. (reader = "reading")' \in BOOLEAN
        OBVIOUS
    <2> QED BY <1>1, <1>3, <2>2, <2>3, <2>4 DEF Stream!Line
<1> QED BY <1>5, <1>6

\* The end of the output is the end of the stream.
LEMMA EndStream == IInv /\ EndOfStream => Stream!Close
<1> SUFFICES ASSUME IInv, EndOfStream PROVE Stream!Close
    OBVIOUS
<1>1. reader = "reading" /\ reader' = "returned" /\ UNCHANGED <<kind, said>>
    BY DEF EndOfStream
<1>2. Stream!Pending = IF curTs = NoTs THEN {} ELSE {curTs}
    BY <1>1, HeldIsPending
<1>3. curTs # NoTs => Stream!Shown(said[curTs]) = rows
    BY SameNames DEF IInv, HeldInv
<1>4. CASE YieldsTail
    <2>1. curTs # NoTs /\ frames' = Yield /\ (kind = "thread" => rows # Empty)
        BY <1>4 DEF YieldsTail, EndOfStream
    <2>2. frames' = Append(frames, Stream!Frame(curTs))
        BY <1>1, <2>1, HeldIsPending DEF Yield
    <2> QED BY <1>1, <1>2, <1>3, <2>1, <2>2, SameNames DEF Stream!Close
<1>5. CASE ~YieldsTail
    <2>1. curTs = NoTs \/ (kind = "thread" /\ rows = Empty)
        BY <1>5, NoTailFacts
    <2>2. frames' = frames
        BY <1>5 DEF EndOfStream
    <2>3. \A ts \in Stream!Pending : kind = "thread" /\ Stream!Shown(said[ts]) = Stream!Empty
        BY <1>2, <1>3, <2>1, SameNames
    <2> QED BY <1>1, <2>2, <2>3 DEF Stream!Close
<1> QED BY <1>4, <1>5

LEMMA NextStream == IInv /\ [Next]_vars => [Stream!Next]_(Stream!vars)
<1> SUFFICES ASSUME IInv, [Next]_vars PROVE [Stream!Next]_(Stream!vars)
    OBVIOUS
<1>1. CASE (NextInterval \/ LastInterval \/ End) \/ UNCHANGED vars
    BY <1>1 DEF NextInterval, LastInterval, End, parser, vars, Stream!vars
<1>2. ASSUME NEW k \in Keys, NEW v \in Values \cup {NA},
             SameInterval(k, v) \/ (NewInterval(k, v) \/ LeaveAtYield(k, v))
      PROVE  Stream!Next
    <2>1. now \in Stream!Stamps
        BY <1>2, SameNames DEF SameInterval, NewInterval, LeaveAtYield, Prints
    <2> QED BY <1>2, <2>1, LineStream DEF Stream!Next
<1>3. CASE EndOfStream
    BY <1>3, EndStream DEF Stream!Next
<1> QED BY <1>1, <1>2, <1>3 DEF Next, Done

\* The collectors implement the stream of intervals: for any keys, values,
\* interval and length, what a consumer of `frames()` sees is IntervalStream.
THEOREM StreamImplemented == Spec => StreamSpec
<1>1. Init => Stream!Init
    BY InitStream
<1>2. IInv /\ [Next]_vars => [Stream!Next]_(Stream!vars)
    BY NextStream
<1> QED BY <1>1, <1>2, Inductive, PTL DEF Spec, StreamSpec, Stream!Spec
============================================================================
