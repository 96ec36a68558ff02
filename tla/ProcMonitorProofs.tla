------------------------- MODULE ProcMonitorProofs -------------------------
(***************************************************************************)
(* What a snapshot of ProcessMonitor says of the processes, for any set   *)
(* of processes and threads, any --top and --pids, and any number of      *)
(* threads ending, starting and having their ids used again.              *)
(***************************************************************************)
EXTENDS ProcMonitor, TLAPS

\* An id that was not used again still has, where it has any, the process it
\* had when perf attached to it and when it was cached; and these are the same.
IdInv ==
    \A t \in Tids : t \notin reused =>
        /\ attached[t] # NoPid /\ owner[t] # NoPid => owner[t] = attached[t]
        /\ tid2pid[t] # NoPid /\ owner[t] # NoPid => owner[t] = tid2pid[t]
        /\ tid2pid[t] # NoPid /\ attached[t] # NoPid => tid2pid[t] = attached[t]

\* A thread that was counted is in the cache.
CacheInv == \A t \in counted : tid2pid[t] # NoPid

\* perf counts threads of the chosen processes, which are the ones asked for.
ChosenInv ==
    /\ \A p \in DOMAIN info : p \in pinned \/ (pinned = {} /\ p \notin Own)
    /\ pc \in {"window", "pid", "cpu", "yield"} =>
          \A t \in Tids : attached[t] # NoPid => attached[t] \in DOMAIN info

\* There is a frame from its arrival to the yield only, of threads perf counts;
\* nothing is summed of a thread that is yet to come.
FrameInv ==
    /\ pc \notin {"pid", "cpu", "yield"} => rows = {} /\ todo = {} /\ snap = NoSnap
    /\ todo \subseteq rows
    /\ pc = "yield" => todo = {}
    /\ \A t \in rows : attached[t] # NoPid
    /\ \A p \in Pids : snap.all[p] \subseteq rows \ todo

\* Between its look-ups a thread is counted for the process in the cache, and
\* in no class; and then only.
CurInv ==
    /\ pc = "cpu" <=> cur # NoTid
    /\ pc = "cpu" =>
          /\ split
          /\ cur \in rows \ todo /\ tid2pid[cur] \in Pids
          /\ \A p \in Pids : /\ cur \in snap.all[p] <=> p = tid2pid[cur]
                              /\ cur \notin snap.iso[p] \cup snap.shr[p]
          /\ cur \in lost => owner[cur] = NoPid

\* IsoSplit, before the yield.
ClassInv ==
    /\ lost \subseteq moved
    /\ \A t \in lost : \E p \in Pids : t \in snap.all[p]
    /\ \A p \in Pids :
          /\ snap.iso[p] \cap snap.shr[p] = {}
          /\ snap.iso[p] \cup snap.shr[p] \subseteq snap.all[p] \ lost
          /\ ~split => snap.iso[p] \cup snap.shr[p] = {}
          /\ split => \A t \in snap.all[p] \ (moved \cup {cur}) :
                t \in snap.iso[p] \cup snap.shr[p] <=> owner[t] # NoPid

IInv ==
    /\ TypeOK /\ IdInv /\ CacheInv /\ ChosenInv /\ FrameInv /\ CurInv /\ ClassInv
    /\ ChargedToOwner /\ CountedToTheEnd

LEMMA AliveFacts == TypeOK => Alive \subseteq Pids
BY DEF TypeOK, Alive

\* CPU is never negative and never more than there was.
LEMMA CpuFacts == TypeOK => \A p \in Pids : Cpu(p) \in 0 .. MaxTicks
BY BoundsAssumption DEF TypeOK, Cpu

LEMMA TicksFacts == TypeOK => Ticks \in [Pids -> (0 .. MaxTicks) \cup {NoTicks}]
BY DEF TypeOK, Ticks

LEMMA SelectedFacts ==
    TypeOK => /\ Selected \subseteq Pids
              /\ \A p \in Selected : p \in pinned \/ (pinned = {} /\ p \notin Own)
BY AliveFacts DEF Selected, Top

LEMMA PidOfFacts ==
    TypeOK => \A t \in Tids : /\ PidOf(t) \in Pids \cup {NoPid}
                              /\ tid2pid[t] # NoPid => PidOf(t) = tid2pid[t]
                              /\ tid2pid[t] = NoPid => PidOf(t) = owner[t]
BY DEF TypeOK, PidOf

\* With no frame there is nothing to be said of one.
LEMMA NoFrameFacts ==
    snap = NoSnap => /\ snap \in [all : Buckets, iso : Buckets, shr : Buckets]
                     /\ \A p \in Pids : /\ snap.all[p] = {}
                                         /\ snap.iso[p] = {} /\ snap.shr[p] = {}
BY DEF NoSnap, NoBuckets, Buckets

LEMMA InitIInv == Init => IInv
<1> SUFFICES ASSUME Init PROVE IInv
    OBVIOUS
<1> USE PidsAssumption, TidsAssumption, BoundsAssumption DEF Init
<1>1. TypeOK
    <2>1. prev \in [Pids -> (0 .. MaxTicks) \cup {NoTicks}]
        BY DEF Ticks
    <2> QED BY <2>1, NoFrameFacts DEF TypeOK
<1>2. IdInv /\ CacheInv /\ ChosenInv
    BY DEF IdInv, CacheInv, ChosenInv
<1>3. FrameInv /\ CurInv /\ ClassInv
    BY NoFrameFacts DEF FrameInv, CurInv, ClassInv
<1>4. ChargedToOwner /\ CountedToTheEnd
    BY NoFrameFacts DEF ChargedToOwner, CountedToTheEnd
<1> QED BY <1>1, <1>2, <1>3, <1>4 DEF IInv

\* A process running changes nothing but its ticks.
LEMMA RunsIInv ==
    ASSUME IInv, OSStep, NEW p \in Pids, Runs(p) PROVE IInv'
<1> USE DEF IInv, OSStep, Runs, choice, frame, moves
<1>1. p \in Alive /\ used[p] < MaxTicks
    OBVIOUS
<1>2. used' \in [Pids -> 0 .. MaxTicks]
    BY BoundsAssumption DEF TypeOK
<1>3. TypeOK'
    BY <1>2 DEF TypeOK, Buckets
<1>4. IdInv' /\ CacheInv' /\ ChosenInv' /\ FrameInv'
    BY DEF IdInv, CacheInv, ChosenInv, FrameInv
<1>5. CurInv' /\ ClassInv'
    BY DEF CurInv, ClassInv
<1>6. ChargedToOwner' /\ CountedToTheEnd'
    BY DEF ChargedToOwner, CountedToTheEnd
<1> QED BY <1>3, <1>4, <1>5, <1>6

\* What is noted of a thread that comes or goes.
LEMMA MovesFacts ==
    ASSUME IInv, NEW t \in Tids, Moves(t)
    PROVE  /\ moved' \in SUBSET Tids /\ moved \subseteq moved'
           /\ t \in rows => t \in moved'
           /\ t = cur => t \in rows /\ pc = "cpu"
<1>1. t = cur => pc = "cpu"
    BY TidsAssumption DEF IInv, CurInv
<1> QED BY <1>1 DEF IInv, TypeOK, Moves, CurInv

LEMMA EndsIInv ==
    ASSUME IInv, OSStep, NEW t \in Tids, ThreadEnds(t) PROVE IInv'
<1> USE DEF IInv, OSStep, ThreadEnds, choice, frame
<1>1. /\ owner'[t] = NoPid
      /\ \A u \in Tids : u # t => owner'[u] = owner[u]
    BY DEF TypeOK
<1>2. /\ moved' \in SUBSET Tids /\ moved \subseteq moved'
      /\ t \in rows => t \in moved'
      /\ t = cur => t \in rows /\ pc = "cpu"
    BY MovesFacts
<1>3. lost' = IF t = cur THEN lost \cup {t} ELSE lost
    OBVIOUS
<1>4. TypeOK'
    <2>1. owner' \in [Tids -> Pids \cup {NoPid}]
        BY DEF TypeOK
    <2>2. lost' \subseteq Tids
        BY <1>3 DEF TypeOK
    <2> QED BY <1>2, <2>1, <2>2 DEF TypeOK, Buckets
<1>5. IdInv'
    BY <1>1 DEF IdInv
<1>6. CacheInv' /\ ChosenInv' /\ FrameInv'
    BY DEF CacheInv, ChosenInv, FrameInv
<1>7. CurInv'
    BY <1>1, <1>3 DEF CurInv, FrameInv, TypeOK
<1>8. ClassInv'
    BY <1>1, <1>2, <1>3 DEF ClassInv, CurInv, FrameInv, TypeOK, Buckets
<1>9. ChargedToOwner'
    BY DEF ChargedToOwner
<1>10. CountedToTheEnd'
    BY <1>1 DEF CountedToTheEnd, TypeOK
<1> QED BY <1>4, <1>5, <1>6, <1>7, <1>8, <1>9, <1>10

\* An id taken by a new thread is one perf and the cache do not know, or it
\* becomes one that was used again.
LEMMA StartsIInv ==
    ASSUME IInv, OSStep, NEW t \in Tids, NEW p \in Pids, ThreadStarts(t, p)
    PROVE  IInv'
<1> USE DEF IInv, OSStep, ThreadStarts, choice, frame
<1>1. /\ owner'[t] = p
      /\ \A u \in Tids : u # t => owner'[u] = owner[u]
      /\ reused \subseteq reused'
      /\ tid2pid[t] # NoPid \/ attached[t] # NoPid => t \in reused'
    BY DEF TypeOK
<1>2. /\ moved' \in SUBSET Tids /\ moved \subseteq moved'
      /\ t \in rows => t \in moved'
      /\ t = cur => t \in rows /\ pc = "cpu"
    BY MovesFacts
<1>3. lost' = IF t = cur THEN lost \ {t} ELSE lost
    OBVIOUS
<1>4. TypeOK'
    <2>1. used' \in [Pids -> 0 .. MaxTicks] /\ starts' \in 0 .. MaxStarts
        BY BoundsAssumption DEF TypeOK
    <2>2. owner' \in [Tids -> Pids \cup {NoPid}] /\ reused' \subseteq Tids
        BY DEF TypeOK
    <2>3. lost' \subseteq Tids
        BY <1>3 DEF TypeOK
    <2> QED BY <1>2, <2>1, <2>2, <2>3 DEF TypeOK, Buckets
<1>5. IdInv'
    BY <1>1 DEF IdInv
<1>6. CacheInv' /\ ChosenInv' /\ FrameInv'
    BY DEF CacheInv, ChosenInv, FrameInv
<1>7. CurInv'
    BY <1>1, <1>3 DEF CurInv, FrameInv, TypeOK
<1>8. ClassInv'
    BY <1>1, <1>2, <1>3 DEF ClassInv, CurInv, FrameInv, TypeOK, Buckets
<1>9. ChargedToOwner'
    BY <1>1 DEF ChargedToOwner
<1>10. CountedToTheEnd'
    BY <1>1 DEF CountedToTheEnd, FrameInv, TypeOK
<1> QED BY <1>4, <1>5, <1>6, <1>7, <1>8, <1>9, <1>10

LEMMA DiscoverIInv == IInv /\ Discover => IInv'
<1> SUFFICES ASSUME IInv, Discover PROVE IInv'
    OBVIOUS
<1> USE DEF IInv, Discover, os, choice, frame, moves
<1>1. /\ DOMAIN info' = Selected
      /\ Selected \subseteq Pids
      /\ \A p \in Selected : info'[p] = Cpu(p) /\ Cpu(p) \in 0 .. MaxTicks
      /\ \A p \in Selected : p \in pinned \/ (pinned = {} /\ p \notin Own)
    BY SelectedFacts, CpuFacts
<1>2. TypeOK'
    BY <1>1, TicksFacts DEF TypeOK, Buckets
<1>3. IdInv' /\ CacheInv' /\ FrameInv'
    BY DEF IdInv, CacheInv, FrameInv
<1>4. ChosenInv'
    BY <1>1 DEF ChosenInv
<1>5. CurInv' /\ ClassInv'
    BY DEF CurInv, ClassInv
<1>6. ChargedToOwner' /\ CountedToTheEnd'
    BY DEF ChargedToOwner, CountedToTheEnd
<1> QED BY <1>2, <1>3, <1>4, <1>5, <1>6

LEMMA AttachIInv == IInv /\ Attach => IInv'
<1> SUFFICES ASSUME IInv, Attach PROVE IInv'
    OBVIOUS
<1> USE DEF IInv, Attach, os, choice, frame, moves
<1>1. \A t \in Tids : attached'[t] # NoPid =>
          attached'[t] = owner[t] /\ attached'[t] \in DOMAIN info
    OBVIOUS
<1>2. rows = {} /\ snap = NoSnap
    BY DEF FrameInv
<1>3. TypeOK'
    <2>1. attached' \in [Tids -> Pids \cup {NoPid}]
        BY DEF TypeOK
    <2> QED BY <2>1 DEF TypeOK, Buckets
<1>4. IdInv'
    BY <1>1 DEF IdInv
<1>5. CacheInv' /\ ChosenInv' /\ FrameInv'
    BY <1>1, <1>2 DEF CacheInv, ChosenInv, FrameInv
<1>6. CurInv' /\ ClassInv'
    BY DEF CurInv, ClassInv
<1>7. ChargedToOwner' /\ CountedToTheEnd'
    BY <1>2, NoFrameFacts DEF ChargedToOwner, CountedToTheEnd
<1> QED BY <1>3, <1>4, <1>5, <1>6, <1>7

LEMMA FrameIInv == IInv /\ Frame => IInv'
<1> SUFFICES ASSUME IInv, Frame PROVE IInv'
    OBVIOUS
<1> USE DEF IInv
<1>1. /\ info' = Refreshed /\ prev' = Ticks /\ pc = "window" /\ pc' = "pid"
      /\ rows' \subseteq Tids /\ todo' = rows'
      /\ \A t \in rows' : attached[t] # NoPid
      /\ UNCHANGED <<os, choice, attached, tid2pid, cur, snap, counted, moves>>
    BY DEF Frame, moves
<1>2. snap = NoSnap
    BY <1>1 DEF FrameInv
<1>3. DOMAIN info' = DOMAIN info
    BY <1>1 DEF Refreshed
<1>4. TypeOK'
    <2>1. \A p \in DOMAIN info' : info'[p] \in 0 .. MaxTicks
        BY <1>1, <1>3, CpuFacts DEF Refreshed, TypeOK
    <2>2. prev' \in [Pids -> (0 .. MaxTicks) \cup {NoTicks}]
        BY <1>1, TicksFacts
    <2>3. DOMAIN info' \subseteq Pids
        BY <1>3 DEF TypeOK
    <2> QED BY <1>1, <2>1, <2>2, <2>3 DEF TypeOK, Buckets, os, choice, moves
<1>5. IdInv' /\ CacheInv'
    BY <1>1 DEF IdInv, CacheInv, os
<1>6. ChosenInv'
    BY <1>1, <1>3 DEF ChosenInv, choice
<1>7. FrameInv'
    BY <1>1, <1>2, NoFrameFacts DEF FrameInv
<1>8. CurInv' /\ ClassInv'
    BY <1>1 DEF CurInv, ClassInv, os, choice, moves
<1>9. ChargedToOwner' /\ CountedToTheEnd'
    BY <1>1 DEF ChargedToOwner, CountedToTheEnd, os
<1> QED BY <1>4, <1>5, <1>6, <1>7, <1>8, <1>9

\* One thread more is charged, if its process is known.
LEMMA LookUpPidIInv == ASSUME IInv, NEW t \in Tids, LookUpPid(t) PROVE IInv'
<1> USE DEF IInv
<1>1. PICK P \in Pids \cup {NoPid} :
          /\ P = PidOf(t)
          /\ tid2pid[t] # NoPid => P = tid2pid[t]
          /\ tid2pid[t] = NoPid => P = owner[t]
    BY PidOfFacts
<1>2. /\ pc = "pid" /\ t \in todo /\ todo' = todo \ {t} /\ rows' = rows
      /\ attached' = attached /\ lost' = lost /\ moved' = moved
      /\ UNCHANGED <<os, choice, prev, info>>
      /\ owner' = owner /\ reused' = reused /\ pinned' = pinned /\ split' = split
    BY DEF LookUpPid, moves, os, choice
<1>3. /\ t \in rows /\ attached[t] # NoPid
      /\ cur = NoTid
      /\ \A p \in Pids : t \notin snap.all[p] \cup snap.iso[p] \cup snap.shr[p]
    BY <1>2 DEF FrameInv, CurInv, ClassInv
<1>4. /\ tid2pid' \in [Tids -> Pids \cup {NoPid}] /\ tid2pid'[t] = P
      /\ \A u \in Tids : u # t => tid2pid'[u] = tid2pid[u]
    BY <1>1 DEF LookUpPid, TypeOK
<1>5. snap' \in [all : Buckets, iso : Buckets, shr : Buckets]
    <2>1. CASE P = NoPid
        BY <1>1, <2>1 DEF LookUpPid, TypeOK
    <2>2. CASE P # NoPid
        <3>1. P \in Pids /\ snap' = [snap EXCEPT !.all[P] = @ \cup {t}]
            BY <1>1, <2>2 DEF LookUpPid
        <3> QED BY <3>1 DEF TypeOK, Buckets
    <2> QED BY <2>1, <2>2
<1>6. ASSUME NEW p \in Pids
      PROVE  /\ \A u : u \in snap'.all[p] <=> u \in snap.all[p] \/ (p = P /\ u = t)
             /\ snap'.iso[p] = snap.iso[p] /\ snap'.shr[p] = snap.shr[p]
    <2>1. CASE P = NoPid
        BY <1>1, <2>1, <1>6, PidsAssumption DEF LookUpPid
    <2>2. CASE P # NoPid
        <3>1. P \in Pids /\ snap' = [snap EXCEPT !.all[P] = @ \cup {t}]
            BY <1>1, <2>2 DEF LookUpPid
        <3> QED BY <3>1, <1>6 DEF TypeOK, Buckets
    <2> QED BY <2>1, <2>2
<1>7. /\ P = NoPid => counted' = counted
      /\ P # NoPid => counted' = counted \cup {t}
    BY <1>1 DEF LookUpPid
<1>8. \/ pc' = "cpu" /\ cur' = t /\ split /\ P \in Pids
      \/ pc' = GoOn(todo') /\ cur' = NoTid /\ (split => P = NoPid)
    BY <1>1, <1>3 DEF LookUpPid
<1>9. TypeOK'
    <2>1. pc' \in {"pid", "cpu", "yield"} /\ cur' \in Tids \cup {NoTid}
        BY <1>8 DEF GoOn
    <2>2. counted' \subseteq Tids /\ todo' \subseteq Tids
        BY <1>2, <1>7 DEF TypeOK
    <2> QED BY <1>2, <1>4, <1>5, <2>1, <2>2 DEF TypeOK, os, choice
<1>10. IdInv'
    <2> SUFFICES ASSUME NEW u \in Tids, u \notin reused
                 PROVE  /\ tid2pid'[u] # NoPid /\ owner[u] # NoPid => owner[u] = tid2pid'[u]
                        /\ tid2pid'[u] # NoPid /\ attached[u] # NoPid => tid2pid'[u] = attached[u]
        BY <1>2 DEF IdInv
    <2>1. CASE tid2pid'[u] = tid2pid[u]
        BY <2>1 DEF IdInv
    <2>2. CASE tid2pid'[u] = owner[u]
        BY <2>2 DEF IdInv
    <2>3. u = t => tid2pid'[u] \in {tid2pid[u], owner[u]}
        BY <1>1, <1>4
    <2> QED BY <1>4, <2>1, <2>2, <2>3
<1>11. CacheInv'
    <2> SUFFICES ASSUME NEW u \in counted' PROVE tid2pid'[u] # NoPid
        BY DEF CacheInv
    <2>1. CASE u = t
        BY <1>1, <1>4, <1>7, <2>1 DEF CacheInv
    <2>2. CASE u # t
        BY <1>4, <1>7, <2>2 DEF CacheInv, TypeOK
    <2> QED BY <2>1, <2>2
<1>12. ChosenInv'
    BY <1>2 DEF ChosenInv
<1>13. FrameInv'
    <2>1. pc' \in {"pid", "cpu", "yield"} /\ (pc' = "yield" => todo' = {})
        BY <1>8 DEF GoOn
    <2>2. ASSUME NEW p \in Pids PROVE snap'.all[p] \subseteq rows \ (todo \ {t})
        BY <1>3, <1>6, <2>2 DEF FrameInv
    <2> QED BY <1>2, <2>1, <2>2 DEF FrameInv
<1>14. CurInv'
    <2>1. CASE cur' = NoTid
        BY <1>8, <2>1, TidsAssumption DEF CurInv, GoOn
    <2>2. CASE pc' = "cpu" /\ cur' = t /\ split /\ P \in Pids
        <3>1. t \notin lost
            BY <1>3 DEF ClassInv
        <3>2. \A p \in Pids : /\ t \in snap'.all[p] <=> p = P
                               /\ t \notin snap'.iso[p] \cup snap'.shr[p]
            BY <1>3, <1>6
        <3> QED BY <1>2, <1>3, <1>4, <2>2, <3>1, <3>2, TidsAssumption DEF CurInv
    <2> QED BY <1>8, <2>1, <2>2
<1>15. ClassInv'
    <2>1. /\ lost \subseteq moved
          /\ \A u \in lost : \E p \in Pids : u \in snap'.all[p]
        BY <1>6 DEF ClassInv
    <2>2. ASSUME NEW p \in Pids
          PROVE  /\ snap'.iso[p] \cap snap'.shr[p] = {}
                 /\ snap'.iso[p] \cup snap'.shr[p] \subseteq snap'.all[p] \ lost
                 /\ ~split => snap'.iso[p] \cup snap'.shr[p] = {}
        BY <1>6, <2>2 DEF ClassInv
    <2>3. ASSUME NEW p \in Pids, split, NEW u \in snap'.all[p] \ (moved \cup {cur'})
          PROVE  u \in snap'.iso[p] \cup snap'.shr[p] <=> owner[u] # NoPid
        <3>1. u \in snap.all[p]
            BY <1>6, <1>8, <2>3, PidsAssumption
        <3>2. u # cur
            BY <1>3, <3>1, TidsAssumption DEF TypeOK, Buckets
        <3> QED BY <1>6, <2>3, <3>1, <3>2 DEF ClassInv
    <2> QED BY <1>2, <2>1, <2>2, <2>3 DEF ClassInv
<1>16. ChargedToOwner'
    <2>1. ASSUME NEW p \in Pids, p = P PROVE attached[t] = p \/ t \in reused
        <3>1. p # NoPid
            BY PidsAssumption
        <3> QED BY <1>1, <1>3, <2>1, <3>1 DEF IdInv
    <2>2. ASSUME NEW p \in Pids, NEW u \in snap'.all[p]
          PROVE  attached[u] = p \/ u \in reused
        <3>1. u \in snap.all[p] \/ (p = P /\ u = t)
            BY <1>6, <2>2
        <3> QED BY <2>1, <3>1 DEF ChargedToOwner
    <2> QED BY <1>2, <2>2 DEF ChargedToOwner
<1>17. CountedToTheEnd'
    <2> SUFFICES ASSUME NEW u \in rows \ (todo \ {t}), \A p \in Pids : u \notin snap'.all[p]
                 PROVE  u \notin counted' /\ (owner[u] = NoPid \/ u \in reused)
        BY <1>2 DEF CountedToTheEnd
    <2>1. CASE u = t
        <3>1. P = NoPid
            BY <1>6, <2>1
        <3>2. tid2pid[t] = NoPid /\ owner[t] = NoPid
            BY <1>1, <3>1
        <3> QED BY <1>7, <2>1, <3>1, <3>2 DEF CacheInv
    <2>2. CASE u # t
        <3>1. u \in rows \ todo /\ \A p \in Pids : u \notin snap.all[p]
            BY <1>6, <2>2
        <3> QED BY <1>7, <2>2, <3>1 DEF CountedToTheEnd
    <2> QED BY <2>1, <2>2
<1> QED BY <1>9, <1>10, <1>11, <1>12, <1>13, <1>14, <1>15, <1>16, <1>17

\* Its class, if it is still there.
LEMMA LookUpCpuIInv == IInv /\ LookUpCpu => IInv'
<1> SUFFICES ASSUME IInv, LookUpCpu PROVE IInv'
    OBVIOUS
<1> USE DEF IInv
<1> DEFINE q == tid2pid[cur]
<1>1. /\ pc = "cpu" /\ pc' = GoOn(todo) /\ cur' = NoTid
      /\ UNCHANGED <<os, choice, prev, info, attached, tid2pid, rows, todo, counted, moves>>
    BY DEF LookUpCpu, moves
<1>2. /\ cur \in Tids /\ q \in Pids /\ split
      /\ \A p \in Pids : /\ cur \in snap.all[p] <=> p = q
                          /\ cur \notin snap.iso[p] \cup snap.shr[p]
      /\ cur \in lost => owner[cur] = NoPid
    BY <1>1 DEF CurInv, TypeOK
<1> HIDE DEF q
<1>3. /\ snap' \in [all : Buckets, iso : Buckets, shr : Buckets]
      /\ \A p \in Pids : snap'.all[p] = snap.all[p]
      /\ \A p \in Pids \ {q} : snap'.iso[p] = snap.iso[p] /\ snap'.shr[p] = snap.shr[p]
      /\ \/ /\ owner[cur] = NoPid
            /\ snap'.iso[q] = snap.iso[q] /\ snap'.shr[q] = snap.shr[q]
         \/ /\ owner[cur] # NoPid
            /\ snap'.iso[q] = snap.iso[q] \cup {cur} /\ snap'.shr[q] = snap.shr[q]
         \/ /\ owner[cur] # NoPid
            /\ snap'.iso[q] = snap.iso[q] /\ snap'.shr[q] = snap.shr[q] \cup {cur}
    <2>1. CASE owner[cur] = NoPid /\ snap' = snap
        BY <2>1 DEF TypeOK
    <2>2. CASE owner[cur] # NoPid /\ snap' = [snap EXCEPT !.iso[q] = @ \cup {cur}]
        BY <1>2, <2>2 DEF TypeOK, Buckets
    <2>3. CASE owner[cur] # NoPid /\ snap' = [snap EXCEPT !.shr[q] = @ \cup {cur}]
        BY <1>2, <2>3 DEF TypeOK, Buckets
    <2> QED BY <2>1, <2>2, <2>3 DEF LookUpCpu, q
<1>4. TypeOK'
    BY <1>1, <1>3 DEF TypeOK, GoOn, os, choice, moves
<1>5. IdInv' /\ CacheInv'
    BY <1>1 DEF IdInv, CacheInv, os
<1>6. ChosenInv'
    BY <1>1 DEF ChosenInv, choice, GoOn
<1>7. FrameInv'
    BY <1>1, <1>3 DEF FrameInv, GoOn
<1>8. CurInv'
    BY <1>1, TidsAssumption DEF CurInv, GoOn
<1>9. ClassInv'
    <2>1. /\ lost' \subseteq moved'
          /\ \A t \in lost' : \E p \in Pids : t \in snap'.all[p]
        BY <1>1, <1>3 DEF ClassInv, moves
    <2> SUFFICES ASSUME NEW p \in Pids
                 PROVE  /\ snap'.iso[p] \cap snap'.shr[p] = {}
                        /\ snap'.iso[p] \cup snap'.shr[p] \subseteq snap.all[p] \ lost
                        /\ \A t \in snap.all[p] \ moved :
                              t \in snap'.iso[p] \cup snap'.shr[p] <=> owner[t] # NoPid
        BY <1>1, <1>2, <1>3, <2>1 DEF ClassInv, os, choice, moves
    <2>2. CASE p = q
        BY <1>2, <1>3, <2>2 DEF ClassInv
    <2>3. CASE p # q
        BY <1>2, <1>3, <2>3 DEF ClassInv
    <2> QED BY <2>2, <2>3
<1>10. ChargedToOwner' /\ CountedToTheEnd'
    BY <1>1, <1>3 DEF ChargedToOwner, CountedToTheEnd, os
<1> QED BY <1>4, <1>5, <1>6, <1>7, <1>8, <1>9, <1>10

\* Taking the snapshot, or the end of the window, leaves no frame.
LEMMA AfterFrameIInv == IInv /\ (NextFrame \/ EndWindow) => IInv'
<1> SUFFICES ASSUME IInv, NextFrame \/ EndWindow PROVE IInv'
    OBVIOUS
<1> USE DEF IInv
<1>1. /\ rows' = {} /\ snap' = NoSnap /\ moved' = {} /\ lost' = {}
      /\ pc \in {"window", "yield"} /\ pc' \in {"window", "discover"}
      /\ UNCHANGED <<os, choice, prev, info, attached, tid2pid, todo, cur, counted>>
    BY DEF NextFrame, EndWindow, NoFrame
<1>2. /\ todo = {} /\ cur = NoTid
      /\ snap' \in [all : Buckets, iso : Buckets, shr : Buckets]
      /\ \A p \in Pids : snap'.all[p] = {} /\ snap'.iso[p] = {} /\ snap'.shr[p] = {}
    BY <1>1 DEF FrameInv, CurInv, NoSnap, NoBuckets, Buckets
<1>3. TypeOK'
    BY <1>1, <1>2 DEF TypeOK, os, choice
<1>4. IdInv' /\ CacheInv'
    BY <1>1 DEF IdInv, CacheInv, os
<1>5. ChosenInv' /\ FrameInv'
    BY <1>1, <1>2 DEF ChosenInv, FrameInv, choice
<1>6. CurInv' /\ ClassInv'
    BY <1>1, <1>2 DEF CurInv, ClassInv
<1>7. ChargedToOwner' /\ CountedToTheEnd'
    BY <1>1, <1>2 DEF ChargedToOwner, CountedToTheEnd
<1> QED BY <1>3, <1>4, <1>5, <1>6, <1>7

LEMMA NextIInv == IInv /\ [Next]_vars => IInv'
<1> SUFFICES ASSUME IInv, [Next]_vars PROVE IInv'
    OBVIOUS
<1>1. CASE OSStep
    BY <1>1, RunsIInv, EndsIInv, StartsIInv DEF OSStep
<1>2. CASE MonStep
    BY <1>2, DiscoverIInv, AttachIInv, FrameIInv, LookUpPidIInv, LookUpCpuIInv,
       AfterFrameIInv DEF MonStep
<1>3. CASE UNCHANGED vars
    <2> USE <1>3 DEF vars, os, choice, frame, moves, IInv
    <2>1. TypeOK'
        BY DEF TypeOK, Buckets
    <2>2. IdInv' /\ CacheInv' /\ ChosenInv' /\ FrameInv'
        BY DEF IdInv, CacheInv, ChosenInv, FrameInv
    <2>3. CurInv' /\ ClassInv'
        BY DEF CurInv, ClassInv
    <2>4. ChargedToOwner' /\ CountedToTheEnd'
        BY DEF ChargedToOwner, CountedToTheEnd
    <2> QED BY <2>1, <2>2, <2>3, <2>4
<1> QED BY <1>1, <1>2, <1>3 DEF Next

\* The strengthening is an invariant of the monitor.
THEOREM Inductive == Spec => []IInv
BY InitIInv, NextIInv, PTL DEF Spec

----------------------------------------------------------------------------

\* The monitor's fields keep their types; no CPU% is negative, although
\* process ids are used again between two samples of ProcScanner.
THEOREM TypeCorrect == Spec => []TypeOK
<1>1. IInv => TypeOK
    BY DEF IInv
<1> QED BY <1>1, Inductive, PTL

\* _aggregate charges a process with its own threads, but for ids used again.
THEOREM OwnersCharged == Spec => []ChargedToOwner
<1>1. IInv => ChargedToOwner
    BY DEF IInv
<1> QED BY <1>1, Inductive, PTL

\* The cache of _pid_of keeps a thread's last counters for its process.
THEOREM LastCountersKept == Spec => []CountedToTheEnd
<1>1. IInv => CountedToTheEnd
    BY DEF IInv
<1> QED BY <1>1, Inductive, PTL

\* No snapshot has a process that was not selected, and none but --pids has the
\* tool itself; up to ids used again.
THEOREM OnlySelectedShown == Spec => []ShowsTheSelected
<1>1. IInv => ShowsTheSelected
    <2> SUFFICES ASSUME IInv, NEW p \in Pids, NEW t \in snap.all[p], t \notin reused
                 PROVE  p \in DOMAIN info /\ (p \in pinned \/ (pinned = {} /\ p \notin Own))
        BY DEF ShowsTheSelected
    <2>1. t \in Tids
        BY DEF IInv, TypeOK, Buckets
    <2>2. attached[t] = p /\ p # NoPid
        BY PidsAssumption DEF IInv, ChargedToOwner
    <2>3. pc \in {"pid", "cpu", "yield"}
        BY DEF IInv, FrameInv, NoSnap, NoBuckets
    <2>4. p \in DOMAIN info
        BY <2>1, <2>2, <2>3 DEF IInv, ChosenInv
    <2> QED BY <2>4 DEF IInv, ChosenInv
<1> QED BY <1>1, Inductive, PTL

\* _aggregate splits by core class, and only when isolated CPUs are configured,
\* the threads it could read, wherever between its look-ups the others ended.
THEOREM SplitByCoreClass == Spec => []IsoSplit
<1>1. IInv => IsoSplit
    <2> SUFFICES ASSUME IInv PROVE IsoSplit
        OBVIOUS
    <2>1. lost \subseteq UNION {snap.all[p] : p \in Pids}
        BY DEF IInv, ClassInv
    <2>2. ASSUME NEW p \in Pids, pc = "yield", NEW t \in snap.all[p] \ moved
          PROVE  t \in snap.all[p] \ (moved \cup {cur})
        BY <2>2, TidsAssumption DEF IInv, CurInv, TypeOK, Buckets
    <2> QED BY <2>1, <2>2 DEF IInv, ClassInv, IsoSplit
<1> QED BY <1>1, Inductive, PTL

\* Only _discover changes which processes are monitored.
THEOREM SetFixed == Spec => FixedWithinWindow
<1>1. [Next]_vars => [pc # "discover" => DOMAIN info' = DOMAIN info]_vars
    BY DEF Next, OSStep, MonStep, Discover, Attach, Frame, LookUpPid, LookUpCpu,
       NextFrame, EndWindow, NoFrame, Refreshed, vars
<1> QED BY <1>1, PTL DEF Spec, FixedWithinWindow
============================================================================
