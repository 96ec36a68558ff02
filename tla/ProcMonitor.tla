---------------------------- MODULE ProcMonitor ----------------------------
(***************************************************************************)
(* ProcessMonitor over a changing set of processes and threads: the       *)
(* choice of the monitored set by ProcScanner, perf attached to the       *)
(* threads of that set, and the aggregation of a frame's thread counters  *)
(* into processes, with the tid -> pid cache that lives as long as the    *)
(* monitor.  Between any two of its steps, also between the look-ups of a *)
(* thread's process and of its CPU, processes run, threads end, and their *)
(* ids are used again.                                                    *)
(*                                                                        *)
(* A counter is abstracted to the thread it belongs to, so a bucket is a  *)
(* set of threads.                                                        *)
(***************************************************************************)
EXTENDS Naturals, FiniteSets

CONSTANTS
    Pids,       \* process ids, numbers: /proc lists them in ascending order
    Tids,       \* thread ids
    NoPid,      \* no such thread, or not known
    NoTid,      \* no thread
    NoTicks,    \* no such process, or not known
    Own,        \* the monitor and its parent
    TopN,       \* --top
    MaxTicks,   \* bound: CPU ticks of a process
    MaxStarts,  \* bound: threads started
    PinChoices  \* bound: the values of --pids considered, {} when it is absent

ASSUME PidsAssumption == Pids \subseteq Nat /\ Own \subseteq Pids /\ NoPid \notin Pids
ASSUME TidsAssumption == NoTid \notin Tids
ASSUME PinAssumption == PinChoices \subseteq SUBSET Pids
ASSUME TicksAssumption == NoTicks \notin Nat
ASSUME BoundsAssumption == TopN \in Nat /\ MaxTicks \in Nat /\ MaxStarts \in Nat

VARIABLES
    owner,      \* the process of each thread that exists
    used,       \* CPU ticks of each process
    starts,     \* threads started, at most MaxStarts
    reused,     \* history: thread ids that have been used again
    pinned,     \* --pids; empty: discover by CPU
    split,      \* isolated CPUs are configured
    pc,         \* where snapshots() is; "pid" and "cpu" are in _aggregate
    prev,       \* ProcScanner._prev_ticks
    info,       \* ProcessMonitor._info: CPU of each monitored process
    attached,   \* the process of each thread perf counts, when it attached
    tid2pid,    \* ProcessMonitor._tid2pid
    rows,       \* threads with counters in the frame
    todo,       \* those of them _aggregate has yet to come to
    cur,        \* the thread whose process is known and whose CPU is not yet
    snap,       \* the sums so far; at "yield", those of the snapshot
    counted,    \* history: threads counted in some snapshot
    moved,      \* history: threads ended or started since the frame came in
    lost        \* history: threads that ended between their two look-ups

os == <<owner, used, starts, reused>>
choice == <<pinned, split>>
frame == <<rows, todo, cur, snap, counted>>
moves == <<moved, lost>>
vars == <<os, choice, pc, prev, info, attached, tid2pid, frame, moves>>

Alive == {owner[t] : t \in Tids} \ {NoPid}

NoBuckets == [p \in Pids |-> {}]
NoSnap == [all |-> NoBuckets, iso |-> NoBuckets, shr |-> NoBuckets]

\* What /proc says: the ticks of every process there is.
Ticks == [p \in Pids |-> IF p \in Alive THEN used[p] ELSE NoTicks]

Init ==
    /\ owner \in [Tids -> Pids \cup {NoPid}]
    /\ used = [p \in Pids |-> 0]
    /\ starts = 0 /\ reused = {}
    /\ pinned \in PinChoices /\ split \in BOOLEAN
    /\ pc = "discover"
    /\ prev = Ticks
    /\ info = [p \in {} |-> 0]
    /\ attached = [t \in Tids |-> NoPid]
    /\ tid2pid = [t \in Tids |-> NoPid]
    /\ rows = {} /\ todo = {} /\ cur = NoTid /\ snap = NoSnap
    /\ counted = {} /\ moved = {} /\ lost = {}

----------------------------------------------------------------------------
(* Processes and threads (not part of the repository). *)

Runs(p) ==
    /\ p \in Alive /\ used[p] < MaxTicks
    /\ used' = [used EXCEPT ![p] = @ + 1]
    /\ UNCHANGED <<owner, starts, reused, moves>>

\* The thread comes or goes; noted while there is a frame.
Moves(t) == moved' = IF rows = {} THEN moved ELSE moved \cup {t}

ThreadEnds(t) ==
    /\ owner[t] # NoPid
    /\ owner' = [owner EXCEPT ![t] = NoPid]
    /\ Moves(t)
    /\ lost' = IF t = cur THEN lost \cup {t} ELSE lost
    /\ UNCHANGED <<used, starts, reused>>

\* A thread of a process there is, or the first of a new one.
ThreadStarts(t, p) ==
    /\ starts < MaxStarts /\ starts' = starts + 1
    /\ owner[t] = NoPid
    /\ owner' = [owner EXCEPT ![t] = p]
    /\ used' = IF p \in Alive THEN used ELSE [used EXCEPT ![p] = 0]
    /\ reused' = IF tid2pid[t] # NoPid \/ attached[t] # NoPid
                 THEN reused \cup {t} ELSE reused
    /\ Moves(t)
    /\ lost' = IF t = cur THEN lost \ {t} ELSE lost

OSStep ==
    /\ \/ \E p \in Pids : Runs(p)
       \/ \E t \in Tids : ThreadEnds(t)
       \/ \E t \in Tids, p \in Pids : ThreadStarts(t, p)
    /\ UNCHANGED <<choice, pc, prev, info, attached, tid2pid, frame>>

----------------------------------------------------------------------------
(* ProcScanner. *)

\* Mutant of Cpu: no max(0, ...).
CpuNegative(p) == IF prev[p] = NoTicks THEN 0 ELSE used[p] - prev[p]

\* CPU of p since the last sample; none when it was not there then, and never
\* negative when the id has been used again.
Cpu(p) ==
    IF prev[p] = NoTicks \/ used[p] < prev[p] THEN 0 ELSE used[p] - prev[p]

\* p comes before q: by CPU, then in the order of /proc (the sort is stable).
Before(p, q) == Cpu(p) > Cpu(q) \/ (Cpu(p) = Cpu(q) /\ p < q)

\* Mutant of Top: nobody is excluded.
TopWithOwn ==
    {p \in Alive : Cardinality({q \in Alive : Before(q, p)}) < TopN}

\* top_by_cpu(top_n, exclude=_own)
Top ==
    LET Candidates == Alive \ Own
    IN  {p \in Candidates : Cardinality({q \in Candidates : Before(q, p)}) < TopN}

----------------------------------------------------------------------------
(* ProcessMonitor. *)

Selected == IF pinned # {} THEN pinned \cap Alive ELSE Top

\* _discover: samples, and starts _info afresh.
Discover ==
    /\ pc = "discover"
    /\ info' = [p \in Selected |-> Cpu(p)]
    /\ prev' = Ticks
    /\ pc' = IF Selected = {} THEN "discover" ELSE "attach"
    /\ UNCHANGED <<os, choice, attached, tid2pid, frame, moves>>

\* perf stat -p: the threads the processes have by now.
Attach ==
    /\ pc = "attach" /\ pc' = "window"
    /\ attached' = [t \in Tids |-> IF owner[t] \in DOMAIN info THEN owner[t] ELSE NoPid]
    /\ UNCHANGED <<os, choice, prev, info, tid2pid, frame, moves>>

\* Mutant of PidOf: the cache is not asked.
PidOfUncached(t) == owner[t]

\* Mutant of PidOf: a thread nobody knows is charged to some monitored process.
PidOfSomebody(t) ==
    IF tid2pid[t] # NoPid THEN tid2pid[t]
    ELSE IF owner[t] # NoPid THEN owner[t]
    ELSE CHOOSE p \in DOMAIN info : TRUE

\* _pid_of: the cache, then /proc/<tid>/status.
PidOf(t) == IF tid2pid[t] # NoPid THEN tid2pid[t] ELSE owner[t]

\* _refresh_info: only the processes already monitored, if they are there.
Refreshed == [p \in DOMAIN info |-> IF p \in Alive THEN Cpu(p) ELSE info[p]]

\* A frame has come in, with counters of some of the threads perf counts, also
\* of those that have ended in the interval; _refresh_info.
Frame ==
    /\ pc = "window" /\ pc' = "pid"
    /\ info' = Refreshed /\ prev' = Ticks
    /\ rows' \in (SUBSET {t \in Tids : attached[t] # NoPid}) \ {{}}
    /\ todo' = rows'
    /\ UNCHANGED <<os, choice, attached, tid2pid, cur, snap, counted, moves>>

\* _aggregate goes on with the threads T, or has been through all.
GoOn(T) == IF T = {} THEN "yield" ELSE "pid"

\* _aggregate: the process of the next thread, in whatever order perf has
\* printed them; a thread nobody knows is passed over.  Its CPU is only asked
\* for when isolated CPUs are configured.
LookUpPid(t) ==
    /\ pc = "pid" /\ t \in todo /\ todo' = todo \ {t}
    /\ tid2pid' = [tid2pid EXCEPT ![t] = PidOf(t)]
    /\ IF PidOf(t) = NoPid
       THEN /\ pc' = GoOn(todo')
            /\ UNCHANGED <<cur, snap, counted>>
       ELSE /\ snap' = [snap EXCEPT !.all[PidOf(t)] = @ \cup {t}]
            /\ counted' = counted \cup {t}
            /\ IF split
               THEN pc' = "cpu" /\ cur' = t
               ELSE pc' = GoOn(todo') /\ cur' = cur
    /\ UNCHANGED <<os, choice, prev, info, attached, rows, moves>>

\* Mutant of LookUpCpu: a thread that cannot be read is taken for shared.
LookUpCpuBlind ==
    /\ pc = "cpu" /\ pc' = GoOn(todo)
    /\ cur' = NoTid
    /\ \/ /\ owner[cur] # NoPid
          /\ snap' = [snap EXCEPT !.iso[tid2pid[cur]] = @ \cup {cur}]
       \/ snap' = [snap EXCEPT !.shr[tid2pid[cur]] = @ \cup {cur}]
    /\ UNCHANGED <<os, choice, prev, info, attached, tid2pid, rows, todo, counted, moves>>

\* _aggregate: the CPU it last ran on, isolated or not; by now the thread may
\* be gone, and then goes into neither bucket.
LookUpCpu ==
    /\ pc = "cpu" /\ pc' = GoOn(todo)
    /\ cur' = NoTid
    /\ \/ owner[cur] = NoPid /\ snap' = snap
       \/ /\ owner[cur] # NoPid
          /\ \/ snap' = [snap EXCEPT !.iso[tid2pid[cur]] = @ \cup {cur}]
             \/ snap' = [snap EXCEPT !.shr[tid2pid[cur]] = @ \cup {cur}]
    /\ UNCHANGED <<os, choice, prev, info, attached, tid2pid, rows, todo, counted, moves>>

\* Nothing is left of the frame.
NoFrame ==
    /\ rows' = {} /\ snap' = NoSnap /\ moved' = {} /\ lost' = {}
    /\ UNCHANGED <<os, choice, prev, info, attached, tid2pid, todo, cur, counted>>

\* The consumer has taken the snapshot.
NextFrame == pc = "yield" /\ pc' = "window" /\ NoFrame

\* The window is over, after a frame or at the end of perf.
EndWindow == pc \in {"window", "yield"} /\ pc' = "discover" /\ NoFrame

MonStep ==
    \/ Discover \/ Attach \/ Frame
    \/ \E t \in Tids : LookUpPid(t)
    \/ LookUpCpu \/ NextFrame \/ EndWindow

Next == OSStep \/ MonStep

Spec == Init /\ [][Next]_vars

----------------------------------------------------------------------------
(* Properties. *)

Buckets == [Pids -> SUBSET Tids]

\* Types, of every variable; CPU in ticks is never negative.
TypeOK ==
    /\ owner \in [Tids -> Pids \cup {NoPid}]
    /\ used \in [Pids -> 0 .. MaxTicks]
    /\ starts \in 0 .. MaxStarts /\ reused \subseteq Tids
    /\ pinned \in PinChoices /\ split \in BOOLEAN
    /\ pc \in {"discover", "attach", "window", "pid", "cpu", "yield"}
    /\ prev \in [Pids -> (0 .. MaxTicks) \cup {NoTicks}]
    /\ DOMAIN info \subseteq Pids
    /\ \A p \in DOMAIN info : info[p] \in 0 .. MaxTicks
    /\ attached \in [Tids -> Pids \cup {NoPid}]
    /\ tid2pid \in [Tids -> Pids \cup {NoPid}]
    /\ rows \subseteq Tids /\ todo \subseteq Tids /\ cur \in Tids \cup {NoTid}
    /\ counted \subseteq Tids /\ moved \subseteq Tids /\ lost \subseteq Tids
    /\ snap \in [all : Buckets, iso : Buckets, shr : Buckets]

\* A process is charged with the counters of its own threads only, and a thread
\* id that was never used again is never charged to a stranger by the cache.
ChargedToOwner ==
    \A p \in Pids : \A t \in snap.all[p] : attached[t] = p \/ t \in reused

\* A thread that has been counted before is counted in its last frames too,
\* when it has ended and /proc no longer knows it; only a thread that ended
\* before its first frame is lost.
CountedToTheEnd ==
    \A t \in rows \ todo :
        \/ \E p \in Pids : t \in snap.all[p]
        \/ t \notin counted /\ (owner[t] = NoPid \/ t \in reused)

\* procmon.py:170-172: the split by core class is "populated only when isolated
\* cores are configured"; a thread is in one class at most, and "threads whose
\* last CPU we can't read fall into neither bucket (they still count toward
\* `levels`)".  A thread that ended between its two look-ups is such a one; and
\* when the snapshot is yielded, every counted thread that has neither ended nor
\* started since the frame came in is in a class exactly if it exists.
IsoSplit ==
    /\ lost \subseteq UNION {snap.all[p] : p \in Pids}
    /\ \A p \in Pids :
          /\ snap.iso[p] \cap snap.shr[p] = {}
          /\ snap.iso[p] \cup snap.shr[p] \subseteq snap.all[p] \ lost
          /\ ~split => snap.iso[p] \cup snap.shr[p] = {}
          /\ split /\ pc = "yield" =>
                \A t \in snap.all[p] \ moved :
                    t \in snap.iso[p] \cup snap.shr[p] <=> owner[t] # NoPid

\* Whatever is shown was selected, and the tool does not show itself unless it
\* was asked to with --pids.
ShowsTheSelected ==
    \A p \in Pids : snap.all[p] # {} =>
        \/ p \in DOMAIN info /\ (p \in pinned \/ (pinned = {} /\ p \notin Own))
        \/ snap.all[p] \cap reused # {}

\* procmon.py:365-366: the "set stays fixed within a refresh window; only the
\* metadata moves".
FixedWithinWindow ==
    [][pc # "discover" => DOMAIN info' = DOMAIN info]_vars

\* procmon.py:230: "Sum thread counters into their owning process."  At least
\* where that is not in doubt: perf attached to the thread in the process that
\* it still belongs to.
SumsIntoOwner ==
    \A p \in Pids : \A t \in snap.all[p] \ moved : owner[t] = attached[t] => owner[t] = p
============================================================================
