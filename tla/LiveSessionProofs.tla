-------------------------- MODULE LiveSessionProofs --------------------------
(***************************************************************************)
(* Safety of LiveSession for any set of perf slots, any pipe capacity and *)
(* any number of faults.  The properties are not inductive by themselves: *)
(* the invariant IInv adds which process the worker's collector holds at  *)
(* each of its program points, and what monStop says about stop.          *)
(***************************************************************************)
EXTENDS LiveSession, TLAPS

\* Where the worker's ThreadCollector has a process.
Holding == {"read", "publish", "published", "resume", "stop", "wait", "after"}

\* A perf that counts is the one the collector holds.
HeldInv == \A p \in Perfs : Counting(p) => p = cur

\* The collector holds a process between Popen and the end of the finally block,
\* and that block leaves it dead or dying; broken off by Ctrl-C the block leaves
\* it to the exception's traceback.
CurInv ==
    /\ worker \in Holding => cur # NoPerf
    /\ cur # NoPerf => worker \in Holding \/ (mode = "dump" /\ Ended)
    /\ worker = "after" => \A p \in Perfs : ~Counting(p)
    /\ worker = "wait" => \A p \in Perfs : perf[p] # "running"
    /\ mode = "dump" /\ Ended => \A p \in Perfs : perf[p] = "running" => cut

\* mon.stop() comes after stop.set() in the live view and after the end of the
\* loop with --dump; nothing clears either.
FlagInv ==
    /\ monStop => main \in {"join", "exited"} /\ (mode = "live" => stop)
    /\ mode = "live" /\ main \in {"monstop", "join"} => stop
    /\ mode = "dump" => main \in {"dump", "monstop", "exited"}
    /\ main = "dump" => mode = "dump"

\* The snapshots --dump has printed: the last one closes the generator.
ShownInv ==
    /\ shown <= Dump
    /\ ~closing /\ ~Ended => shown < Dump
    /\ closing => worker \in {"stop", "wait", "after", "done", "crashed"}

\* The late work done so far, by where the worker is.
LateInv ==
    /\ late.spawns <= 1 /\ late.frames <= 1
    /\ ~monStop => late.spawns = 0 /\ late.frames = 0
    /\ worker \in {"discover", "spawn"} => late.spawns = 0 /\ late.frames = 0
    /\ worker \in {"read", "publish"} => late.frames = 0

\* Only the body of the with statement runs in cbreak mode, but for Ctrl-C
\* inside the KeyReader's own methods.
TtyInv ==
    tty = "cbreak" =>
        /\ avail
        /\ cut \/ main \in {"entering", "live", "loop", "render", "leave", "restore"}

IInv == TypeOK /\ HeldInv /\ CurInv /\ FlagInv /\ ShownInv /\ LateInv /\ TtyInv

LEMMA InitIInv == Init => IInv
<1> SUFFICES ASSUME Init PROVE IInv
    OBVIOUS
<1> USE DEF Init
<1>0. FlagTypeOK
    BY DEF FlagTypeOK
<1>1. TypeOK
    BY <1>0, PipeCapAssumption, MaxFaultsAssumption, DumpAssumption DEF TypeOK, MainPC, WorkerPC
<1>2. HeldInv /\ CurInv
    BY DEF HeldInv, CurInv, Holding, Counting, Ended
<1>3. FlagInv /\ ShownInv
    BY DumpAssumption DEF FlagInv, ShownInv
<1>4. LateInv
    BY DEF LateInv
<1>5. TtyInv
    BY DEF TtyInv
<1> QED BY <1>1, <1>2, <1>3, <1>4, <1>5 DEF IInv

LEMMA MainStepIInv == IInv /\ MainStep => IInv'
<1> SUFFICES ASSUME IInv, MainStep PROVE IInv'
    OBVIOUS
<1> USE DEF MainStep, Begin, SetCbreak, KeyReaderEntered, LiveEntered, DrainKeys,
            Render, LeaveLoop, LiveExited, RestoreTty, SetStop, MonStop, Joined,
            DumpOver, JoinTimeout, workerVars, IInv
<1>0. FlagTypeOK'
    BY DEF FlagTypeOK, TypeOK
<1>1. TypeOK'
    BY <1>0 DEF TypeOK, MainPC
<1>2. HeldInv' /\ CurInv'
    BY DEF HeldInv, CurInv, Counting, Ended, FlagInv
<1>3. FlagInv' /\ ShownInv'
    BY DEF FlagInv, ShownInv, TypeOK, Ended
<1>4. LateInv'
    BY DEF LateInv
<1>5. TtyInv'
    BY DEF TtyInv
<1> QED BY <1>1, <1>2, <1>3, <1>4, <1>5

LEMMA InterruptIInv ==
    ASSUME NEW group \in BOOLEAN, IInv, Interrupt(group) PROVE IInv'
<1> USE DEF IInv, Interrupt, Signalled, Alive, workerVars
<1>1. /\ main = "loop" \/ main = "render" => main' = "leave"
      /\ main = "live" \/ main = "leave" => main' = "restore"
      /\ main \in {"enter", "entering", "restore"} => main' = "final"
      /\ main \in {"begin", "final", "monstop", "join"} => main' = "exited"
    BY DEF AfterInterrupt
<1>2. main \in MainPC \ {"exited", "dump"}
    BY DEF TypeOK
<1>0. FlagTypeOK'
    BY DEF FlagTypeOK, TypeOK
<1>3. TypeOK'
    BY <1>0, <1>1, <1>2 DEF TypeOK, MainPC
<1>4. HeldInv' /\ CurInv'
    BY DEF HeldInv, CurInv, Counting, TypeOK, Ended
<1>5. FlagInv' /\ ShownInv'
    BY <1>1, <1>2 DEF FlagInv, ShownInv, MainPC, Ended
<1>6. LateInv'
    BY DEF LateInv
<1>7. TtyInv'
    BY <1>1, <1>2 DEF TtyInv, MainPC, TypeOK
<1> QED BY <1>3, <1>4, <1>5, <1>6, <1>7

\* With --dump Ctrl-C goes to the finally block of snapshots(), or ends it.
LEMMA InterruptDumpIInv ==
    ASSUME NEW group \in BOOLEAN, IInv, InterruptDump(group) PROVE IInv'
<1> USE DEF IInv, InterruptDump, Signalled
<1>1. /\ worker \in {"read", "publish", "published", "resume"} => worker' = "stop"
      /\ Ended => worker' = worker
      /\ worker \notin {"read", "publish", "published", "resume"} /\ ~Ended => worker' = "done"
    BY DEF AfterInterruptDump, Ended
<1>2. mode = "dump" /\ closing' = TRUE
    BY DEF FlagInv
<1>0. FlagTypeOK'
    BY DEF FlagTypeOK, TypeOK
<1>3. TypeOK'
    BY <1>0, <1>1 DEF TypeOK, WorkerPC, Ended
<1>4. HeldInv'
    BY DEF HeldInv, Counting, TypeOK
<1>5. CurInv'
    <2>1. worker' \in Holding => worker \in Holding
        BY <1>1 DEF Holding, Ended
    <2>2. worker \in Holding => worker' \in Holding \/ Ended'
        BY <1>1 DEF Holding, Ended
    <2>3. worker' # "after" /\ worker' # "wait"
        BY <1>1 DEF Ended
    <2>4. Ended' => \A p \in Perfs : perf'[p] = "running" => cut'
        <3> SUFFICES ASSUME Ended', NEW p \in Perfs, perf'[p] = "running" PROVE cut'
            OBVIOUS
        <3>1. perf[p] = "running"
            BY DEF TypeOK
        <3>2. CASE Ended
            BY <3>1, <3>2, <1>2 DEF CurInv
        <3>3. CASE worker = "stop"
            BY <3>3
        <3>4. CASE ~Ended /\ worker # "stop"
            <4>1. worker \in {"prime", "check", "discover", "spawn", "wait", "after"}
                BY <3>4, <1>1 DEF TypeOK, WorkerPC, Ended
            <4>2. worker \notin {"wait", "after"}
                BY <3>1 DEF CurInv, Counting
            <4>3. cur = NoPerf
                BY <4>1, <4>2, <3>4 DEF CurInv, Holding
            <4> QED BY <4>3, <3>1, NoPerfAssumption DEF HeldInv, Counting
        <3> QED BY <3>2, <3>3, <3>4
    <2>5. Ended => Ended'
        BY <1>1 DEF Ended
    <2> QED BY <1>2, <2>1, <2>2, <2>3, <2>4, <2>5 DEF CurInv
<1>6. FlagInv' /\ ShownInv'
    BY <1>1, <1>2 DEF FlagInv, ShownInv, TypeOK, WorkerPC, Ended
<1>7. LateInv'
    BY <1>1 DEF LateInv, Ended
<1>8. TtyInv'
    BY DEF TtyInv
<1> QED BY <1>3, <1>4, <1>5, <1>6, <1>7, <1>8

LEMMA TypeQuitIInv == IInv /\ TypeQuit => IInv'
BY DEF TypeQuit, workerVars, IInv, TypeOK, FlagTypeOK, HeldInv, CurInv, FlagInv, ShownInv,
       LateInv, TtyInv, Counting, Ended

\* The worker's steps that start or stop no perf only move it along.
LEMMA WorkerMovesIInv ==
    ASSUME IInv, UNCHANGED <<mode, mainVars, avail>>,
           \/ Prime \/ CheckStop \/ Discovered \/ DiscoveredNone \/ SpawnFails
           \/ ReadInterval \/ ReadEOF \/ Publish \/ CheckQuit \/ EndWindow
           \/ CountFrame \/ NextFrame \/ Waited
    PROVE  IInv'
<1> USE DEF IInv, Prime, CheckStop, Discovered, DiscoveredNone, SpawnFails,
            ReadInterval, ReadEOF, Publish, CheckQuit, CountFrame, EndWindow,
            NextFrame, Waited, Goto, mainVars
<1>0. FlagTypeOK'
    BY DEF FlagTypeOK, TypeOK
<1>6. ShownInv'
    <2>1. shown \in Nat /\ Dump \in Nat /\ closing \in BOOLEAN
        BY DumpAssumption DEF TypeOK, FlagTypeOK
    <2>2. CASE CountFrame
        <3>1. ~closing /\ ~Ended /\ shown < Dump
            BY <2>2 DEF ShownInv, Ended
        <3> QED BY <2>1, <2>2, <3>1 DEF ShownInv, Ended
    <2>3. CASE UNCHANGED shown
        BY <2>1, <2>3 DEF ShownInv, Ended
    <2> QED BY <2>2, <2>3
<1>1. TypeOK'
    <2>1. shown' \in 0 .. Dump
        BY <1>6, DumpAssumption DEF ShownInv, TypeOK
    <2> QED BY <2>1, <1>0, MaxFaultsAssumption, PipeCapAssumption DEF TypeOK, WorkerPC, ShownInv
<1>2. HeldInv'
    BY DEF HeldInv, Counting
<1>3. CurInv'
    BY NoPerfAssumption DEF CurInv, HeldInv, Holding, Counting, Ended
<1>4. FlagInv' /\ TtyInv'
    BY DEF FlagInv, TtyInv, Ended
<1>5. LateInv'
    BY DEF LateInv, FlagInv, TypeOK, Alive
<1> QED BY <1>1, <1>2, <1>3, <1>4, <1>5, <1>6

LEMMA SpawnIInv ==
    ASSUME IInv, UNCHANGED <<mode, mainVars, avail>>, NEW p \in Perfs, Spawn(p)
    PROVE  IInv'
<1> USE DEF IInv, Spawn, Goto, mainVars
<1>0. FlagTypeOK'
    BY DEF FlagTypeOK, TypeOK
<1>1. TypeOK'
    BY <1>0, PipeCapAssumption DEF TypeOK, WorkerPC
<1>2. \A q \in Perfs : ~Counting(q)
    BY NoPerfAssumption DEF HeldInv, CurInv, Holding, Ended
<1>3. HeldInv'
    BY <1>2 DEF HeldInv, Counting, TypeOK
<1>4. CurInv'
    BY NoPerfAssumption DEF CurInv, Holding, Ended
<1>5. FlagInv' /\ TtyInv' /\ ShownInv'
    BY DEF FlagInv, TtyInv, ShownInv, Ended
<1>6. LateInv'
    BY DEF LateInv, TypeOK
<1> QED BY <1>1, <1>3, <1>4, <1>5, <1>6

LEMMA StopStepsIInv ==
    ASSUME IInv, UNCHANGED <<mode, mainVars, avail>>, StopPerf \/ WaitTimeout \/ AfterStop
    PROVE  IInv'
<1> USE DEF IInv, StopPerf, WaitTimeout, AfterStop, Goto, mainVars
<1>0. FlagTypeOK'
    BY DEF FlagTypeOK, TypeOK
<1>1. TypeOK'
    BY <1>0 DEF TypeOK, WorkerPC
<1>2. HeldInv'
    BY DEF HeldInv, CurInv, Counting, TypeOK
<1>3. CurInv'
    BY NoPerfAssumption DEF CurInv, HeldInv, Holding, Counting, TypeOK, Ended
<1>4. FlagInv' /\ TtyInv' /\ ShownInv'
    BY DEF FlagInv, TtyInv, ShownInv, Ended
<1>5. LateInv'
    BY DEF LateInv
<1> QED BY <1>1, <1>2, <1>3, <1>4, <1>5

LEMMA PerfStepIInv ==
    ASSUME IInv, NEW p \in Perfs, PerfStep(p) PROVE IInv'
<1> USE DEF IInv, PerfStep, PerfWrite, PerfEnds, PerfQuits, PerfKilled, Reader,
            mainVars, workerVars
<1>0. FlagTypeOK'
    BY DEF FlagTypeOK, TypeOK
<1>1. TypeOK'
    BY <1>0, PipeCapAssumption, MaxFaultsAssumption DEF TypeOK
<1>2. HeldInv' /\ CurInv'
    BY DEF HeldInv, CurInv, Counting, TypeOK, Ended
<1>3. FlagInv' /\ LateInv' /\ TtyInv' /\ ShownInv'
    BY DEF FlagInv, LateInv, TtyInv, ShownInv, Ended
<1> QED BY <1>1, <1>2, <1>3

LEMMA NextIInv == IInv /\ [Next]_vars => IInv'
<1> SUFFICES ASSUME IInv, [Next]_vars PROVE IInv'
    OBVIOUS
<1>1. CASE MainStep
    BY <1>1, MainStepIInv
<1>2. CASE \E group \in BOOLEAN : Interrupt(group) \/ InterruptDump(group)
    BY <1>2, InterruptIInv, InterruptDumpIInv
<1>3. CASE TypeQuit
    BY <1>3, TypeQuitIInv
<1>4. CASE WorkerStep
    BY <1>4, WorkerMovesIInv, SpawnIInv, StopStepsIInv DEF WorkerStep
<1>5. CASE \E p \in Perfs : PerfStep(p)
    BY <1>5, PerfStepIInv
<1>6. CASE UNCHANGED vars
    BY <1>6 DEF vars, IInv, TypeOK, FlagTypeOK, HeldInv, CurInv, FlagInv, ShownInv, LateInv, TtyInv,
       Counting, Ended
<1> QED
    BY <1>1, <1>2, <1>3, <1>4, <1>5, <1>6 DEF Next, Terminated

\* The strengthening is an invariant of every behaviour of LiveSession.
THEOREM Inductive == Spec => []IInv
BY InitIInv, NextIInv, PTL DEF Spec

----------------------------------------------------------------------------

\* Every variable of the session keeps its type.
THEOREM TypeCorrect == Spec => []TypeOK
<1>1. IInv => TypeOK
    BY DEF IInv
<1> QED BY <1>1, Inductive, PTL

\* However Ctrl-C, timeouts and dying perfs interleave, ProcessMonitor.snapshots
\* never has two perfs counting.
THEOREM OneCollectorAtATime == Spec => []OneCollector
<1>1. IInv => OneCollector
    BY DEF IInv, HeldInv, OneCollector
<1> QED BY <1>1, Inductive, PTL

\* The finally block of ProcessMonitor.snapshots has run for every perf when
\* the worker thread has ended.
THEOREM NoPerfLeftByWorker == Spec => []EndedWorkerLeavesNoPerf
<1>1. IInv => EndedWorkerLeavesNoPerf
    BY NoPerfAssumption DEF IInv, TypeOK, HeldInv, CurInv, Holding, Ended, EndedWorkerLeavesNoPerf
<1> QED BY <1>1, Inductive, PTL

\* At most one perf is started and one snapshot published after mon.stop().
THEOREM LateWorkBounded == Spec => []LittleLateWork
<1>1. IInv => LittleLateWork
    BY DEF IInv, LateInv, LittleLateWork
<1> QED BY <1>1, Inductive, PTL

\* Every way out of run_proc_live passes KeyReader.__exit__, except Ctrl-C
\* inside the KeyReader's own methods.
THEOREM TerminalRestored == Spec => []TtyRestored
<1>1. IInv => TtyRestored
    BY DEF IInv, TypeOK, TtyInv, TtyRestored
<1> QED BY <1>1, Inductive, PTL
============================================================================
