---------------------------- MODULE LiveSession ----------------------------
(***************************************************************************)
(* One run of the per-process view, live or with --dump N.  Live: the     *)
(* main thread of `run_proc_live`, its daemon worker thread driving       *)
(* `ProcessMonitor.snapshots`, the perf child processes the worker starts *)
(* one after the other, and the terminal the KeyReader puts in cbreak     *)
(* mode.  With --dump the main thread drives snapshots() itself: the      *)
(* steps of the worker are its own, and Ctrl-C lands in them.  Every      *)
(* place where two of them can interleave is a step of its own.           *)
(*                                                                        *)
(* Left out: what a snapshot holds, and what is drawn.  Time is abstract: *)
(* every timeout (the 2 s join, the 2 s wait for perf, --refresh) may     *)
(* expire at any moment.                                                  *)
(***************************************************************************)
EXTENDS Naturals

CONSTANTS
    Perfs,      \* the perf processes; a slot is reused once its process is gone
    NoPerf,     \* "the collector holds no process"
    PipeCap,    \* perf intervals that fit in the pipe to the worker
    Dump,       \* snapshots --dump prints (N, or 1 when N is less)
    MaxFaults   \* bound: empty discoveries and perfs that end by themselves

ASSUME NoPerfAssumption == NoPerf \notin Perfs
ASSUME PipeCapAssumption == PipeCap \in Nat \ {0}
ASSUME DumpAssumption == Dump \in Nat \ {0}
ASSUME MaxFaultsAssumption == MaxFaults \in Nat

VARIABLES
    mode,       \* "live" or "dump"
    main,       \* where the main thread is in run_proc_live or run_proc_dump
    worker,     \* where the worker thread is in worker()/snapshots()/frames()
    closing,    \* the worker left its loop: snapshots() is being closed
    stop,       \* the Event `stop` of run_proc_live
    monStop,    \* ProcessMonitor._stop
    perf,       \* state of each perf process
    pipe,       \* intervals written by a perf and not read yet
    cur,        \* the process held by the worker's ThreadCollector
    pend,       \* frames() holds an interval it has not yielded yet
    tty,        \* mode of the terminal
    avail,      \* KeyReader.available: stdin is a terminal
    quit,       \* a 'q' waits in the KeyReader's queue
    cut,        \* Ctrl-C landed inside KeyReader.__enter__ or __exit__, or
                \* inside ThreadCollector.stop before its signal
    shown,      \* snapshots printed by --dump
    faults,     \* history: faults so far, at most MaxFaults
    late        \* history: what the worker did after mon.stop()

mainVars   == <<main, stop, monStop, tty, quit, cut>>
workerVars == <<worker, closing, cur, pend, late, shown>>
vars == <<mode, main, worker, closing, stop, monStop, perf, pipe, cur, pend, tty,
          avail, quit, cut, shown, faults, late>>

MainPC == {"begin", "enter", "entering", "live", "loop", "render", "leave",
           "restore", "final", "dump", "monstop", "join", "exited"}
WorkerPC == {"prime", "check", "discover", "spawn", "read", "publish",
             "published", "resume", "stop", "wait", "after", "done", "crashed"}

Ended == worker \in {"done", "crashed"}

\* The worker is a daemon thread: it runs no further once the program is gone.
Alive == main # "exited"

\* A perf that counts: it has not been told to die for good.
Counting(p) == perf[p] \in {"running", "sigint"}

\* Mutant of Reader: the read end survives the program.
ReaderSurvives(p) == p = cur

\* The read end of p's pipe is open.
Reader(p) == Alive /\ p = cur

Init ==
    /\ mode \in {"live", "dump"}
    /\ main = IF mode = "live" THEN "begin" ELSE "dump"
    /\ worker = "prime" /\ shown = 0
    /\ closing = FALSE /\ stop = FALSE /\ monStop = FALSE
    /\ perf = [p \in Perfs |-> "none"]
    /\ pipe = [p \in Perfs |-> 0]
    /\ cur = NoPerf /\ pend = FALSE
    /\ tty = "cooked" /\ avail \in BOOLEAN
    /\ quit = FALSE /\ cut = FALSE
    /\ faults = 0
    /\ late = [spawns |-> 0, frames |-> 0]

----------------------------------------------------------------------------
(* The main thread. *)

\* Console() is built; the worker is already running.
Begin ==
    /\ main = "begin" /\ main' = "enter"
    /\ UNCHANGED <<stop, monStop, tty, quit, cut>>

\* KeyReader.__enter__: setcbreak, then the reader thread is started.
SetCbreak ==
    /\ main = "enter"
    /\ main' = IF avail THEN "entering" ELSE "live"
    /\ tty' = IF avail THEN "cbreak" ELSE tty
    /\ UNCHANGED <<stop, monStop, quit, cut>>

KeyReaderEntered ==
    /\ main = "entering" /\ main' = "live"
    /\ UNCHANGED <<stop, monStop, tty, quit, cut>>

LiveEntered ==
    /\ main = "live" /\ main' = "loop"
    /\ UNCHANGED <<stop, monStop, tty, quit, cut>>

\* `while not stop.is_set()`, then the queued keys.  A 'q' sets stop and ends
\* the inner loop only: the frame is still rendered.
DrainKeys ==
    /\ main = "loop" /\ ~stop
    /\ main' = "render"
    /\ stop' = quit /\ quit' = FALSE
    /\ UNCHANGED <<monStop, tty, cut>>

Render ==
    /\ main = "render" /\ main' = "loop"
    /\ UNCHANGED <<stop, monStop, tty, quit, cut>>

LeaveLoop ==
    /\ main = "loop" /\ stop
    /\ main' = "leave"
    /\ UNCHANGED <<stop, monStop, tty, quit, cut>>

\* Live.__exit__ comes first, KeyReader.__exit__ second.
LiveExited ==
    /\ main = "leave" /\ main' = "restore"
    /\ UNCHANGED <<stop, monStop, tty, quit, cut>>

RestoreTty ==
    /\ main = "restore" /\ main' = "final"
    /\ tty' = IF avail THEN "cooked" ELSE tty
    /\ UNCHANGED <<stop, monStop, quit, cut>>

\* The finally block: stop.set(), mon.stop(), th.join(timeout=2).
SetStop ==
    /\ main = "final" /\ main' = "monstop"
    /\ stop' = TRUE
    /\ UNCHANGED <<monStop, tty, quit, cut>>

MonStop ==
    /\ main = "monstop"
    /\ main' = IF mode = "live" THEN "join" ELSE "exited"
    /\ monStop' = TRUE
    /\ UNCHANGED <<stop, tty, quit, cut>>

\* run_proc_dump: the loop over snapshots() is over, or an exception has left
\* it; the finally block is mon.stop() alone.
DumpOver ==
    /\ main = "dump" /\ Ended
    /\ main' = "monstop"
    /\ UNCHANGED <<stop, monStop, tty, quit, cut>>

\* Mutant of JoinTimeout: th.join() without a timeout.
JoinForEver == FALSE

Joined ==
    /\ main = "join" /\ Ended
    /\ main' = "exited"
    /\ UNCHANGED <<stop, monStop, tty, quit, cut>>

JoinTimeout ==
    /\ main = "join" /\ ~Ended
    /\ main' = "exited"
    /\ UNCHANGED <<stop, monStop, tty, quit, cut>>

MainStep ==
    /\ \/ Begin \/ SetCbreak \/ KeyReaderEntered \/ LiveEntered
       \/ DrainKeys \/ Render \/ LeaveLoop \/ LiveExited \/ RestoreTty
       \/ SetStop \/ DumpOver \/ MonStop \/ Joined \/ JoinTimeout
    /\ UNCHANGED <<mode, workerVars, perf, pipe, avail, faults>>

----------------------------------------------------------------------------
(* Ctrl-C, and the keys. *)

\* Mutant of AfterInterrupt: straight to the finally block, past the exits of
\* the with statement.
AfterInterruptNoExits ==
    CASE main \in {"enter", "entering", "live", "loop", "render", "leave",
                   "restore"}                           -> "final"
      [] main \in {"begin", "final", "monstop", "join"} -> "exited"

\* Where KeyboardInterrupt takes the main thread: to the handlers of the with
\* statement it is in, to the finally block, or out of the program when it is
\* before the try or already in the finally block.
AfterInterrupt ==
    CASE main \in {"loop", "render"}                     -> "leave"
      [] main \in {"live", "leave"}                      -> "restore"
      [] main \in {"enter", "entering", "restore"}       -> "final"
      [] main \in {"begin", "final", "monstop", "join"}  -> "exited"

\* SIGINT reaches the main thread; typed on the terminal it reaches every
\* process of the foreground group, perf included.
Signalled(group) ==
    IF group THEN [p \in Perfs |-> IF perf[p] = "running" THEN "sigint" ELSE perf[p]]
    ELSE perf

Interrupt(group) ==
    /\ Alive /\ main # "dump"
    /\ main' = AfterInterrupt
    /\ cut' = (cut \/ main \in {"entering", "restore"})
    /\ perf' = Signalled(group)
    /\ UNCHANGED <<mode, stop, monStop, tty, quit, workerVars, pipe, avail, faults>>

\* With --dump it is raised in the midst of snapshots(): its finally block stops
\* the collector, unless there is none or the block is running already.
AfterInterruptDump ==
    CASE worker \in {"read", "publish", "published", "resume"} -> "stop"
      [] Ended                                                -> worker
      [] OTHER                                                -> "done"

InterruptDump(group) ==
    /\ main = "dump"
    /\ worker' = AfterInterruptDump /\ closing' = TRUE
    /\ cut' = (cut \/ worker = "stop")
    /\ perf' = Signalled(group)
    /\ UNCHANGED <<mode, main, stop, monStop, tty, quit, cur, pend, late, shown,
                   pipe, avail, faults>>

\* The user types 'q'; the KeyReader thread queues it.
TypeQuit ==
    /\ avail /\ tty = "cbreak" /\ main \in {"live", "loop", "render"}
    /\ ~quit
    /\ quit' = TRUE
    /\ UNCHANGED <<mode, main, stop, monStop, tty, cut, workerVars, perf, pipe,
                   avail, faults>>

----------------------------------------------------------------------------
(* The worker thread. *)

Goto(from, to) == Alive /\ worker = from /\ worker' = to

\* scanner.sample() and the 0.15 s that follow it.
Prime ==
    /\ Goto("prime", "check")
    /\ UNCHANGED <<closing, cur, pend, late, perf, pipe, faults, shown>>

\* Mutant of CheckStop: `while True`.
CheckStopNever ==
    /\ Goto("check", "discover")
    /\ UNCHANGED <<closing, cur, pend, late, perf, pipe, faults, shown>>

\* `while not self._stop`
CheckStop ==
    /\ Goto("check", IF monStop THEN "done" ELSE "discover")
    /\ UNCHANGED <<closing, cur, pend, late, perf, pipe, faults, shown>>

Discovered ==
    /\ Goto("discover", "spawn")
    /\ UNCHANGED <<closing, cur, pend, late, perf, pipe, faults, shown>>

\* Mutant of DiscoveredNone: return instead of trying again.
DiscoveredNoneReturns ==
    /\ faults < MaxFaults /\ faults' = faults + 1
    /\ Goto("discover", "done")
    /\ UNCHANGED <<closing, cur, pend, late, perf, pipe, shown>>

\* No process to monitor: sleep 0.5 s and try again.
DiscoveredNone ==
    /\ faults < MaxFaults /\ faults' = faults + 1
    /\ Goto("discover", "check")
    /\ UNCHANGED <<closing, cur, pend, late, perf, pipe, shown>>

\* Popen in frames(); its locals start afresh.
Spawn(p) ==
    /\ Goto("spawn", "read")
    /\ perf[p] = "none"
    /\ perf' = [perf EXCEPT ![p] = "running"]
    /\ pipe' = [pipe EXCEPT ![p] = 0]
    /\ cur' = p /\ pend' = FALSE
    /\ late' = [late EXCEPT !.spawns = @ + IF monStop THEN 1 ELSE 0]
    /\ UNCHANGED <<closing, faults, shown>>

\* Popen raises: nothing catches it and the thread is gone.
SpawnFails ==
    /\ Goto("spawn", "crashed")
    /\ UNCHANGED <<closing, cur, pend, late, perf, pipe, faults, shown>>

\* Mutant of ReadInterval: does not wait for a line.
ReadWithoutLine ==
    /\ cur \in Perfs
    /\ Goto("read", IF pend THEN "publish" ELSE "read")
    /\ pipe' = [pipe EXCEPT ![cur] = @ - 1]
    /\ pend' = TRUE
    /\ UNCHANGED <<closing, cur, late, perf, faults, shown>>

\* The lines of one more interval: the first of them ends the interval held.
ReadInterval ==
    /\ cur \in Perfs /\ pipe[cur] > 0
    /\ Goto("read", IF pend THEN "publish" ELSE "read")
    /\ pipe' = [pipe EXCEPT ![cur] = @ - 1]
    /\ pend' = TRUE
    /\ UNCHANGED <<closing, cur, late, perf, faults, shown>>

\* End of file: the interval held, if any, is yielded before frames() returns.
ReadEOF ==
    /\ cur \in Perfs /\ pipe[cur] = 0 /\ perf[cur] = "none"
    /\ Goto("read", IF pend THEN "publish" ELSE "stop")
    /\ pend' = FALSE
    /\ UNCHANGED <<closing, cur, late, perf, pipe, faults, shown>>

\* _refresh_info, _aggregate, and shared["snap"] = snap.
Publish ==
    /\ Goto("publish", "published")
    /\ late' = [late EXCEPT !.frames = @ + IF monStop THEN 1 ELSE 0]
    /\ UNCHANGED <<closing, cur, pend, perf, pipe, faults, shown>>

\* Mutant of CheckQuit: return without closing the generator.
CheckQuitNoClose ==
    /\ mode = "live"
    /\ Goto("published", IF stop THEN "done" ELSE "resume")
    /\ closing' = stop
    /\ UNCHANGED <<cur, pend, late, perf, pipe, faults, shown>>

\* `if stop.is_set(): break` in worker(): leaving the loop closes snapshots(),
\* whose finally block stops the collector.
CheckQuit ==
    /\ mode = "live"
    /\ Goto("published", IF stop THEN "stop" ELSE "resume")
    /\ closing' = stop
    /\ UNCHANGED <<cur, pend, late, perf, pipe, faults, shown>>

\* run_proc_dump prints the snapshot and leaves the loop after the last one.
CountFrame ==
    /\ mode = "dump"
    /\ shown' = shown + 1
    /\ \/ shown + 1 >= Dump /\ closing' = TRUE /\ Goto("published", "stop")
       \/ shown + 1 < Dump /\ closing' = FALSE /\ Goto("published", "resume")
    /\ UNCHANGED <<cur, pend, late, perf, pipe, faults>>

\* Back in snapshots(): leave the window on _stop, or when it is over.
EndWindow ==
    /\ Goto("resume", "stop")
    /\ UNCHANGED <<closing, cur, pend, late, perf, pipe, faults, shown>>

NextFrame ==
    /\ ~monStop
    /\ Goto("resume", "read")
    /\ UNCHANGED <<closing, cur, pend, late, perf, pipe, faults, shown>>

\* ThreadCollector.stop: nothing to do when perf has ended, else SIGINT.
StopPerf ==
    /\ cur \in Perfs
    /\ Goto("stop", IF perf[cur] = "none" THEN "after" ELSE "wait")
    /\ perf' = IF perf[cur] = "none" THEN perf
               ELSE [perf EXCEPT ![cur] = "sigint"]
    /\ UNCHANGED <<closing, cur, pend, late, pipe, faults, shown>>

Waited ==
    /\ cur \in Perfs /\ perf[cur] = "none"
    /\ Goto("wait", "after")
    /\ UNCHANGED <<closing, cur, pend, late, perf, pipe, faults, shown>>

\* Mutant of WaitTimeout: wait() without a timeout.
WaitForEver == FALSE

\* Mutant of WaitTimeout: the timeout is swallowed, no SIGKILL.
WaitTimeoutNoKill ==
    /\ cur \in Perfs /\ perf[cur] # "none"
    /\ Goto("wait", "after")
    /\ UNCHANGED <<closing, cur, pend, late, perf, pipe, faults, shown>>

\* wait(timeout=2) expires: SIGKILL, which stop() does not wait for.
WaitTimeout ==
    /\ cur \in Perfs /\ perf[cur] # "none"
    /\ Goto("wait", "after")
    /\ perf' = [perf EXCEPT ![cur] = "killed"]
    /\ UNCHANGED <<closing, cur, pend, late, pipe, faults, shown>>

\* The finally block is over: snapshots() ends if it is being closed, else it
\* goes round its loop and the collector is dropped.
AfterStop ==
    /\ Goto("after", IF closing THEN "done" ELSE "check")
    /\ cur' = NoPerf /\ pend' = FALSE
    /\ UNCHANGED <<closing, late, perf, pipe, faults, shown>>

WorkerStep ==
    /\ \/ Prime \/ CheckStop \/ Discovered \/ DiscoveredNone
       \/ \E p \in Perfs : Spawn(p)
       \/ SpawnFails \/ ReadInterval \/ ReadEOF \/ Publish \/ CheckQuit
       \/ CountFrame
       \/ EndWindow \/ NextFrame \/ StopPerf \/ Waited \/ WaitTimeout
       \/ AfterStop
    /\ UNCHANGED <<mode, mainVars, avail>>

----------------------------------------------------------------------------
(* The perf processes (not part of the repository). *)

\* An interval is over and perf prints it.  It blocks on a full pipe, and dies
\* of SIGPIPE when nobody holds the other end.
PerfWrite(p) ==
    /\ perf[p] = "running"
    /\ \/ /\ Reader(p) /\ pipe[p] < PipeCap
          /\ pipe' = [pipe EXCEPT ![p] = @ + 1]
          /\ perf' = perf
       \/ /\ ~Reader(p)
          /\ perf' = [perf EXCEPT ![p] = "none"]
          /\ pipe' = pipe
    /\ faults' = faults

\* Every process it was given has exited.
PerfEnds(p) ==
    /\ perf[p] = "running"
    /\ faults < MaxFaults /\ faults' = faults + 1
    /\ perf' = [perf EXCEPT ![p] = "none"]
    /\ pipe' = pipe

\* After SIGINT perf prints the interval it was in, then exits: a full pipe
\* with an open read end keeps it from doing so.
PerfQuits(p) ==
    /\ perf[p] = "sigint"
    /\ Reader(p) => pipe[p] < PipeCap
    /\ perf' = [perf EXCEPT ![p] = "none"]
    /\ pipe' = IF Reader(p) THEN [pipe EXCEPT ![p] = @ + 1] ELSE pipe
    /\ faults' = faults

PerfKilled(p) ==
    /\ perf[p] = "killed"
    /\ perf' = [perf EXCEPT ![p] = "none"]
    /\ UNCHANGED <<pipe, faults>>

PerfStep(p) ==
    /\ PerfWrite(p) \/ PerfEnds(p) \/ PerfQuits(p) \/ PerfKilled(p)
    /\ UNCHANGED <<mode, mainVars, workerVars, avail>>

\* The program is gone and so is every perf: nothing is left to happen.
Terminated ==
    /\ main = "exited" /\ \A p \in Perfs : perf[p] = "none"
    /\ UNCHANGED vars

Next ==
    \/ MainStep
    \/ \E group \in BOOLEAN : Interrupt(group) \/ InterruptDump(group)
    \/ TypeQuit
    \/ WorkerStep
    \/ \E p \in Perfs : PerfStep(p)
    \/ Terminated

Spec == Init /\ [][Next]_vars

\* What every run may count on: the scheduler runs both threads, a perf that
\* got SIGINT and can print exits, a killed process goes.  Nothing makes the
\* user quit, a target exit or Popen fail.
Fairness ==
    /\ WF_vars(MainStep)
    /\ WF_vars(WorkerStep)
    /\ \A p \in Perfs :
          /\ WF_vars(PerfQuits(p) /\ UNCHANGED <<mode, mainVars, workerVars, avail>>)
          /\ WF_vars(PerfKilled(p) /\ UNCHANGED <<mode, mainVars, workerVars, avail>>)

\* A perf that runs prints every interval (-I).  Assumed only where it is named.
PerfPrints ==
    \A p \in Perfs :
        WF_vars(PerfWrite(p) /\ UNCHANGED <<mode, mainVars, workerVars, avail>>)

FairSpec == Spec /\ Fairness

----------------------------------------------------------------------------
(* Properties. *)

FlagTypeOK ==
    /\ closing \in BOOLEAN /\ stop \in BOOLEAN /\ monStop \in BOOLEAN
    /\ pend \in BOOLEAN /\ avail \in BOOLEAN
    /\ quit \in BOOLEAN /\ cut \in BOOLEAN

\* The values the variables of the two threads, the perf processes and the
\* terminal take; in particular a read takes only what perf has written.
TypeOK ==
    /\ FlagTypeOK
    /\ mode \in {"live", "dump"} /\ shown \in 0 .. Dump
    /\ main \in MainPC
    /\ worker \in WorkerPC
    /\ perf \in [Perfs -> {"none", "running", "sigint", "killed"}]
    /\ pipe \in [Perfs -> 0 .. PipeCap]
    /\ cur \in Perfs \cup {NoPerf}
    /\ tty \in {"cooked", "cbreak"}
    /\ faults \in 0 .. MaxFaults
    /\ late \in [spawns : Nat, frames : Nat]

\* At most one perf counts at a time: snapshots() stops a collector, or has
\* sent it SIGKILL, before it starts the next, whatever Ctrl-C, a timeout or
\* a perf that ends by itself do in between.
OneCollector ==
    \A p, q \in Perfs : Counting(p) /\ Counting(q) => p = q

\* A worker that has ended, by itself, by GeneratorExit or by an exception out
\* of Popen, leaves no perf counting: the finally block of snapshots() ran for
\* every collector it started.  With --dump a second Ctrl-C may break off that
\* block, but a perf that was not told to end remains only if it came before the
\* signal was sent.
EndedWorkerLeavesNoPerf ==
    Ended => \A p \in Perfs :
                 IF mode = "live" THEN ~Counting(p) ELSE perf[p] = "running" => cut

\* After mon.stop() the worker starts at most one more perf (it had already
\* passed the test of _stop) and publishes at most one more snapshot.
LittleLateWork ==
    late.spawns <= 1 /\ late.frames <= 1

\* The program leaves the terminal as it found it, except when Ctrl-C lands
\* inside KeyReader.__enter__ or __exit__ themselves.
TtyRestored ==
    main = "exited" /\ ~cut => tty = "cooked"

\* Once asked to stop the program ends, however long perf stays silent; with
\* --dump it ends by itself as long as perf prints.
StopEndsProgram ==
    /\ stop ~> main = "exited"
    /\ PerfPrints => (mode = "dump" ~> main = "exited")

\* A perf that got SIGINT is gone in the end, also when it is blocked on a pipe
\* that nobody reads any more.
SignalledPerfEnds ==
    \A p \in Perfs : (perf[p] = "sigint" ~> perf[p] = "none")

\* No perf outlives the program for ever: one that the join timeout left
\* running dies of SIGPIPE when it prints its next interval.
NoOrphanForEver ==
    PerfPrints => ((main = "exited") ~> (\A p \in Perfs : perf[p] = "none"))

\* Monitoring survives its faults: unless the program is leaving or Popen
\* failed, snapshots keep coming after an empty discovery and after a perf that
\* ended, and every window publishes before --refresh can end it.
KeepsPublishing ==
    PerfPrints =>
        \/ []<>(worker = "published")
        \/ <>(main \in {"leave", "restore", "final", "monstop", "join", "exited"})
        \/ <>(worker = "crashed")
============================================================================
