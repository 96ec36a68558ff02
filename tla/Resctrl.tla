------------------------------ MODULE Resctrl ------------------------------
(***************************************************************************)
(* Instances of `cachetop --system` that share the resctrl file system of *)
(* one host: each may mount it, may create a monitoring group under it,   *)
(* reads occupancy from it, and takes back on exit what it did.  The      *)
(* administrator may mount and unmount it too, and any instance can be    *)
(* interrupted or killed between two system calls.                        *)
(*                                                                        *)
(* resctrl can be mounted once: a second mount(2) fails.  Unmounting it   *)
(* removes all monitoring groups.                                         *)
(***************************************************************************)
EXTENDS Naturals

CONSTANTS
    Insts,      \* the running instances, named by their process ids
    Nobody,     \* resctrl is not mounted
    Admin,      \* mounted by somebody else
    MaxAdmin    \* bound: mounts and unmounts by the administrator

ASSUME NamesAssumption == Nobody \notin Insts /\ Admin \notin Insts /\ Admin # Nobody
ASSUME MaxAdminAssumption == MaxAdmin \in Nat

VARIABLES
    l3mon,      \* the CPU has L3 occupancy monitoring (info/L3_MON)
    mnt,        \* who made the mount that is there now
    groups,     \* instances whose directory mon_groups/cachetop_<pid> exists
    pc,         \* where each instance is in run_system
    arg,        \* its command line, and whether `rich` is installed
    rc,         \* it keeps a Resctrl object
    weMounted,  \* Resctrl._we_mounted
    monGroup,   \* Resctrl._mon_group is set
    shown,      \* where the occupancy on its screen was read
    refused,    \* history: attach_pid returned False
    kept,       \* history: its rmdir(2) failed and the group stayed
    busy,       \* history: its umount(2) failed with EBUSY
    how,        \* history: how it ended
    admin,      \* history: what the administrator did, at most MaxAdmin
    taken       \* history: the administrator unmounted an instance's mount

fs   == <<mnt, groups>>
hist == <<refused, kept, busy, how>>
vars == <<l3mon, fs, pc, arg, rc, weMounted, monGroup, shown, hist, admin, taken>>

PC == {"start", "mount", "check", "attach", "tasks", "import", "loop", "stop",
       "rmdir", "umount", "gone"}

\* resctrl: --no-resctrl is not given and the kernel has resctrl; allow:
\* --mount-resctrl; pid: -p PID; live: no --dump; rich: it can be imported
\* (nothing else looks for it).
Args ==
    {a \in [resctrl : BOOLEAN, allow : BOOLEAN, pid : BOOLEAN, live : BOOLEAN,
            rich : BOOLEAN] : a.live \/ a.rich}

Init ==
    /\ l3mon \in BOOLEAN /\ mnt \in {Nobody, Admin} /\ groups = {}
    /\ pc = [i \in Insts |-> "start"]
    /\ arg \in [Insts -> Args]
    /\ rc = [i \in Insts |-> FALSE]
    /\ weMounted = [i \in Insts |-> FALSE]
    /\ monGroup = [i \in Insts |-> FALSE]
    /\ shown = [i \in Insts |-> "none"]
    /\ refused = [i \in Insts |-> FALSE]
    /\ kept = [i \in Insts |-> FALSE]
    /\ busy = [i \in Insts |-> FALSE]
    /\ how = [i \in Insts |-> "running"]
    /\ admin = 0 /\ taken = FALSE

----------------------------------------------------------------------------
(* Steps of an instance. *)

Goto(i, from, to) == pc[i] = from /\ pc' = [pc EXCEPT ![i] = to]

\* os.path.isdir(info/L3_MON)
Usable == mnt # Nobody /\ l3mon

\* ensure_mounted returned True: keep the object, attach when -p is given.
Keep(i, from) ==
    /\ Goto(i, from, IF arg[i].pid THEN "attach" ELSE "import")
    /\ rc' = [rc EXCEPT ![i] = TRUE]

\* ensure_mounted returned False, or was not called.
Drop(i, from) ==
    /\ Goto(i, from, "import")
    /\ rc' = rc

\* umount2(): fails when somebody has a file open, and nobody looks.
Umount(i) ==
    \/ /\ mnt' = Nobody /\ groups' = {}
       /\ busy' = busy
    \/ /\ mnt # Nobody
       /\ busy' = [busy EXCEPT ![i] = TRUE]
       /\ UNCHANGED fs

\* The first tests of ensure_mounted.
Start(i) ==
    /\ \/ arg[i].resctrl /\ Usable /\ Keep(i, "start")
       \/ ~(arg[i].resctrl /\ (Usable \/ arg[i].allow)) /\ Drop(i, "start")
       \/ /\ arg[i].resctrl /\ ~Usable /\ arg[i].allow
          /\ Goto(i, "start", "mount") /\ rc' = rc
    /\ UNCHANGED <<fs, weMounted, monGroup, shown, hist>>

\* mount(2).
Mount(i) ==
    /\ mnt = Nobody /\ mnt' = i /\ groups' = {}
    /\ Goto(i, "mount", "check")
    /\ UNCHANGED <<rc, weMounted, monGroup, shown, hist>>

\* No right to mount, no mount point, or mounted by somebody meanwhile.
MountFails(i) ==
    /\ Drop(i, "mount")
    /\ UNCHANGED <<fs, weMounted, monGroup, shown, hist>>

\* Mounted: _we_mounted is set only when L3_MON is there.
CheckUsable(i) ==
    /\ Usable
    /\ Keep(i, "check")
    /\ weMounted' = [weMounted EXCEPT ![i] = TRUE]
    /\ UNCHANGED <<fs, monGroup, shown, hist>>

\* Mounted without L3_MON: undone at once.
UndoMount(i) ==
    /\ ~Usable
    /\ Drop(i, "check")
    /\ Umount(i)
    /\ UNCHANGED <<weMounted, monGroup, shown, refused, kept, how>>

\* Mutant of MakeGroup: takes the directory for granted.
MakeGroupAnyway(i) ==
    /\ groups' = groups \cup {i}
    /\ Goto(i, "attach", "tasks")
    /\ UNCHANGED <<mnt, rc, weMounted, monGroup, shown, hist>>

\* attach_pid: makedirs, then the pid is written to tasks.
MakeGroup(i) ==
    /\ Usable
    /\ groups' = groups \cup {i}
    /\ Goto(i, "attach", "tasks")
    /\ UNCHANGED <<mnt, rc, weMounted, monGroup, shown, hist>>

WriteTasks(i) ==
    /\ i \in groups
    /\ Goto(i, "tasks", "import")
    /\ monGroup' = [monGroup EXCEPT ![i] = TRUE]
    /\ UNCHANGED <<fs, rc, weMounted, shown, hist>>

\* OSError in attach_pid: no group left to give, no such process.  Its result
\* is not looked at, and a directory it has made stays.
AttachFails(i) ==
    /\ Goto(i, "attach", "import") \/ Goto(i, "tasks", "import")
    /\ refused' = [refused EXCEPT ![i] = TRUE]
    /\ UNCHANGED <<fs, rc, weMounted, monGroup, shown, kept, busy, how>>

\* The live view imports rich after the setup, and exits without it.
ImportRich(i) ==
    /\ arg[i].live => arg[i].rich
    /\ Goto(i, "import", "loop")
    /\ UNCHANGED <<fs, rc, weMounted, monGroup, shown, hist>>

NoRich(i) ==
    /\ arg[i].live /\ ~arg[i].rich
    /\ Goto(i, "import", "gone")
    /\ how' = [how EXCEPT ![i] = "exit"]
    /\ UNCHANGED <<fs, rc, weMounted, monGroup, shown, refused, kept, busy>>

\* Mutant of Source: the root's figure when the group is gone.
SourceFallsBack(i) ==
    IF rc[i] /\ monGroup[i] /\ i \in groups THEN "group"
    ELSE IF rc[i] /\ Usable THEN "root" ELSE "none"

\* Where read() finds llc_occupancy: the group's mon_data, or the root's.
Source(i) ==
    IF rc[i] /\ monGroup[i]
    THEN IF i \in groups THEN "group" ELSE "none"
    ELSE IF rc[i] /\ Usable THEN "root" ELSE "none"

\* A frame: the occupancy is read and shown.
Read(i) ==
    /\ pc[i] = "loop"
    /\ shown' = [shown EXCEPT ![i] = Source(i)]
    /\ UNCHANGED <<fs, pc, rc, weMounted, monGroup, hist>>

\* The loop is over: perf ended, --dump frames are out, or Ctrl-C.
LeaveLoop(i) ==
    /\ Goto(i, "loop", "stop")
    /\ UNCHANGED <<fs, rc, weMounted, monGroup, shown, hist>>

\* collector.stop() has returned.
CollectorStopped(i) ==
    /\ Goto(i, "stop", IF rc[i] THEN "rmdir" ELSE "gone")
    /\ how' = [how EXCEPT ![i] = IF rc[i] THEN @ ELSE "cleanup"]
    /\ UNCHANGED <<fs, rc, weMounted, monGroup, shown, refused, kept, busy>>

\* Mutant of RemoveGroup: the group is forgotten, not removed.
RemoveGroupNot(i) ==
    /\ Goto(i, "rmdir", "umount")
    /\ monGroup' = [monGroup EXCEPT ![i] = FALSE]
    /\ UNCHANGED <<fs, rc, weMounted, shown, hist>>

\* cleanup(): first the group, which is forgotten whether or not rmdir(2) has
\* removed it, and whether or not it is still there.
RemoveGroup(i) ==
    /\ Goto(i, "rmdir", "umount")
    /\ \/ /\ groups' = IF monGroup[i] THEN groups \ {i} ELSE groups
          /\ kept' = kept
       \/ /\ monGroup[i] /\ i \in groups
          /\ kept' = [kept EXCEPT ![i] = TRUE]
          /\ groups' = groups
    /\ monGroup' = [monGroup EXCEPT ![i] = FALSE]
    /\ UNCHANGED <<mnt, rc, weMounted, shown, refused, busy, how>>

\* Mutant of Unmount: unmounts whatever is mounted.
UnmountAlways(i) ==
    /\ Goto(i, "umount", "gone")
    /\ Umount(i)
    /\ weMounted' = [weMounted EXCEPT ![i] = FALSE]
    /\ how' = [how EXCEPT ![i] = "cleanup"]
    /\ UNCHANGED <<rc, monGroup, shown, refused, kept>>

\* Then the mount, if it was this process that made it.
Unmount(i) ==
    /\ Goto(i, "umount", "gone")
    /\ IF weMounted[i] THEN Umount(i) ELSE UNCHANGED <<fs, busy>>
    /\ weMounted' = [weMounted EXCEPT ![i] = FALSE]
    /\ how' = [how EXCEPT ![i] = "cleanup"]
    /\ UNCHANGED <<rc, monGroup, shown, refused, kept>>

\* Killed anywhere, or Ctrl-C outside the try: during the setup, or a second
\* one in the finally block.
Cut(i) ==
    /\ pc[i] # "gone"
    /\ pc' = [pc EXCEPT ![i] = "gone"]
    /\ how' = [how EXCEPT ![i] = "cut"]
    /\ UNCHANGED <<fs, rc, weMounted, monGroup, shown, refused, kept, busy>>

Step(i) ==
    /\ \/ Start(i) \/ Mount(i) \/ MountFails(i) \/ CheckUsable(i) \/ UndoMount(i)
       \/ MakeGroup(i) \/ WriteTasks(i) \/ AttachFails(i)
       \/ ImportRich(i) \/ NoRich(i) \/ Read(i) \/ LeaveLoop(i)
       \/ CollectorStopped(i) \/ RemoveGroup(i) \/ Unmount(i) \/ Cut(i)
    /\ UNCHANGED <<l3mon, arg, admin, taken>>

----------------------------------------------------------------------------
(* The administrator (not part of the repository). *)

AdminMounts ==
    /\ admin < MaxAdmin /\ admin' = admin + 1
    /\ mnt = Nobody /\ mnt' = Admin /\ groups' = {}
    /\ taken' = taken

AdminUnmounts ==
    /\ admin < MaxAdmin /\ admin' = admin + 1
    /\ mnt # Nobody /\ mnt' = Nobody /\ groups' = {}
    /\ taken' = (taken \/ mnt \in Insts)

AdminStep ==
    /\ AdminMounts \/ AdminUnmounts
    /\ UNCHANGED <<l3mon, pc, arg, rc, weMounted, monGroup, shown, hist>>

AllGone == (\A i \in Insts : pc[i] = "gone") /\ UNCHANGED vars

Next == (\E i \in Insts : Step(i)) \/ AdminStep \/ AllGone

Spec == Init /\ [][Next]_vars

----------------------------------------------------------------------------
(* Properties. *)

\* The values of the shared file system and of each instance's locals.
TypeOK ==
    /\ l3mon \in BOOLEAN
    /\ mnt \in Insts \cup {Nobody, Admin}
    /\ groups \in SUBSET Insts
    /\ groups # {} => Usable
    /\ pc \in [Insts -> PC]
    /\ arg \in [Insts -> Args]
    /\ rc \in [Insts -> BOOLEAN]
    /\ weMounted \in [Insts -> BOOLEAN]
    /\ monGroup \in [Insts -> BOOLEAN]
    /\ shown \in [Insts -> {"none", "root", "group"}]
    /\ refused \in [Insts -> BOOLEAN]
    /\ kept \in [Insts -> BOOLEAN]
    /\ busy \in [Insts -> BOOLEAN]
    /\ how \in [Insts -> {"running", "cleanup", "exit", "cut"}]
    /\ admin \in 0 .. MaxAdmin /\ taken \in BOOLEAN

\* An instance mounts resctrl only when asked to, and unmounts only the mount
\* it made itself, however many instances come and go: as long as nobody else
\* takes an instance's mount away, which _we_mounted would not notice.
OwnMountOnly ==
    [][\A i \in Insts :
          pc'[i] # pc[i] /\ mnt' # mnt =>
              \/ mnt = Nobody /\ mnt' = i /\ arg[i].allow
              \/ mnt = i /\ mnt' = Nobody
              \/ taken]_vars

\* An instance that went through its finally block leaves its mount only if the
\* kernel refused the umount, whatever became of the group before; and leaves
\* its monitoring group only if the kernel refused the rmdir, of which cleanup()
\* takes no notice, or if attach_pid failed and has forgotten the directory.
CleanExit ==
    \A i \in Insts : how[i] = "cleanup" =>
        /\ mnt = i => busy[i]
        /\ i \in groups => kept[i] \/ refused[i]

\* With -p the figure on the screen is never the machine's in place of the
\* process's because the group or the mount vanished under the instance: only a
\* refused attach_pid leads there.
NeverTheMachineInstead ==
    \A i \in Insts : arg[i].pid /\ shown[i] = "root" => refused[i]

\* README.md:190-191: "resctrl is mounted only with --mount-resctrl (and
\* unmounted on exit if cachetop mounted it)".  An exit of the program's own,
\* no signal in sight.
UnmountedOnExit ==
    \A i \in Insts : how[i] = "exit" => mnt # i

\* README.md:145-146: "with -p PID it creates a monitoring group for just that
\* process".
JustThatProcess ==
    \A i \in Insts : arg[i].pid => shown[i] \in {"none", "group"}
============================================================================
