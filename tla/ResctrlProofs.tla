---------------------------- MODULE ResctrlProofs ----------------------------
(***************************************************************************)
(* What the instances do to the shared mount, for any number of instances *)
(* and any number of interventions by the administrator.                  *)
(***************************************************************************)
EXTENDS Resctrl, TLAPS

\* _we_mounted, and the moment before it is set, mean that the mount is the
\* instance's own: until somebody takes it away.
OwnerInv ==
    /\ ~taken => \A i \in Insts : pc[i] = "check" \/ weMounted[i] => mnt = i
    /\ \A i \in Insts : pc[i] \in {"start", "mount", "check"} => ~weMounted[i]

\* Who is asked to mount has --mount-resctrl.
AskedInv == \A i \in Insts : pc[i] = "mount" => arg[i].allow

\* What an instance that is through with cleanup() still answers for.
CleanInv ==
    \A i \in Insts :
        /\ mnt = i => pc[i] = "check" \/ weMounted[i] \/ busy[i] \/ how[i] = "cut"
        /\ i \in groups => pc[i] = "tasks" \/ monGroup[i] \/ refused[i] \/ kept[i] \/ how[i] = "cut"
        /\ weMounted[i] \/ monGroup[i] \/ pc[i] \in {"attach", "tasks"} => rc[i]
        /\ pc[i] = "umount" => ~monGroup[i]
        /\ pc[i] \in {"start", "mount", "check", "attach", "tasks"} => ~monGroup[i]
        /\ how[i] # "running" <=> pc[i] = "gone"
        /\ how[i] = "cleanup" => ~weMounted[i] /\ ~monGroup[i]

\* With -p a Resctrl object without a group means a refused attach_pid, from
\* the moment the setup is over.
PidInv ==
    \A i \in Insts : arg[i].pid =>
        /\ pc[i] \in {"start", "mount", "check"} => ~rc[i]
        /\ pc[i] \in {"import", "loop"} /\ rc[i] => monGroup[i] \/ refused[i]
        /\ shown[i] = "root" => refused[i]

IInv == TypeOK /\ OwnerInv /\ AskedInv /\ CleanInv /\ PidInv

LEMMA InitIInv == Init => IInv
<1> SUFFICES ASSUME Init PROVE IInv
    OBVIOUS
<1> USE NamesAssumption DEF Init
<1>1. TypeOK
    <2>1. groups = {} /\ l3mon \in BOOLEAN /\ taken \in BOOLEAN /\ mnt \in Insts \cup {Nobody, Admin}
        OBVIOUS
    <2>2. /\ pc \in [Insts -> PC]
          /\ shown \in [Insts -> {"none", "root", "group"}]
          /\ how \in [Insts -> {"running", "cleanup", "exit", "cut"}]
          /\ admin \in 0 .. MaxAdmin
        BY MaxAdminAssumption DEF PC
    <2>3. /\ arg \in [Insts -> Args]
          /\ rc \in [Insts -> BOOLEAN]
          /\ weMounted \in [Insts -> BOOLEAN]
          /\ monGroup \in [Insts -> BOOLEAN]
          /\ refused \in [Insts -> BOOLEAN]
          /\ kept \in [Insts -> BOOLEAN]
          /\ busy \in [Insts -> BOOLEAN]
        OBVIOUS
    <2> QED BY <2>1, <2>2, <2>3, Zenon DEF TypeOK
<1>2. OwnerInv /\ AskedInv
    BY DEF OwnerInv, AskedInv
<1>3. CleanInv
    BY DEF CleanInv
<1>4. PidInv
    BY DEF PidInv
<1> QED BY <1>1, <1>2, <1>3, <1>4 DEF IInv

\* Every step keeps the types.
LEMMA StepTypeOK ==
    ASSUME TypeOK, NEW i \in Insts, Step(i) PROVE TypeOK'
<1> USE NamesAssumption DEF TypeOK, Step, fs, hist, Goto, Keep, Drop, PC
<1>1. CASE Start(i) \/ Mount(i) \/ MountFails(i) \/ CheckUsable(i)
    <2>1. CASE Start(i)
        BY <2>1 DEF Start, Usable
    <2>2. CASE Mount(i)
        BY <2>2 DEF Mount, Usable
    <2>3. CASE MountFails(i)
        BY <2>3 DEF MountFails, Usable
    <2>4. CASE CheckUsable(i)
        BY <2>4 DEF CheckUsable, Usable
    <2> QED BY <1>1, <2>1, <2>2, <2>3, <2>4
<1>2. CASE UndoMount(i)
    BY <1>2 DEF UndoMount, Umount, Usable
<1>3. CASE MakeGroup(i) \/ WriteTasks(i) \/ AttachFails(i)
    <2>1. CASE MakeGroup(i)
        BY <2>1 DEF MakeGroup, Usable
    <2>2. CASE WriteTasks(i)
        BY <2>2 DEF WriteTasks, Usable
    <2>3. CASE AttachFails(i)
        BY <2>3 DEF AttachFails, Usable
    <2> QED BY <1>3, <2>1, <2>2, <2>3
<1>4. CASE ImportRich(i) \/ NoRich(i) \/ Read(i) \/ LeaveLoop(i)
    BY <1>4 DEF ImportRich, NoRich, Read, LeaveLoop, Source, Usable
<1>5. CASE CollectorStopped(i) \/ RemoveGroup(i)
    <2>1. CASE CollectorStopped(i)
        BY <2>1 DEF CollectorStopped, Usable
    <2>2. CASE RemoveGroup(i)
        BY <2>2 DEF RemoveGroup, Usable
    <2> QED BY <1>5, <2>1, <2>2
<1>6. CASE Unmount(i)
    BY <1>6 DEF Unmount, Umount, Usable
<1>7. CASE Cut(i)
    BY <1>7 DEF Cut, Usable
<1> QED BY <1>1, <1>2, <1>3, <1>4, <1>5, <1>6, <1>7

LEMMA StepOwnerInv ==
    ASSUME TypeOK, OwnerInv, AskedInv, NEW i \in Insts, Step(i)
    PROVE  OwnerInv' /\ AskedInv'
<1> USE NamesAssumption DEF TypeOK, OwnerInv, AskedInv, Step, fs, hist, Goto, Keep, Drop
<1>1. CASE Start(i) \/ Mount(i) \/ MountFails(i) \/ CheckUsable(i)
    BY <1>1 DEF Start, Mount, MountFails, CheckUsable
<1>2. CASE UndoMount(i)
    BY <1>2 DEF UndoMount, Umount
<1>3. CASE MakeGroup(i) \/ WriteTasks(i) \/ AttachFails(i)
    BY <1>3 DEF MakeGroup, WriteTasks, AttachFails
<1>4. CASE ImportRich(i) \/ NoRich(i) \/ Read(i) \/ LeaveLoop(i)
    BY <1>4 DEF ImportRich, NoRich, Read, LeaveLoop
<1>5. CASE CollectorStopped(i) \/ RemoveGroup(i)
    BY <1>5 DEF CollectorStopped, RemoveGroup
<1>6. CASE Unmount(i)
    BY <1>6 DEF Unmount, Umount
<1>7. CASE Cut(i)
    BY <1>7 DEF Cut
<1> QED BY <1>1, <1>2, <1>3, <1>4, <1>5, <1>6, <1>7

LEMMA StepCleanInv ==
    ASSUME TypeOK, CleanInv, NEW i \in Insts, Step(i) PROVE CleanInv'
<1> USE NamesAssumption DEF TypeOK, CleanInv, Step, fs, hist, Goto, Keep, Drop
<1>1. CASE Start(i) \/ Mount(i) \/ MountFails(i) \/ CheckUsable(i)
    BY <1>1 DEF Start, Mount, MountFails, CheckUsable
<1>2. CASE UndoMount(i)
    BY <1>2 DEF UndoMount, Umount
<1>3. CASE MakeGroup(i) \/ WriteTasks(i) \/ AttachFails(i)
    BY <1>3 DEF MakeGroup, WriteTasks, AttachFails
<1>4. CASE ImportRich(i) \/ NoRich(i) \/ Read(i) \/ LeaveLoop(i)
    BY <1>4 DEF ImportRich, NoRich, Read, LeaveLoop
<1>5. CASE CollectorStopped(i) \/ RemoveGroup(i)
    BY <1>5 DEF CollectorStopped, RemoveGroup
<1>6. CASE Unmount(i)
    BY <1>6 DEF Unmount, Umount
<1>7. CASE Cut(i)
    BY <1>7 DEF Cut
<1> QED BY <1>1, <1>2, <1>3, <1>4, <1>5, <1>6, <1>7

LEMMA StepPidInv ==
    ASSUME TypeOK, PidInv, NEW i \in Insts, Step(i) PROVE PidInv'
<1> USE DEF TypeOK, PidInv, Step, fs, hist, Goto, Keep, Drop
<1>1. CASE Start(i) \/ Mount(i) \/ MountFails(i) \/ CheckUsable(i)
    BY <1>1 DEF Start, Mount, MountFails, CheckUsable
<1>2. CASE UndoMount(i)
    BY <1>2 DEF UndoMount
<1>3. CASE MakeGroup(i) \/ WriteTasks(i) \/ AttachFails(i)
    BY <1>3 DEF MakeGroup, WriteTasks, AttachFails
<1>4. CASE ImportRich(i) \/ NoRich(i) \/ Read(i) \/ LeaveLoop(i)
    BY <1>4 DEF ImportRich, NoRich, Read, LeaveLoop, Source
<1>5. CASE CollectorStopped(i) \/ RemoveGroup(i)
    BY <1>5 DEF CollectorStopped, RemoveGroup
<1>6. CASE Unmount(i)
    BY <1>6 DEF Unmount
<1>7. CASE Cut(i)
    BY <1>7 DEF Cut
<1> QED BY <1>1, <1>2, <1>3, <1>4, <1>5, <1>6, <1>7

LEMMA AdminIInv == IInv /\ AdminStep => IInv'
<1> SUFFICES ASSUME IInv, AdminStep PROVE IInv'
    OBVIOUS
<1> USE NamesAssumption
       DEF IInv, AdminStep, AdminMounts, AdminUnmounts, hist
<1>1. TypeOK'
    <2>1. /\ mnt' \in Insts \cup {Nobody, Admin} /\ groups' = {}
          /\ admin' \in 0 .. MaxAdmin
        BY MaxAdminAssumption DEF TypeOK
    <2>2. taken' \in BOOLEAN
        BY DEF TypeOK
    <2> QED BY <2>1, <2>2, Zenon DEF TypeOK
<1>2. OwnerInv' /\ AskedInv'
    BY DEF OwnerInv, AskedInv, TypeOK
<1>3. CleanInv'
    BY DEF CleanInv
<1>4. PidInv'
    BY DEF PidInv
<1> QED BY <1>1, <1>2, <1>3, <1>4

LEMMA NextIInv == IInv /\ [Next]_vars => IInv'
<1> SUFFICES ASSUME IInv, [Next]_vars PROVE IInv'
    OBVIOUS
<1>1. CASE \E i \in Insts : Step(i)
    BY <1>1, StepTypeOK, StepOwnerInv, StepCleanInv, StepPidInv DEF IInv
<1>2. CASE AdminStep
    BY <1>2, AdminIInv
<1>3. CASE UNCHANGED vars
    BY <1>3 DEF vars, fs, hist, IInv, TypeOK, OwnerInv, AskedInv, CleanInv, PidInv, Usable
<1> QED BY <1>1, <1>2, <1>3 DEF Next, AllGone

\* The strengthening is an invariant of the shared file system.
THEOREM Inductive == Spec => []IInv
BY InitIInv, NextIInv, PTL DEF Spec

----------------------------------------------------------------------------

\* mnt, the groups and the locals of every instance keep their types; there is
\* no group without a mount to hold it.
THEOREM TypeCorrect == Spec => []TypeOK
<1>1. IInv => TypeOK
    BY DEF IInv
<1> QED BY <1>1, Inductive, PTL

\* Resctrl.cleanup takes back what ensure_mounted and attach_pid did, unless the
\* kernel refused that very step, or attach_pid has forgotten its directory: a
\* refused rmdir is no excuse for the mount.
THEOREM CleanExitHolds == Spec => []CleanExit
<1>1. IInv => CleanExit
    BY DEF IInv, CleanInv, CleanExit
<1> QED BY <1>1, Inductive, PTL

\* Resctrl.read never turns to the root because a group has vanished.
THEOREM NeverTheMachine == Spec => []NeverTheMachineInstead
<1>1. IInv => NeverTheMachineInstead
    BY DEF IInv, PidInv, NeverTheMachineInstead
<1> QED BY <1>1, Inductive, PTL

\* No interleaving of instances makes one of them unmount another's mount, or
\* the administrator's, or mount without --mount-resctrl.
THEOREM OwnMount == Spec => OwnMountOnly
<1> DEFINE A == \A i \in Insts :
                    pc'[i] # pc[i] /\ mnt' # mnt =>
                        \/ mnt = Nobody /\ mnt' = i /\ arg[i].allow
                        \/ mnt = i /\ mnt' = Nobody
                        \/ taken
<1>1. IInv /\ [Next]_vars => [A]_vars
    <2> SUFFICES ASSUME IInv, [Next]_vars, NEW i \in Insts,
                        pc'[i] # pc[i], mnt' # mnt, ~taken
                 PROVE  \/ mnt = Nobody /\ mnt' = i /\ arg[i].allow
                        \/ mnt = i /\ mnt' = Nobody
        OBVIOUS
    <2>1. Step(i)
        <3>1. PICK j \in Insts : Step(j)
            BY DEF Next, AdminStep, AllGone, vars
        <3>2. \A k \in Insts : k # j => pc'[k] = pc[k]
            BY <3>1 DEF Step, IInv, TypeOK, Start, Mount, MountFails, CheckUsable,
               UndoMount, MakeGroup, WriteTasks, AttachFails, ImportRich, NoRich,
               Read, LeaveLoop, CollectorStopped, RemoveGroup, Unmount, Cut, Goto,
               Keep, Drop
        <3> QED BY <3>1, <3>2
    <2>2. Mount(i) \/ UndoMount(i) \/ Unmount(i)
        BY <2>1 DEF Step, Start, MountFails, CheckUsable, MakeGroup, WriteTasks,
           AttachFails, ImportRich, NoRich, Read, LeaveLoop, CollectorStopped,
           RemoveGroup, Cut, fs
    <2>3. CASE Mount(i)
        BY <2>3 DEF Mount, Goto, IInv, AskedInv
    <2>4. CASE UndoMount(i)
        BY <2>4 DEF UndoMount, Drop, Goto, Umount, fs, IInv, OwnerInv
    <2>5. CASE Unmount(i)
        BY <2>5 DEF Unmount, Umount, fs, IInv, OwnerInv
    <2> QED BY <2>2, <2>3, <2>4, <2>5
<1> QED BY <1>1, Inductive, PTL DEF Spec, OwnMountOnly
============================================================================
