------------------------------ MODULE Startup ------------------------------
(***************************************************************************)
(* From main() to the first frame: the CPU topology, the tool pinning     *)
(* itself to housekeeping CPUs, the capability check, and the probe that  *)
(* asks perf which events of the catalogue count on which PMU, all of     *)
(* them at once and then one at a time.  Every perf started has the       *)
(* affinity the tool has at that moment.                                  *)
(*                                                                        *)
(* A CPU list is a sequence of ranges [lo, hi] and of words; the other    *)
(* text of /proc and sysfs, and perf's CSV, stand for what they say.      *)
(***************************************************************************)
EXTENDS Naturals, FiniteSets, Sequences, SequencesExt

CONSTANTS
    Cpus,       \* CPUs there may be
    Lists,      \* the CPU lists that may be read
    Word,       \* a part of a CPU list that is no number and no range
    Pmus,       \* the PMUs perf names
    Devices,    \* what sysfs may list as PMUs: [name, core, dirs]
    Machines,   \* the machines considered
    Catalog     \* _CATALOG: a sequence of [slot, vendor, event]

Vendors == {"intel", "amd", "unknown"}
Slots == {Catalog[i].slot : i \in DOMAIN Catalog}
Events == {Catalog[i].event : i \in DOMAIN Catalog}

ASSUME CatalogAssumption ==
    /\ DOMAIN Catalog \subseteq Nat
    /\ \A i \in DOMAIN Catalog : Catalog[i].vendor \in {"any", "intel", "amd"}
ASSUME CpusAssumption == Cpus # {} /\ Cpus \subseteq Nat /\ IsFiniteSet(Cpus)
ASSUME WordAssumption == Word \notin [lo : Nat, hi : Nat]
ASSUME MachinesAssumption ==
    Machines \subseteq [rich : BOOLEAN, perf : BOOLEAN, prefixes : BOOLEAN,
                        cpu : {"GenuineIntel", "AuthenticAMD", "other"},
                        devices : SUBSET Devices,
                        resctrl : {"none", "unmounted", "mounted", "L3_MON"}]

VARIABLES
    args,       \* --show-events, --no-pin, the mode, --pids malformed
    machine,    \* what is installed, and what the kernel says of itself
    counts,     \* what perf can count: set of <<event, pmu>>
    known,      \* event names perf knows
    online,     \* Topology.online
    isolated,   \* Topology.isolated
    affinity,   \* CPUs the tool may be scheduled on
    pinFailed,  \* sched_setaffinity failed
    said,       \* the CPUs the tool says it is pinned to, as a list
    pc,
    caps,       \* Caps
    supported,  \* what the probe has found: set of <<event, pmu>>
    left,       \* events still to be asked for one at a time
    channels,   \* the result of probe(): set of [slot, event, pmu]
    coverage,   \* what --show-events prints, per slot
    spawned,    \* history: affinities perf was started with
    late        \* history: a probe ran into its timeout

topo == <<online, isolated>>
pinning == <<affinity, pinFailed, said>>
given == <<args, machine, counts, known>>
history == <<spawned, late>>
vars == <<given, topo, pinning, pc, caps, supported, left, channels, coverage, history>>

Mode == {"system", "dump", "live"}

\* --show-events comes before every other option; --system has no use for --pids.
Args ==
    {a \in [showEvents : BOOLEAN, noPin : BOOLEAN, mode : Mode, badPids : BOOLEAN] :
        /\ a.showEvents => ~a.noPin /\ ~a.badPids /\ a.mode = "live"
        /\ a.mode = "system" => ~a.badPids}

NoCaps == [vendor |-> "unknown", pmus |-> {}]
NoCoverage == [s \in {} |-> {}]

\* prefixes: perf prints pmu/event/, not the bare event.  Where rich is missing
\* is of interest in the live mode only (module Resctrl has --system).
Init ==
    /\ args \in Args /\ machine \in Machines
    /\ machine.rich \/ (args.mode = "live" /\ ~args.showEvents)
    /\ counts = {} /\ known = {}
    /\ online = {} /\ isolated = {}
    /\ affinity = Cpus /\ pinFailed = FALSE /\ said = <<>>
    /\ pc = "detect" /\ caps = NoCaps
    /\ supported = {} /\ left = {} /\ channels = {} /\ coverage = NoCoverage
    /\ spawned = {} /\ late = FALSE

----------------------------------------------------------------------------
(* topology.py *)

\* _parse_cpu_list: words are skipped, a range that runs backwards is empty.
Parse(list) ==
    UNION {list[i].lo .. list[i].hi : i \in {j \in DOMAIN list : list[j] # Word}}

ASSUME ListsAssumption == \A list \in Lists : Parse(list) \subseteq Cpus

\* Mutant of Longer: a range is taken to go on over a gap of one.
LongerOverGap(runs, n) ==
    IF n <= runs.prev + 2 THEN [runs EXCEPT !.prev = n]
    ELSE [parts |-> Append(runs.parts, [lo |-> runs.start, hi |-> runs.prev]),
          start |-> n, prev |-> n]

\* The loop of fmt_cpus: n goes on the range at hand, or begins another.
Longer(runs, n) ==
    IF n = runs.prev + 1 THEN [runs EXCEPT !.prev = n]
    ELSE [parts |-> Append(runs.parts, [lo |-> runs.start, hi |-> runs.prev]),
          start |-> n, prev |-> n]

\* fmt_cpus, of a set that is not empty; after[n] is where the loop stands when it
\* has gone through the CPUs of sorted(cpus) that are no greater than n.
Formatted(cpus) ==
    LET after[n \in 0 .. Max(cpus)] ==
            IF n <= Min(cpus) THEN [parts |-> <<>>, start |-> Min(cpus), prev |-> Min(cpus)]
            ELSE IF n \in cpus THEN Longer(after[n - 1], n)
            ELSE after[n - 1]
        end == after[Max(cpus)]
    IN  Append(end.parts, [lo |-> end.start, hi |-> end.prev])

\* What the two files say, or else the command line; CPUs online, if any is.
Isolated(on, sysfs, nohz, cmdline) ==
    LET found == IF sysfs \cup nohz # {} THEN sysfs \cup nohz ELSE cmdline
    IN  IF found \cap on # {} THEN found \cap on ELSE found

\* Mutant of Housekeeping: of all CPUs there may be, online or not.
HousekeepingOffline == IF Cpus \ isolated # {} THEN Cpus \ isolated ELSE Cpus

Housekeeping == IF online \ isolated # {} THEN online \ isolated ELSE online

\* topology.detect(), the first thing main() does; range(os.cpu_count()) where the
\* kernel does not list the CPUs online.
Detect ==
    /\ pc = "detect"
    /\ \E on, sysfs, nohz, cmdline \in Lists :
          /\ online' = IF Parse(on) = {} THEN Cpus ELSE Parse(on)
          /\ isolated' = Isolated(online', Parse(sysfs), Parse(nohz), Parse(cmdline))
          /\ affinity' = online'
    /\ pc' = IF args.showEvents THEN "setup" ELSE "pin"
    /\ UNCHANGED <<given, pinFailed, said, caps, supported, left, channels, coverage, history>>

----------------------------------------------------------------------------
(* __main__.py *)

\* Mutant of Unpinned: --no-pin is what asks for the pinning.
UnpinnedSwapped == ~args.noPin \/ isolated = {}

\* _apply_affinity has nothing to do.
Unpinned == args.noPin \/ isolated = {}

\* The live per-process screen looks for rich before anything else.
NoRich == args.mode = "live" /\ ~machine.rich

\* _apply_affinity, and the dispatch of main().
ApplyAffinity ==
    /\ pc = "pin" /\ pc' = IF NoRich THEN "exit" ELSE "setup"
    /\ \/ /\ Unpinned
          /\ UNCHANGED pinning
       \/ /\ ~Unpinned
          /\ affinity' = Housekeeping /\ said' = Formatted(Housekeeping)
          /\ UNCHANGED pinFailed
       \/ /\ ~Unpinned
          /\ pinFailed' = TRUE /\ UNCHANGED <<affinity, said>>
    /\ UNCHANGED <<given, topo, caps, supported, left, channels, coverage, history>>

----------------------------------------------------------------------------
(* caps.py *)

Vendor ==
    CASE machine.cpu = "GenuineIntel" -> "intel"
      [] machine.cpu = "AuthenticAMD" -> "amd"
      [] OTHER                        -> "unknown"

\* cpu and cpu_*, with a type and a format; "cpu" where none is found.
CorePmus ==
    LET found == {d.name : d \in {e \in machine.devices : e.core /\ e.dirs}}
    IN  IF found = {} THEN {"cpu"} ELSE found

\* caps.detect() and _setup_common up to the probe.  What perf can do shows from
\* here on.  mon_features, the second thing that is looked at for L3 monitoring,
\* is in the directory that was looked for first.
Setup ==
    /\ pc = "setup"
    /\ caps' = [vendor |-> Vendor, pmus |-> CorePmus, hybrid |-> Cardinality(CorePmus) > 1,
                perf |-> machine.perf, isolated |-> isolated,
                supported |-> machine.resctrl # "none",
                mounted |-> machine.resctrl \in {"mounted", "L3_MON"},
                l3mon |-> machine.resctrl = "L3_MON"]
    /\ \/ /\ caps'.perf /\ pc' = "probe"
          /\ known' \in SUBSET Events
          /\ counts' \in SUBSET (known' \X Pmus)
       \/ /\ ~caps'.perf /\ pc' = "exit"
          /\ UNCHANGED <<known, counts>>
    /\ UNCHANGED <<args, machine, topo, pinning, supported, left, channels, coverage, history>>

----------------------------------------------------------------------------
(* events.py *)

\* _candidates_for(vendor), as places in the catalogue.
Candidates ==
    {i \in DOMAIN Catalog : Catalog[i].vendor \in {"any", caps.vendor}}

Wanted == {Catalog[i].event : i \in Candidates}

\* _parse_supported: a name that has no slashes is not seen.
Parsed(E) ==
    IF machine.prefixes THEN {c \in counts : c[1] \in E} ELSE {}

\* perf stat -e E: what its output says.  A name it does not know may abort the
\* invocation; it may not come back in time.
Answers(E) ==
    {Parsed(E)} \cup (IF E \subseteq known THEN {} ELSE {{}})

\* Mutant of Chosen: any candidate of the slot.
ChosenAny(found) ==
    {[slot |-> Catalog[i].slot, event |-> Catalog[i].event, pmu |-> p] :
        i \in {j \in Candidates : \E p \in Pmus : <<Catalog[j].event, p>> \in found},
        p \in Pmus}

\* For every slot and PMU the first candidate that counts there.
Firsts(found) ==
    {c \in Candidates \X Pmus :
        /\ <<Catalog[c[1]].event, c[2]>> \in found
        /\ \A j \in Candidates :
              j < c[1] /\ Catalog[j].slot = Catalog[c[1]].slot =>
                  <<Catalog[j].event, c[2]>> \notin found}

Chosen(found) ==
    {[slot |-> Catalog[c[1]].slot, event |-> Catalog[c[1]].event, pmu |-> c[2]] :
        c \in Firsts(found)}

\* A perf is started, and answers or runs into the timeout.
Asks(E, found) ==
    /\ spawned' = spawned \cup {affinity}
    /\ \/ found \in Answers(E) /\ late' = late
       \/ found = {} /\ late' = TRUE

\* _setup_common after the probe, and _make_monitor.
After(found) ==
    IF Chosen(found) = {} THEN "exit"
    ELSE IF args.showEvents THEN "cover"
    ELSE IF args.mode # "system" /\ args.badPids THEN "exit"
    ELSE "run"

\* Mutant of Retried: what perf said is final.
RetriedNever(found) == {}

\* The events to ask for one at a time, when nothing was found at once.
Retried(found) == IF found = {} THEN Wanted ELSE {}

\* probe(): all events at once.
ProbeAll ==
    /\ pc = "probe"
    /\ \E found \in SUBSET (Wanted \X Pmus) :
          /\ Asks(Wanted, found)
          /\ supported' = found
          /\ left' = Retried(found)
          /\ channels' = IF left' = {} THEN Chosen(found) ELSE {}
          /\ pc' = IF left' = {} THEN After(found) ELSE "one"
    /\ UNCHANGED <<given, topo, pinning, caps, coverage>>

\* _probe_individually: a next one.
ProbeOne ==
    /\ pc = "one" /\ left # {}
    /\ LET e == CHOOSE x \in left : TRUE
       IN  \E found \in SUBSET ({e} \X Pmus) :
              /\ Asks({e}, found)
              /\ supported' = supported \cup found
              /\ left' = left \ {e}
    /\ UNCHANGED <<given, topo, pinning, pc, caps, channels, coverage>>

\* They have all been asked for.
ProbeDone ==
    /\ pc = "one" /\ left = {}
    /\ channels' = Chosen(supported) /\ pc' = After(supported)
    /\ UNCHANGED <<given, topo, pinning, caps, supported, left, coverage, history>>

\* expected_slots(vendor)
Expected == {Catalog[i].slot : i \in Candidates}

\* --show-events: a slot without a channel is printed as MISSING.
PrintEventCoverage ==
    /\ pc = "cover" /\ pc' = "shown"
    /\ coverage' = [slot \in Expected |->
                       {<<c.event, c.pmu>> : c \in {d \in channels : d.slot = slot}}]
    /\ UNCHANGED <<given, topo, pinning, caps, supported, left, channels, history>>

Next ==
    \/ Detect
    \/ ApplyAffinity
    \/ Setup
    \/ ProbeAll
    \/ ProbeOne
    \/ ProbeDone
    \/ PrintEventCoverage

Spec == Init /\ [][Next]_vars

----------------------------------------------------------------------------
(* Properties. *)

CapsOK ==
    /\ DOMAIN caps = {"vendor", "pmus", "hybrid", "perf", "isolated", "supported", "mounted", "l3mon"}
    /\ caps.vendor \in Vendors
    /\ caps.pmus \subseteq {"cpu"} \cup {d.name : d \in Devices} /\ caps.pmus # {}
    /\ {caps.hybrid, caps.perf, caps.supported, caps.mounted, caps.l3mon} \subseteq BOOLEAN
    /\ caps.isolated \subseteq Cpus

\* Types; and the tool can always be scheduled somewhere that is online.
TypeOK ==
    /\ args \in Args /\ machine \in Machines
    /\ known \subseteq Events /\ counts \subseteq Events \X Pmus
    /\ online \subseteq Cpus /\ isolated \subseteq Cpus
    /\ affinity \in (SUBSET Cpus) \ {{}}
    /\ pc # "detect" => affinity \subseteq online
    /\ pinFailed \in BOOLEAN /\ late \in BOOLEAN
    /\ pc \in {"detect", "pin", "setup", "probe", "one", "cover", "run", "shown", "exit"}
    /\ caps = NoCaps \/ CapsOK
    /\ supported \subseteq Events \X Pmus /\ left \subseteq Events
    /\ channels \subseteq [slot : Slots, event : Events, pmu : Pmus]
    /\ DOMAIN coverage \subseteq Slots
    /\ \A slot \in DOMAIN coverage : coverage[slot] \subseteq Events \X Pmus
    /\ spawned \subseteq SUBSET Cpus

\* __main__.py:73: "Keep the tool's own threads/children off the isolated
\* trading cores."  Every perf of the probe is off them (`spawned` has no other;
\* the affinity does not change after it): unless the user declined, the kernel refused, there is no other CPU,
\* or --show-events, which probes without pinning.
ChildrenOffIsolated ==
    \/ args.noPin \/ args.showEvents \/ pinFailed \/ online \subseteq isolated
    \/ \A a \in spawned : a \cap isolated = {}

\* __main__.py:84-87: the CPUs that the tool says it is pinned to are the CPUs it
\* and its children run on: the list reads back as the set it was made of.
RunsWhereItSays == said # <<>> => Parse(said) = affinity

\* events.py:130-131: per slot and PMU one channel, and it "actually counts":
\* a channel that does not would be a column of n/a for ever.
ChannelsCount ==
    /\ \A c \in channels : <<c.event, c.pmu>> \in counts
    /\ \A c, d \in channels : c.slot = d.slot /\ c.pmu = d.pmu => c = d

\* events.py:139-140: "A single bad event name can abort the whole invocation;
\* fall back to probing events one at a time so the good ones still register."
\* Every event of the vendor that counts feeds its slot, whatever other names
\* perf rejects, provided perf is in time and names the PMU; and --show-events
\* has it in its table.
GoodOnesRegister ==
    pc \in {"run", "shown", "exit"} /\ spawned # {} /\ ~late /\ machine.prefixes =>
        \A i \in Candidates, p \in Pmus :
            <<Catalog[i].event, p>> \in counts =>
                \E c \in channels :
                    /\ c.slot = Catalog[i].slot /\ c.pmu = p
                    /\ pc = "shown" => <<c.event, p>> \in coverage[c.slot]
============================================================================
