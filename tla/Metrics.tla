------------------------------ MODULE Metrics ------------------------------
(***************************************************************************)
(* From counters to what is shown.  Per process: ProcessMonitor sums the  *)
(* counters of its threads one after the other, once for all of them and  *)
(* once per class of core, and derives the metrics of each bucket.        *)
(* System-wide: MetricsState derives the same metrics per PMU and keeps   *)
(* histories for the sparklines.                                          *)
(*                                                                        *)
(* A counter is missing (None) when perf has no such event on the PMU, or *)
(* did not count it in the interval.  Rates are per interval; percentages *)
(* and MPKI are rounded down to whole numbers.                            *)
(***************************************************************************)
EXTENDS Integers, Sequences, FiniteSets, FiniteSetsExt, Functions

CONSTANTS
    Pmus,       \* the PMUs that have channels
    Levels,     \* the cache levels that have channels
    Threads,    \* the threads of one process in a frame
    Readings,   \* what one PMU may have counted, per slot
    None,
    History,    \* HISTORY: points a sparkline is drawn from
    MaxFrames   \* bound: system-wide frames

Slots == (Levels \X {"access", "miss", "evict"}) \cup ({"ctx"} \X {"instructions", "cycles"})
Counts == [Pmus -> [Slots -> Nat \cup {None}]]

ASSUME FiniteAssumption == IsFiniteSet(Pmus) /\ IsFiniteSet(Threads)
ASSUME NoneAssumption == None \notin Nat
ASSUME ReadingsAssumption == Readings \subseteq [Slots -> Nat \cup {None}]
ASSUME HistoryAssumption == History \in Nat \ {0} /\ MaxFrames \in Nat

VARIABLES
    screen,     \* what the command shows: "process" or "system"
    split,      \* isolated cores are configured
    rows,       \* tf.rows: per thread and PMU
    todo,       \* the threads _aggregate has not come to
    class,      \* history: what cpu_of said of each thread it has come to
    all, iso, shr,      \* per_pid, per_pid_iso, per_pid_shr of the process
    isoCyc, totCyc,     \* iso_cyc, tot_cyc
    shown,      \* the ProcMetric, or None
    frames,     \* history: the frames MetricsState.update was given
    snap,       \* the Snapshot it returned last, or None
    missHist, accHist   \* its histories, per level and PMU

procVars == <<screen, split, rows, todo, class, all, iso, shr, isoCyc, totCyc, shown>>
systemVars == <<frames, snap, missHist, accHist>>
vars == <<screen, split, rows, todo, class, all, iso, shr, isoCyc, totCyc, shown,
          frames, snap, missHist, accHist>>

Nothing == [p \in Pmus |-> [s \in Slots |-> None]]
Num(v) == IF v = None THEN 0 ELSE v
Cells == Levels \X Pmus

Init ==
    /\ screen \in {"process", "system"} /\ split \in BOOLEAN
    /\ todo = IF screen = "process" THEN Threads ELSE {}
    /\ rows \in [todo -> [Pmus -> Readings]]
    /\ class = [t \in Threads |-> "none"]
    /\ all = Nothing /\ iso = Nothing /\ shr = Nothing
    /\ isoCyc = 0 /\ totCyc = 0
    /\ shown = None
    /\ frames = <<>> /\ snap = None
    /\ missHist = [c \in Cells |-> <<>>] /\ accHist = [c \in Cells |-> <<>>]

----------------------------------------------------------------------------
(* The derivation. *)

\* The sum of what was counted; None when nothing was.
SumCounted(f) ==
    LET counted == {x \in DOMAIN f : f[x] # None} IN
    IF counted = {} THEN None ELSE SumFunctionOnSet(f, counted)

\* Over the PMUs that counted it.
Total(counts, pmus, slot) == SumCounted([p \in pmus |-> counts[p][slot]])

Percent(miss, acc) ==
    IF acc \in {None, 0} \/ miss = None THEN None ELSE (100 * miss) \div acc

\* Mutant of LevelMetric: the misses of every PMU over the lookups of one.
LevelMetricAllMisses(counts, pmus, level) ==
    LET acc == Total(counts, pmus, <<level, "access">>)
        miss == Total(counts, Pmus, <<level, "miss">>)
    IN  IF {acc, miss} = {None} THEN None
        ELSE [access |-> acc, miss |-> miss, evict |-> None, pct |-> Percent(miss, acc), mpki |-> None]

\* The LevelMetric, or Cell, of one level; None when it has no counter at all.
LevelMetric(counts, pmus, level) ==
    LET acc == Total(counts, pmus, <<level, "access">>)
        miss == Total(counts, pmus, <<level, "miss">>)
        evi == Total(counts, pmus, <<level, "evict">>)
        ins == Num(Total(counts, pmus, <<"ctx", "instructions">>))
    IN  IF {acc, miss, evi} = {None} THEN None
        ELSE [access |-> acc, miss |-> miss, evict |-> evi,
              pct    |-> Percent(miss, acc),
              mpki   |-> IF miss = None \/ ins = 0 THEN None ELSE (1000 * miss) \div ins]

LevelMetrics(counts) == [level \in Levels |-> LevelMetric(counts, Pmus, level)]

----------------------------------------------------------------------------
(* Per process. *)

\* Mutant of Accum: the counter of the thread before is overwritten.
AccumOverwrites(bucket, counts) ==
    [p \in Pmus |-> [s \in Slots |->
        IF counts[p][s] = None THEN bucket[p][s] ELSE counts[p][s]]]

Accum(bucket, counts) ==
    [p \in Pmus |-> [s \in Slots |->
        IF counts[p][s] = None THEN bucket[p][s]
        ELSE Num(bucket[p][s]) + counts[p][s]]]

Cycles(counts) == Num(Total(counts, Pmus, <<"ctx", "cycles">>))

\* Mutant of Take: a thread whose CPU cannot be read counts as shared.
TakeGuesses(t) ==
    /\ t \in todo /\ todo' = todo \ {t}
    /\ all' = Accum(all, rows[t])
    /\ \E where \in IF split THEN {"iso", "shr", "unknown"} ELSE {"unknown"} :
          /\ class' = [class EXCEPT ![t] = where]
          /\ iso' = IF where = "iso" THEN Accum(iso, rows[t]) ELSE iso
          /\ shr' = IF where # "iso" THEN Accum(shr, rows[t]) ELSE shr
          /\ totCyc' = IF where = "unknown" THEN totCyc ELSE totCyc + Cycles(rows[t])
          /\ isoCyc' = IF where = "iso" THEN isoCyc + Cycles(rows[t]) ELSE isoCyc
    /\ UNCHANGED <<screen, split, rows, shown, systemVars>>

\* Mutant of Take: the share is taken of the shared cycles, not of them all.
TakeTotalOfShared(t) ==
    /\ t \in todo /\ todo' = todo \ {t}
    /\ all' = Accum(all, rows[t])
    /\ \E where \in IF split THEN {"iso", "shr", "unknown"} ELSE {"unknown"} :
          /\ class' = [class EXCEPT ![t] = where]
          /\ iso' = IF where = "iso" THEN Accum(iso, rows[t]) ELSE iso
          /\ shr' = IF where = "shr" THEN Accum(shr, rows[t]) ELSE shr
          /\ totCyc' = IF where = "shr" THEN totCyc + Cycles(rows[t]) ELSE totCyc
          /\ isoCyc' = IF where = "iso" THEN isoCyc + Cycles(rows[t]) ELSE isoCyc
    /\ UNCHANGED <<screen, split, rows, shown, systemVars>>

\* One thread of the process, in whatever order perf printed them.
Take(t) ==
    /\ t \in todo /\ todo' = todo \ {t}
    /\ all' = Accum(all, rows[t])
    /\ \E where \in IF split THEN {"iso", "shr", "unknown"} ELSE {"unknown"} :
          /\ class' = [class EXCEPT ![t] = where]
          /\ iso' = IF where = "iso" THEN Accum(iso, rows[t]) ELSE iso
          /\ shr' = IF where = "shr" THEN Accum(shr, rows[t]) ELSE shr
          /\ totCyc' = IF where = "unknown" THEN totCyc ELSE totCyc + Cycles(rows[t])
          /\ isoCyc' = IF where = "iso" THEN isoCyc + Cycles(rows[t]) ELSE isoCyc
    /\ UNCHANGED <<screen, split, rows, shown, systemVars>>

\* Instructions that nobody counted are taken as none.
Ipc(counts) ==
    IF Cycles(counts) = 0 THEN None
    ELSE (100 * Num(Total(counts, Pmus, <<"ctx", "instructions">>))) \div Cycles(counts)

\* The share on the cores of the P-core PMU; none where there is no such PMU.
PCoreShare ==
    LET pcyc == IF "cpu_core" \in Pmus THEN Num(all["cpu_core"][<<"ctx", "cycles">>]) ELSE 0
    IN  IF Cycles(all) = 0 THEN None ELSE (100 * pcyc) \div Cycles(all)

IsoShare == IF totCyc = 0 THEN None ELSE (100 * isoCyc) \div totCyc

Derive ==
    /\ screen = "process" /\ todo = {} /\ shown = None
    /\ shown' = [ipc |-> Ipc(all), isoShare |-> IsoShare, pCoreShare |-> PCoreShare,
                 levels    |-> LevelMetrics(all),
                 levelsIso |-> LevelMetrics(iso),
                 levelsShr |-> LevelMetrics(shr)]
    /\ UNCHANGED <<screen, split, rows, todo, class, all, iso, shr, isoCyc, totCyc, systemVars>>

----------------------------------------------------------------------------
(* System-wide. *)

\* deque(maxlen=HISTORY).append
Push(seq, v) ==
    LET s == Append(seq, v) IN
    IF Len(s) > History THEN Tail(s) ELSE s

\* Mutant of Pushed: no point when there is no percentage.
PushedIfAny(hist, counts, field) ==
    [c \in Cells |->
        LET cell == LevelMetric(counts, {c[2]}, c[1]) IN
        IF cell = None \/ cell.pct = None THEN hist[c] ELSE Push(hist[c], Num(cell[field]))]

\* A cell without any counter leaves a gap.
Pushed(hist, counts, field) ==
    [c \in Cells |->
        LET cell == LevelMetric(counts, {c[2]}, c[1]) IN
        IF cell = None THEN hist[c] ELSE Push(hist[c], Num(cell[field]))]

\* A PMU that did not count instructions has no IPC here.
PmuIpc(counts, p) ==
    LET ins == counts[p][<<"ctx", "instructions">>]
        cyc == counts[p][<<"ctx", "cycles">>]
    IN  IF ins = None \/ cyc \in {None, 0} THEN None ELSE (100 * ins) \div cyc

Update ==
    /\ screen = "system" /\ Len(frames) < MaxFrames
    /\ \E counts \in [Pmus -> Readings] :
          /\ frames' = Append(frames, counts)
          /\ snap' = [cells |-> [c \in Cells |-> LevelMetric(counts, {c[2]}, c[1])],
                      ipc   |-> [p \in Pmus |-> PmuIpc(counts, p)]]
          /\ missHist' = Pushed(missHist, counts, "pct")
          /\ accHist' = Pushed(accHist, counts, "access")
    /\ UNCHANGED procVars

\* Mutant of Spark: one step too many.
SparkTooHigh(vals, lo, hi) ==
    [i \in DOMAIN vals |->
        IF lo = hi THEN 0 ELSE (16 * (vals[i] - lo) + (hi - lo)) \div (2 * (hi - lo))]

\* The indices of the eight blocks: int((v - lo) / span * 7 + 0.5).
Spark(vals, lo, hi) ==
    [i \in DOMAIN vals |->
        IF lo = hi THEN 0 ELSE (14 * (vals[i] - lo) + (hi - lo)) \div (2 * (hi - lo))]

Next == (\E t \in Threads : Take(t)) \/ Derive \/ Update

Spec == Init /\ [][Next]_vars

----------------------------------------------------------------------------
(* Properties. *)

BucketsOK ==
    /\ screen \in {"process", "system"} /\ split \in BOOLEAN
    /\ todo \subseteq DOMAIN rows /\ DOMAIN rows \subseteq Threads
    /\ rows \in [DOMAIN rows -> [Pmus -> Readings]]
    /\ class \in [Threads -> {"none", "iso", "shr", "unknown"}]
    /\ all \in Counts /\ iso \in Counts /\ shr \in Counts

Percentages == (0 .. 100) \cup {None}

\* The types of the buckets, the metrics and the histories; the shares
\* of the cycles, on isolated and on P-cores, are shares.
TypeOK ==
    /\ BucketsOK
    /\ isoCyc \in Nat /\ totCyc \in Nat
    /\ shown # None => /\ shown.ipc \in Nat \cup {None}
                       /\ {shown.isoShare, shown.pCoreShare} \subseteq Percentages
    /\ snap # None => snap.ipc \in [Pmus -> Nat \cup {None}]
    /\ \A c \in Cells : missHist[c] \in Seq(Nat) /\ accHist[c] \in Seq(Nat)

\* The sum over every thread and PMU that counted it.
Reference(ts, slot) == SumCounted([tp \in ts \X Pmus |-> rows[tp[1]][tp[2]][slot]])

\* In whatever order the threads come, and whatever counters each of them and
\* each PMU lacks, a level shows the sums over just the threads that are its:
\* what nobody counted is missing, not zero.
SumsOfThreads ==
    shown # None =>
        \A level \in Levels :
            \A b \in { <<shown.levels, Threads>>,
                       <<shown.levelsIso, {t \in Threads : class[t] = "iso"}>>,
                       <<shown.levelsShr, {t \in Threads : class[t] = "shr"}>> } :
                LET acc == Reference(b[2], <<level, "access">>)
                    miss == Reference(b[2], <<level, "miss">>)
                    evi == Reference(b[2], <<level, "evict">>)
                IN  IF {acc, miss, evi} = {None} THEN b[1][level] = None
                    ELSE /\ b[1][level].access = acc
                         /\ b[1][level].miss = miss
                         /\ b[1][level].evict = evi

\* The two classes of core never add up to more than the whole, and to less
\* only when some thread's CPU could not be read.
SplitWithinWhole ==
    \A p \in Pmus, s \in Slots :
        /\ Num(iso[p][s]) + Num(shr[p][s]) <= Num(all[p][s])
        /\ split /\ (\A t \in Threads : class[t] # "unknown") =>
              Num(iso[p][s]) + Num(shr[p][s]) = Num(all[p][s])

Together(counts, level) ==
    \A p \in Pmus :
        LET acc == counts[p][<<level, "access">>]
            miss == counts[p][<<level, "miss">>]
        IN  (acc = None <=> miss = None) /\ Num(miss) <= Num(acc)

\* miss% is a share of the lookups as long as each thread and PMU counts a
\* level's lookups and misses together; sums of counters that are missing here
\* and there may exceed it.
ShareOfLookups ==
    \A level \in Levels :
        /\ shown # None /\ (\A t \in Threads : Together(rows[t], level)) =>
              \A b \in {shown.levels, shown.levelsIso, shown.levelsShr} :
                  b[level] = None \/ b[level].pct \in Percentages
        /\ \A p \in Pmus : (\A i \in 1 .. Len(frames) : Together(frames[i], level)) =>
              \A i \in 1 .. Len(missHist[level, p]) : missHist[level, p][i] \in Percentages

\* The two histories of a cell go together, a point for each of the last frames
\* in which the cell had a counter at all.
HistoriesTogether ==
    \A c \in Cells :
        LET with == {i \in 1 .. Len(frames) : LevelMetric(frames[i], {c[2]}, c[1]) # None}
            n == IF Cardinality(with) < History THEN Cardinality(with) ELSE History
        IN  /\ Len(missHist[c]) = n /\ Len(accHist[c]) = n
            /\ \A i \in with :
                  LET cell == LevelMetric(frames[i], {c[2]}, c[1])
                      age == Cardinality({j \in with : j > i})
                  IN  age < n => /\ missHist[c][n - age] = Num(cell.pct)
                                 /\ accHist[c][n - age] = Num(cell.access)

\* A sparkline spans the blocks: its least value gets the lowest, its greatest
\* the highest, and a greater value never a lower one.
SparkSpans ==
    \A c \in Cells : missHist[c] # <<>> =>
        LET vals == missHist[c]
            lo == Min({vals[i] : i \in DOMAIN vals})
            hi == Max({vals[i] : i \in DOMAIN vals})
            idx == Spark(vals, lo, hi)
        IN  /\ \A i \in DOMAIN vals : idx[i] \in 0 .. 7
            /\ \A i, j \in DOMAIN vals : vals[i] <= vals[j] => idx[i] <= idx[j]
            /\ lo < hi => \A i \in DOMAIN vals :
                  (vals[i] = lo => idx[i] = 0) /\ (vals[i] = hi => idx[i] = 7)
============================================================================
