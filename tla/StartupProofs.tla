--------------------------- MODULE StartupProofs ---------------------------
(***************************************************************************)
(* Where perf is started and what the probe returns, for any CPUs, PMUs   *)
(* and catalogue, and whatever perf answers; and that the CPUs the tool   *)
(* says it is pinned to are those it is pinned to (ReadsBack).            *)
(***************************************************************************)
EXTENDS Startup, FiniteSetTheorems, WellFoundedInduction, TLAPS

Excused == args.noPin \/ args.showEvents \/ pinFailed \/ online \subseteq isolated

\* perf is started after the pinning only, with the affinity that left; before
\* it nothing has failed.
PinInv ==
    /\ pc \in {"detect", "pin"} => spawned = {} /\ ~pinFailed
    /\ pc # "detect" => affinity \subseteq online
    /\ pc = "setup" => spawned = {}
    /\ spawned \subseteq {affinity}
    /\ pc \notin {"detect", "pin"} /\ ~Excused => affinity \cap isolated = {}
    /\ pc = "pin" => ~args.showEvents

\* Until the pinning nothing is said; what is said then is the affinity.
SaidInv ==
    /\ pc \in {"detect", "pin"} => said = <<>>
    /\ RunsWhereItSays

\* The probe has believed only what perf can count, and the channels are made
\* of what it believes.
ProbeInv ==
    /\ pc \in {"detect", "pin", "setup", "probe"} => supported = {} /\ channels = {}
    /\ pc = "one" => channels = {}
    /\ supported \subseteq counts
    /\ channels \subseteq Chosen(supported)

\* As long as perf is in time and names the PMU, an event that has been asked for
\* and counts is believed.
AskedInv ==
    /\ counts \subseteq known \X Pmus
    /\ spawned = {} => pc \notin {"one", "cover", "run", "shown"}
    /\ ~late /\ machine.prefixes /\ spawned # {} =>
          \A c \in counts : c[1] \in Wanted /\ c[1] \notin left => c \in supported

\* Once the probe is over the channels are all that can be chosen, and are printed.
DoneInv ==
    /\ pc = "cover" => channels = Chosen(supported) /\ left = {}
    /\ pc \in {"run", "shown", "exit"} /\ spawned # {} => channels = Chosen(supported) /\ left = {}
    /\ pc = "shown" => \A c \in channels : <<c.event, c.pmu>> \in coverage[c.slot]

IInv == TypeOK /\ PinInv /\ SaidInv /\ ProbeInv /\ AskedInv /\ DoneInv

\* A set of numbers that is not empty has a least element.
LEMMA Least ==
    ASSUME NEW S, S \subseteq Nat, S # {}
    PROVE  \E i \in S : \A j \in S : ~(j < i)
<1>1. IsWellFoundedOn(OpToRel(<, Nat), Nat)
    BY NatLessThanWellFounded
<1>2. PICK i \in S : \A j \in S : ~(<<j, i>> \in OpToRel(<, Nat))
    BY <1>1, WFMin
<1> QED BY <1>2 DEF OpToRel

----------------------------------------------------------------------------
(* What fmt_cpus prints reads back as the set it was given. *)

\* A finite set of numbers that is not empty has a greatest element: of its subsets
\* without one a smallest would have a smaller one without one.
LEMMA Greatest ==
    ASSUME NEW S, S \subseteq Nat, S # {}, IsFiniteSet(S)
    PROVE  \E i \in S : \A j \in S : j <= i
<1> DEFINE Has(T) == \E i \in T : \A j \in T : j <= i
           Bad == {T \in SUBSET S : T # {} /\ ~Has(T)}
<1> SUFFICES ASSUME Bad # {} PROVE FALSE
    OBVIOUS
<1>1. IsWellFoundedOn(StrictSubsetOrdering(S), SUBSET S)
    BY FS_StrictSubsetOrderingWellFounded, FS_FiniteSubsetsOfFinite
<1>2. PICK T \in Bad : \A U \in Bad : ~(<<U, T>> \in StrictSubsetOrdering(S))
    <2>1. Bad \subseteq SUBSET S
        OBVIOUS
    <2> HIDE DEF Bad
    <2> QED BY <1>1, <2>1, WFMin
<1>3. PICK x \in T : TRUE
    BY <1>2
<1> DEFINE U == T \ {x}
<1>4. U \in SUBSET S /\ <<U, T>> \in StrictSubsetOrdering(S)
    BY <1>2, <1>3 DEF StrictSubsetOrdering
<1>5. U \notin Bad
    BY <1>2, <1>4
<1>6. CASE U = {}
    <2>1. T = {x} /\ x \in Nat
        BY <1>2, <1>3, <1>6
    <2> QED BY <1>2, <2>1
<1>7. CASE U # {}
    <2>1. PICK i \in U : \A j \in U : j <= i
        BY <1>4, <1>5, <1>7
    <2>2. i \in Nat /\ x \in Nat /\ i \in T
        BY <1>2, <1>3, <2>1
    <2>3. CASE x <= i
        <3>1. \A j \in T : j <= i
            BY <2>1, <2>3
        <3> QED BY <1>2, <2>2, <3>1
    <2>4. CASE ~(x <= i)
        <3>1. \A j \in T : j <= x
            BY <1>2, <2>1, <2>2, <2>4
        <3> QED BY <1>2, <1>3, <3>1
    <2> QED BY <2>3, <2>4
<1> QED BY <1>6, <1>7

LEMMA Ends ==
    ASSUME NEW S, S \subseteq Nat, S # {}, IsFiniteSet(S)
    PROVE  /\ Min(S) \in S /\ Max(S) \in S
           /\ \A j \in S : Min(S) <= j /\ j <= Max(S)
<1>1. PICK i \in S : \A j \in S : j <= i
    BY Greatest
<1>2. PICK k \in S : \A j \in S : ~(j < k)
    BY Least
<1>3. \A j \in S : i >= j /\ k <= j
    BY <1>1, <1>2
<1> QED BY <1>1, <1>2, <1>3 DEF Min, Max

Ranges == [lo : Nat, hi : Nat]

LEMMA ParseAppend ==
    ASSUME NEW list \in Seq(Ranges), NEW r \in Ranges
    PROVE  Parse(Append(list, r)) = Parse(list) \cup (r.lo .. r.hi)
<1> DEFINE more == Append(list, r)
<1>1. /\ DOMAIN list = 1 .. Len(list) /\ Len(list) \in Nat
      /\ DOMAIN more = 1 .. Len(list) + 1
      /\ \A i \in DOMAIN list : more[i] = list[i]
      /\ more[Len(list) + 1] = r
    OBVIOUS
<1>2. r # Word /\ \A i \in DOMAIN list : list[i] # Word
    <2>1. r \in Ranges /\ \A i \in DOMAIN list : list[i] \in Ranges
        OBVIOUS
    <2>2. Word \notin Ranges
        BY WordAssumption DEF Ranges
    <2> QED BY <2>1, <2>2
<1> HIDE DEF more
<1>3. \A x : x \in Parse(more) <=> \E i \in DOMAIN more : more[i] # Word /\ x \in more[i].lo .. more[i].hi
    BY DEF Parse
<1>4. \A x : x \in Parse(list) <=> \E i \in DOMAIN list : list[i] # Word /\ x \in list[i].lo .. list[i].hi
    BY DEF Parse
<1>5. ASSUME NEW x, x \in Parse(more) PROVE x \in Parse(list) \/ x \in r.lo .. r.hi
    <2>1. PICK i \in DOMAIN more : x \in more[i].lo .. more[i].hi
        BY <1>3, <1>5
    <2>2. i \in DOMAIN list \/ i = Len(list) + 1
        BY <1>1, <2>1
    <2> QED BY <1>1, <1>2, <1>4, <2>1, <2>2
<1>6. ASSUME NEW x, x \in Parse(list) PROVE x \in Parse(more)
    <2>1. PICK i \in DOMAIN list : x \in list[i].lo .. list[i].hi
        BY <1>4, <1>6
    <2>2. i \in DOMAIN more /\ more[i] = list[i]
        BY <1>1, <2>1
    <2> QED BY <1>2, <1>3, <2>1, <2>2
<1>7. ASSUME NEW x, x \in r.lo .. r.hi PROVE x \in Parse(more)
    <2>1. Len(list) + 1 \in DOMAIN more
        BY <1>1
    <2> QED BY <1>1, <1>2, <1>3, <1>7, <2>1
<1>8. Parse(more) = Parse(list) \cup (r.lo .. r.hi)
    BY <1>5, <1>6, <1>7
<1> QED BY <1>8 DEF more

\* One round of the loop of fmt_cpus, and a loop up to k.
Round(after, S, n) ==
    IF n <= Min(S) THEN [parts |-> <<>>, start |-> Min(S), prev |-> Min(S)]
    ELSE IF n \in S THEN Longer(after[n - 1], n)
    ELSE after[n - 1]

Loops(after, S, k) == after = [n \in 0 .. k |-> Round(after, S, n)]

\* What is behind the loop at n: the ranges that are closed and the one at hand
\* hold the numbers of S up to n.
Behind(r, S, n) ==
    /\ r \in [parts : Seq(Ranges), start : Nat, prev : Nat]
    /\ r.start <= r.prev
    /\ Parse(r.parts) \cup (r.start .. r.prev) = {x \in S : x <= n}

LEMMA LoopsExist ==
    ASSUME NEW S, S \subseteq Nat, S # {}, IsFiniteSet(S), NEW k \in Nat
    PROVE  \E after : Loops(after, S, k)
<1> DEFINE Bad == {i \in Nat : ~\E after : Loops(after, S, i)}
<1> SUFFICES ASSUME Bad # {} PROVE FALSE
    OBVIOUS
<1>1. PICK i \in Bad : \A j \in Bad : ~(j < i)
    <2>1. Bad \subseteq Nat
        OBVIOUS
    <2> HIDE DEF Bad
    <2> QED BY <2>1, Least
<1>2. Min(S) \in Nat
    BY Ends
<1>3. CASE i = 0
    <2> DEFINE G == [n \in 0 .. 0 |-> [parts |-> <<>>, start |-> Min(S), prev |-> Min(S)]]
    <2>1. \A n \in 0 .. 0 : Round(G, S, n) = G[n]
        BY <1>2 DEF Round
    <2>2. G = [n \in 0 .. 0 |-> Round(G, S, n)]
        BY <2>1
    <2> QED BY <1>1, <1>3, <2>2 DEF Loops
<1>4. CASE i # 0
    <2>1. i - 1 \in Nat /\ i - 1 < i /\ i - 1 \notin Bad
        BY <1>1, <1>4
    <2>2. PICK G : Loops(G, S, i - 1)
        BY <2>1
    <2>3. \A n \in 0 .. i - 1 : G[n] = Round(G, S, n)
        BY <2>2 DEF Loops
    <2> DEFINE H == [n \in 0 .. i |-> IF n = i THEN Round(G, S, i) ELSE G[n]]
    <2>4. ASSUME NEW n \in 0 .. i PROVE H[n] = Round(H, S, n)
        <3>1. H[n] = Round(G, S, n)
            BY <2>1, <2>3
        <3>2. CASE n <= Min(S)
            BY <3>1, <3>2 DEF Round
        <3>3. CASE ~(n <= Min(S))
            <4>1. n - 1 \in 0 .. i /\ n - 1 # i
                BY <1>2, <2>1, <3>3
            <4>2. H[n - 1] = G[n - 1]
                BY <4>1
            <4> QED BY <3>1, <4>2 DEF Round
        <3> QED BY <3>2, <3>3
    <2>5. H = [n \in 0 .. i |-> H[n]]
        OBVIOUS
    <2> HIDE DEF H
    <2>6. Loops(H, S, i)
        BY <2>4, <2>5 DEF Loops
    <2> QED BY <1>1, <2>6
<1> QED BY <1>3, <1>4

LEMMA LongerBehind ==
    ASSUME NEW S, S \subseteq Nat, NEW n \in S, NEW r, n > 0, Behind(r, S, n - 1)
    PROVE  Behind(Longer(r, n), S, n)
<1>1. n \in Nat /\ {x \in S : x <= n} = {x \in S : x <= n - 1} \cup {n}
    <2>1. n \in Nat /\ \A x \in S : x <= n <=> x <= n - 1 \/ x = n
        OBVIOUS
    <2> QED BY <2>1
<1>2. /\ r \in [parts : Seq(Ranges), start : Nat, prev : Nat]
      /\ r.start <= r.prev
      /\ Parse(r.parts) \cup (r.start .. r.prev) = {x \in S : x <= n - 1}
    BY DEF Behind
<1>3. CASE n = r.prev + 1
    <2> DEFINE q == [r EXCEPT !.prev = n]
    <2>1. /\ q \in [parts : Seq(Ranges), start : Nat, prev : Nat]
          /\ q.parts = r.parts /\ q.start = r.start /\ q.prev = n
        BY <1>1, <1>2
    <2>2. r.start .. n = (r.start .. r.prev) \cup {n}
        BY <1>2, <1>3
    <2>3. Longer(r, n) = q
        BY <1>3 DEF Longer
    <2> HIDE DEF q
    <2>4. Parse(q.parts) \cup (q.start .. q.prev) = {x \in S : x <= n}
        BY <1>1, <1>2, <2>1, <2>2
    <2>5. q.start <= q.prev
        BY <1>1, <1>2, <1>3, <2>1
    <2> QED BY <2>1, <2>3, <2>4, <2>5 DEF Behind
<1>4. CASE n # r.prev + 1
    <2> DEFINE c == [lo |-> r.start, hi |-> r.prev]
               q == [parts |-> Append(r.parts, c), start |-> n, prev |-> n]
    <2>1. c \in Ranges /\ r.parts \in Seq(Ranges)
        BY <1>2 DEF Ranges
    <2>2. Longer(r, n) = q
        BY <1>4 DEF Longer
    <2>3. Parse(Append(r.parts, c)) = Parse(r.parts) \cup (r.start .. r.prev)
        <3>1. c.lo = r.start /\ c.hi = r.prev
            OBVIOUS
        <3> HIDE DEF c
        <3> QED BY <2>1, <3>1, ParseAppend
    <2>4. n .. n = {n}
        BY <1>1
    <2>5. q \in [parts : Seq(Ranges), start : Nat, prev : Nat]
        <3>1. Append(r.parts, c) \in Seq(Ranges)
            <4> HIDE DEF c
            <4> QED BY <2>1
        <3> QED BY <1>1, <3>1
    <2>6. Parse(q.parts) \cup (q.start .. q.prev) = {x \in S : x <= n}
        <3>1. q.parts = Append(r.parts, c) /\ q.start = n /\ q.prev = n
            OBVIOUS
        <3> HIDE DEF q, c
        <3> QED BY <1>1, <1>2, <2>3, <2>4, <3>1
    <2>7. q.start <= q.prev
        BY <1>1
    <2> HIDE DEF q
    <2> QED BY <2>2, <2>5, <2>6, <2>7 DEF Behind
<1> QED BY <1>3, <1>4

\* At every number from the least on, the loop has all that is behind it.
LEMMA LoopsBehind ==
    ASSUME NEW S, S \subseteq Nat, S # {}, IsFiniteSet(S),
           NEW k \in Nat, NEW after, Loops(after, S, k),
           NEW i \in 0 .. k, Min(S) <= i
    PROVE  Behind(after[i], S, i)
<1> DEFINE Bad == {n \in 0 .. k : Min(S) <= n /\ ~Behind(after[n], S, n)}
<1> SUFFICES ASSUME Bad # {} PROVE FALSE
    OBVIOUS
<1>1. PICK n \in Bad : \A j \in Bad : ~(j < n)
    <2>1. Bad \subseteq Nat
        OBVIOUS
    <2> HIDE DEF Bad
    <2> QED BY <2>1, Least
<1>2. Min(S) \in S /\ Min(S) \in Nat /\ \A j \in S : Min(S) <= j
    BY Ends
<1>3. after[n] = Round(after, S, n)
    BY <1>1 DEF Loops
<1>4. CASE n = Min(S)
    <2> DEFINE r == [parts |-> <<>>, start |-> n, prev |-> n]
    <2>1. after[n] = r
        BY <1>2, <1>3, <1>4 DEF Round
    <2>2. {x \in S : x <= n} = {n} /\ n .. n = {n} /\ n \in Nat
        <3>1. n \in S /\ n \in Nat /\ \A x \in S : x <= n <=> x = n
            BY <1>2, <1>4
        <3>2. {x \in S : x <= n} = {n}
            BY <3>1
        <3> QED BY <3>1, <3>2
    <2>3. Parse(<<>>) = {}
        BY DEF Parse
    <2>4. Behind(r, S, n)
        BY <2>2, <2>3 DEF Behind
    <2> QED BY <1>1, <2>1, <2>4
<1>5. CASE n # Min(S)
    <2>1. n \in Nat /\ n - 1 \in 0 .. k /\ Min(S) <= n - 1 /\ n > 0 /\ ~(n <= Min(S))
        BY <1>1, <1>2, <1>5
    <2>2. Behind(after[n - 1], S, n - 1)
        BY <1>1, <2>1
    <2>3. CASE n \in S
        <3>1. after[n] = Longer(after[n - 1], n)
            BY <1>3, <2>1, <2>3 DEF Round
        <3>2. Behind(Longer(after[n - 1], n), S, n)
            BY <2>1, <2>2, <2>3, LongerBehind
        <3> QED BY <1>1, <3>1, <3>2
    <2>4. CASE n \notin S
        <3>1. after[n] = after[n - 1]
            BY <1>3, <2>1, <2>4 DEF Round
        <3>2. {x \in S : x <= n} = {x \in S : x <= n - 1}
            <4>1. \A x \in S : x <= n <=> x <= n - 1
                BY <2>1, <2>4
            <4> QED BY <4>1
        <3>3. Behind(after[n - 1], S, n)
            BY <2>2, <3>2 DEF Behind
        <3> QED BY <1>1, <3>1, <3>3
    <2> QED BY <2>3, <2>4
<1> QED BY <1>4, <1>5

\* topology.py: what fmt_cpus makes of a set of CPUs, _parse_cpu_list reads back as
\* the same set; the loop's ranges and the one it closes at the end hold all of it.
THEOREM ReadsBack ==
    ASSUME NEW S, S \subseteq Nat, S # {}, IsFiniteSet(S)
    PROVE  Parse(Formatted(S)) = S
<1> DEFINE k == Max(S)
           after == CHOOSE g : Loops(g, S, k)
           end == after[k]
           last == [lo |-> end.start, hi |-> end.prev]
<1>1. k \in Nat /\ Min(S) <= k /\ \A x \in S : x <= k
    BY Ends
<1>2. Formatted(S) = Append(end.parts, last)
    BY DEF Formatted, Loops, Round
<1>3. Loops(after, S, k)
    <2>1. \E g : Loops(g, S, k)
        <3> HIDE DEF k
        <3> QED BY <1>1, LoopsExist
    <2> QED BY <2>1
<1> HIDE DEF k, after
<1>4. Behind(end, S, k)
    <2>1. k \in 0 .. k
        BY <1>1
    <2> QED BY <1>1, <1>3, <2>1, LoopsBehind
<1> HIDE DEF end
<1>5. end.parts \in Seq(Ranges) /\ last \in Ranges
    BY <1>4 DEF Behind, Ranges
<1>6. last.lo = end.start /\ last.hi = end.prev
    OBVIOUS
<1> HIDE DEF last
<1>7. Parse(Append(end.parts, last)) = Parse(end.parts) \cup (last.lo .. last.hi)
    BY <1>5, ParseAppend
<1>8. {x \in S : x <= k} = S
    BY <1>1
<1> QED BY <1>2, <1>4, <1>6, <1>7, <1>8 DEF Behind

----------------------------------------------------------------------------
(* The startup. *)

\* A channel is one candidate that was found, and no earlier one of its slot was.
LEMMA ChosenFacts ==
    ASSUME NEW found, NEW c \in Chosen(found)
    PROVE  \E i \in Candidates, p \in Pmus :
              /\ c = [slot |-> Catalog[i].slot, event |-> Catalog[i].event, pmu |-> p]
              /\ <<Catalog[i].event, p>> \in found
              /\ \A j \in Candidates :
                    j < i /\ Catalog[j].slot = Catalog[i].slot =>
                        <<Catalog[j].event, p>> \notin found
<1>1. PICK ip \in Firsts(found) :
          c = [slot |-> Catalog[ip[1]].slot, event |-> Catalog[ip[1]].event, pmu |-> ip[2]]
    BY DEF Chosen
<1>2. ip \in Candidates \X Pmus
    BY DEF Firsts
<1>3. ip[1] \in Candidates /\ ip[2] \in Pmus
    BY <1>2
<1>4. /\ <<Catalog[ip[1]].event, ip[2]>> \in found
      /\ \A j \in Candidates :
            j < ip[1] /\ Catalog[j].slot = Catalog[ip[1]].slot =>
                <<Catalog[j].event, ip[2]>> \notin found
    BY DEF Firsts
<1> QED BY <1>1, <1>3, <1>4

LEMMA ChosenType ==
    ASSUME NEW found
    PROVE  Chosen(found) \subseteq [slot : Slots, event : Events, pmu : Pmus]
<1> SUFFICES ASSUME NEW c \in Chosen(found)
             PROVE  c \in [slot : Slots, event : Events, pmu : Pmus]
    OBVIOUS
<1>1. PICK i \in Candidates, p \in Pmus :
          c = [slot |-> Catalog[i].slot, event |-> Catalog[i].event, pmu |-> p]
    BY ChosenFacts
<1> QED BY <1>1 DEF Candidates, Slots, Events

\* Per slot and PMU there is one first.
LEMMA ChosenUnique ==
    ASSUME NEW found, NEW c \in Chosen(found), NEW d \in Chosen(found),
           c.slot = d.slot, c.pmu = d.pmu
    PROVE  c = d
<1>1. PICK i \in Candidates, p \in Pmus :
          /\ c = [slot |-> Catalog[i].slot, event |-> Catalog[i].event, pmu |-> p]
          /\ <<Catalog[i].event, p>> \in found
          /\ \A j \in Candidates :
                j < i /\ Catalog[j].slot = Catalog[i].slot => <<Catalog[j].event, p>> \notin found
    BY ChosenFacts
<1>2. PICK k \in Candidates, q \in Pmus :
          /\ d = [slot |-> Catalog[k].slot, event |-> Catalog[k].event, pmu |-> q]
          /\ <<Catalog[k].event, q>> \in found
          /\ \A j \in Candidates :
                j < k /\ Catalog[j].slot = Catalog[k].slot => <<Catalog[j].event, q>> \notin found
    BY ChosenFacts
<1>3. p = q /\ Catalog[i].slot = Catalog[k].slot
    BY <1>1, <1>2
<1>4. i \in Nat /\ k \in Nat
    BY CatalogAssumption DEF Candidates
<1>5. ~(i < k) /\ ~(k < i)
    BY <1>1, <1>2, <1>3
<1>6. i = k
    BY <1>4, <1>5
<1> QED BY <1>1, <1>2, <1>3, <1>6

\* What perf says it counts, it counts; and it says so of all that was asked for,
\* when it is in time, names the PMU and does not abort.
LEMMA AnswersFacts ==
    ASSUME NEW E, NEW found, Asks(E, found), counts \subseteq known \X Pmus
    PROVE  /\ found \subseteq counts
           /\ spawned' = spawned \cup {affinity}
           /\ late' = late \/ late' = TRUE
           /\ late' # TRUE /\ machine.prefixes =>
                 \/ \A c \in counts : c[1] \in E => c \in found
                 \/ found = {} /\ ~(E \subseteq known)
<1>1. CASE found = {} /\ late' = TRUE
    BY <1>1 DEF Asks
<1>2. CASE found \in Answers(E) /\ late' = late
    <2>1. found \subseteq counts
        BY <1>2 DEF Answers, Parsed
    <2>2. found = Parsed(E) \/ (found = {} /\ ~(E \subseteq known))
        BY <1>2 DEF Answers
    <2>3. machine.prefixes => \A c \in counts : c[1] \in E => c \in Parsed(E)
        BY DEF Parsed
    <2> QED BY <1>2, <2>1, <2>2, <2>3 DEF Asks
<1> QED BY <1>1, <1>2 DEF Asks

LEMMA AfterFacts ==
    ASSUME NEW found
    PROVE  After(found) \in {"exit", "cover", "run"}
BY DEF After

LEMMA InitIInv == Init => IInv
<1> SUFFICES ASSUME Init PROVE IInv
    OBVIOUS
<1>1. TypeOK
    BY CpusAssumption DEF Init, TypeOK, NoCoverage
<1>2. PinInv /\ SaidInv /\ ProbeInv /\ AskedInv /\ DoneInv
    BY DEF Init, PinInv, SaidInv, RunsWhereItSays, ProbeInv, AskedInv, DoneInv
<1> QED BY <1>1, <1>2 DEF IInv

LEMMA DetectIInv == IInv /\ Detect => IInv'
<1> SUFFICES ASSUME IInv, Detect PROVE IInv'
    OBVIOUS
<1> USE DEF IInv, Detect, given, history
<1>1. PICK on \in Lists, sysfs \in Lists, nohz \in Lists, cmdline \in Lists :
          /\ online' = IF Parse(on) = {} THEN Cpus ELSE Parse(on)
          /\ isolated' = Isolated(online', Parse(sysfs), Parse(nohz), Parse(cmdline))
          /\ affinity' = online'
    OBVIOUS
<1>2. /\ online' \in (SUBSET Cpus) \ {{}} /\ isolated' \subseteq Cpus
      /\ affinity' = online'
    BY <1>1, ListsAssumption, CpusAssumption DEF Isolated
<1>3. TypeOK'
    BY <1>2 DEF TypeOK, CapsOK
<1>4. PinInv'
    BY <1>2 DEF PinInv, Excused
<1>5. ProbeInv'
    <2>1. channels' = {} /\ supported' = {}
        BY DEF ProbeInv
    <2> QED BY <2>1 DEF ProbeInv
<1>6. AskedInv' /\ DoneInv'
    BY DEF PinInv, AskedInv, DoneInv
<1>7. SaidInv'
    BY DEF SaidInv, RunsWhereItSays
<1> QED BY <1>3, <1>4, <1>5, <1>6, <1>7

LEMMA ApplyAffinityIInv == IInv /\ ApplyAffinity => IInv'
<1> SUFFICES ASSUME IInv, ApplyAffinity PROVE IInv'
    OBVIOUS
<1> USE DEF IInv, ApplyAffinity, given, topo, history, pinning
<1>1. /\ Housekeeping \subseteq online
      /\ online # {} => Housekeeping # {}
      /\ ~(online \subseteq isolated) => Housekeeping \cap isolated = {}
    BY DEF Housekeeping
<1>2. online # {} /\ online \subseteq Cpus
    BY DEF TypeOK
<1>3. affinity' = affinity \/ affinity' = Housekeeping
    OBVIOUS
<1>4. TypeOK'
    BY <1>1, <1>2, <1>3 DEF TypeOK, CapsOK
<1>5. PinInv'
    BY <1>1, <1>3 DEF PinInv, Excused, Unpinned
<1>6. ProbeInv'
    <2>1. channels' = {} /\ supported' = {}
        BY DEF ProbeInv
    <2> QED BY <2>1 DEF ProbeInv
<1>7. AskedInv' /\ DoneInv'
    BY DEF PinInv, AskedInv, DoneInv
<1>8. SaidInv'
    <2>1. said = <<>> /\ pc' \notin {"detect", "pin"}
        BY DEF SaidInv
    <2>2. CASE said' = said
        BY <2>1, <2>2 DEF SaidInv, RunsWhereItSays
    <2>3. CASE affinity' = Housekeeping /\ said' = Formatted(Housekeeping)
        <3>1. /\ Housekeeping \subseteq Nat /\ Housekeeping # {}
              /\ IsFiniteSet(Housekeeping)
            BY <1>1, <1>2, CpusAssumption, FS_Subset
        <3>2. Parse(Formatted(Housekeeping)) = Housekeeping
            BY <3>1, ReadsBack
        <3>3. Parse(said)' = Parse(said')
            BY DEF Parse
        <3> QED BY <2>1, <2>3, <3>2, <3>3 DEF SaidInv, RunsWhereItSays
    <2> QED BY <2>2, <2>3
<1> QED BY <1>4, <1>5, <1>6, <1>7, <1>8

LEMMA SetupIInv == IInv /\ Setup => IInv'
<1> SUFFICES ASSUME IInv, Setup PROVE IInv'
    OBVIOUS
<1> USE DEF IInv, Setup, topo, history, pinning
<1>1. CapsOK'
    <2>1. isolated \subseteq Cpus /\ machine \in Machines
        BY DEF TypeOK
    <2>2. machine.perf \in BOOLEAN /\ machine.devices \subseteq Devices
        BY <2>1, MachinesAssumption
    <2>3. CorePmus # {} /\ CorePmus \subseteq {"cpu"} \cup {d.name : d \in Devices}
        BY <2>2 DEF CorePmus
    <2> QED BY <2>1, <2>2, <2>3 DEF CapsOK, Vendor, Vendors
<1>2. /\ known' \subseteq Events /\ counts' \subseteq Events \X Pmus
      /\ counts' \subseteq known' \X Pmus
      /\ pc' \in {"probe", "exit"}
    <2>1. CASE UNCHANGED <<known, counts>> /\ pc' = "exit"
        BY <2>1 DEF TypeOK, AskedInv
    <2>2. CASE known' \in SUBSET Events /\ counts' \in SUBSET (known' \X Pmus) /\ pc' = "probe"
        BY <2>2
    <2> QED BY <2>1, <2>2
<1>3. TypeOK'
    BY <1>1, <1>2 DEF TypeOK
<1>4. PinInv'
    BY <1>2 DEF PinInv, Excused
<1>5. ProbeInv'
    <2>1. channels' = {} /\ supported' = {}
        BY DEF ProbeInv
    <2> QED BY <1>2, <2>1 DEF ProbeInv
<1>6. AskedInv' /\ DoneInv'
    BY <1>2 DEF PinInv, AskedInv, DoneInv
<1>7. SaidInv'
    BY DEF SaidInv, RunsWhereItSays, Parse, pinning
<1> QED BY <1>3, <1>4, <1>5, <1>6, <1>7

LEMMA ProbeAllIInv == IInv /\ ProbeAll => IInv'
<1> SUFFICES ASSUME IInv, ProbeAll PROVE IInv'
    OBVIOUS
<1> USE DEF IInv
<1>1. PICK found \in SUBSET (Wanted \X Pmus) :
          /\ Asks(Wanted, found)
          /\ supported' = found
          /\ left' = Retried(found)
          /\ channels' = IF left' = {} THEN Chosen(found) ELSE {}
          /\ pc' = IF left' = {} THEN After(found) ELSE "one"
    BY DEF ProbeAll
<1>2. pc = "probe" /\ UNCHANGED <<given, topo, pinning, caps, coverage>>
    BY DEF ProbeAll
<1>3. /\ found \subseteq counts
      /\ spawned' = spawned \cup {affinity} /\ late' \in BOOLEAN
      /\ ~late' /\ machine.prefixes =>
            found = {} \/ \A c \in counts : c[1] \in Wanted => c \in found
    BY <1>1, AnswersFacts DEF TypeOK, AskedInv
<1>4. pc' \in {"exit", "cover", "run", "one"} /\ (pc' = "one" <=> left' # {})
    BY <1>1, AfterFacts
<1>5. Wanted \subseteq Events
    BY DEF Wanted, Candidates, Events
<1>6. TypeOK'
    <2>1. channels' \subseteq [slot : Slots, event : Events, pmu : Pmus]
        BY <1>1, ChosenType
    <2>2. supported' \subseteq Events \X Pmus /\ left' \subseteq Events
        BY <1>1, <1>5 DEF Retried
    <2> QED BY <1>2, <1>3, <1>4, <2>1, <2>2 DEF TypeOK, CapsOK, given, topo, pinning
<1>7. PinInv'
    BY <1>2, <1>3, <1>4 DEF PinInv, Excused, given, topo, pinning
<1>8. Chosen(found)' = Chosen(found) /\ Chosen(supported)' = Chosen(found) /\ Wanted' = Wanted
    BY <1>1, <1>2 DEF Chosen, Firsts, Wanted, Candidates, given
<1>9. ProbeInv'
    <2>1. channels' \subseteq Chosen(supported)'
        BY <1>1, <1>8
    <2>2. pc' = "one" => channels' = {}
        BY <1>1, AfterFacts
    <2> QED BY <1>1, <1>2, <1>3, <1>4, <2>1, <2>2 DEF ProbeInv, given
<1>10. AskedInv'
    <2>1. found = {} => left' = Wanted
        BY <1>1 DEF Retried
    <2> QED BY <1>1, <1>2, <1>3, <1>4, <1>8, <2>1 DEF AskedInv, given
<1>11. DoneInv'
    BY <1>1, <1>4, <1>8 DEF DoneInv
<1>12. SaidInv'
    BY <1>2, <1>4 DEF SaidInv, RunsWhereItSays, Parse, pinning
<1> QED BY <1>6, <1>7, <1>9, <1>10, <1>11, <1>12

LEMMA ProbeOneIInv == IInv /\ ProbeOne => IInv'
<1> SUFFICES ASSUME IInv, ProbeOne PROVE IInv'
    OBVIOUS
<1> USE DEF IInv
<1> DEFINE e == CHOOSE x \in left : TRUE
<1>1. PICK found \in SUBSET ({e} \X Pmus) :
          /\ Asks({e}, found)
          /\ supported' = supported \cup found
          /\ left' = left \ {e}
    BY DEF ProbeOne
<1>2. /\ pc = "one" /\ pc' = "one" /\ channels' = channels
      /\ e \in left
      /\ UNCHANGED <<given, topo, pinning, caps, coverage>>
    BY DEF ProbeOne
<1> HIDE DEF e
<1>3. /\ found \subseteq counts
      /\ spawned' = spawned \cup {affinity} /\ late' \in BOOLEAN
      /\ late' = late \/ late' = TRUE
      /\ ~late' /\ machine.prefixes => \A c \in counts : c[1] = e => c \in found
    <2>1. counts \subseteq known \X Pmus /\ late \in BOOLEAN
        BY DEF TypeOK, AskedInv
    <2>2. /\ found \subseteq counts
          /\ spawned' = spawned \cup {affinity}
          /\ late' = late \/ late' = TRUE
          /\ late' # TRUE /\ machine.prefixes =>
                \/ \A c \in counts : c[1] \in {e} => c \in found
                \/ found = {} /\ ~({e} \subseteq known)
        <3> DEFINE one == {e}
        <3>1. Asks(one, found)
            BY <1>1
        <3> HIDE DEF one, IInv
        <3>2. /\ found \subseteq counts
              /\ spawned' = spawned \cup {affinity}
              /\ late' = late \/ late' = TRUE
              /\ late' # TRUE /\ machine.prefixes =>
                    \/ \A c \in counts : c[1] \in one => c \in found
                    \/ found = {} /\ ~(one \subseteq known)
            BY <2>1, <3>1, AnswersFacts
        <3> QED BY <3>2 DEF one
    <2>3. e \notin known => \A c \in counts : c[1] # e
        BY <2>1
    <2>4. late' \in BOOLEAN
        BY <2>1, <2>2
    <2>5. ASSUME ~late', machine.prefixes, NEW c \in counts, c[1] = e PROVE c \in found
        <3>1. e \in known
            BY <2>3, <2>5
        <3>2. late' # TRUE
            BY <2>5
        <3> QED BY <2>2, <2>5, <3>1, <3>2
    <2> QED BY <2>2, <2>4, <2>5
<1>4. TypeOK'
    <2>1. e \in Events /\ found \subseteq Events \X Pmus
        BY <1>1, <1>2 DEF TypeOK
    <2> QED BY <1>1, <1>2, <1>3, <2>1 DEF TypeOK, CapsOK, given, topo, pinning
<1>5. PinInv'
    BY <1>2, <1>3 DEF PinInv, Excused, given, topo, pinning
<1>6. ProbeInv'
    BY <1>1, <1>2, <1>3 DEF ProbeInv, given
<1>7. AskedInv'
    <2>1. Wanted' = Wanted /\ counts' = counts /\ known' = known /\ machine' = machine
        BY <1>2 DEF Wanted, Candidates, given
    <2>2. spawned # {}
        BY <1>2 DEF AskedInv
    <2>3. ASSUME ~late', machine.prefixes, NEW c \in counts, c[1] \in Wanted, c[1] \notin left'
          PROVE  c \in supported'
        <3>1. CASE c[1] = e
            BY <1>1, <1>3, <2>3, <3>1
        <3>2. CASE c[1] \notin left
            BY <1>1, <1>3, <2>2, <2>3, <3>2 DEF AskedInv
        <3> QED BY <1>1, <2>3, <3>1, <3>2
    <2> QED BY <1>3, <2>1, <2>3 DEF AskedInv
<1>8. DoneInv'
    BY <1>2 DEF DoneInv
<1>9. SaidInv'
    BY <1>2 DEF SaidInv, RunsWhereItSays, Parse, pinning
<1> QED BY <1>4, <1>5, <1>6, <1>7, <1>8, <1>9

LEMMA ProbeDoneIInv == IInv /\ ProbeDone => IInv'
<1> SUFFICES ASSUME IInv, ProbeDone PROVE IInv'
    OBVIOUS
<1> USE DEF IInv, ProbeDone, given, topo, history, pinning
<1>1. pc' \in {"exit", "cover", "run"}
    BY AfterFacts
<1>2. TypeOK'
    BY <1>1, ChosenType DEF TypeOK, CapsOK
<1>3. PinInv'
    BY <1>1 DEF PinInv, Excused
<1>4. Chosen(supported)' = Chosen(supported) /\ Wanted' = Wanted
    BY DEF Chosen, Firsts, Wanted, Candidates
<1>5. ProbeInv'
    BY <1>1, <1>4 DEF ProbeInv
<1>6. AskedInv'
    BY <1>4 DEF AskedInv
<1>7. DoneInv'
    BY <1>1, <1>4 DEF DoneInv
<1>8. SaidInv'
    BY <1>1 DEF SaidInv, RunsWhereItSays, Parse, pinning
<1> QED BY <1>2, <1>3, <1>5, <1>6, <1>7, <1>8

LEMMA PrintIInv == IInv /\ PrintEventCoverage => IInv'
<1> SUFFICES ASSUME IInv, PrintEventCoverage PROVE IInv'
    OBVIOUS
<1> USE DEF IInv, PrintEventCoverage, given, topo, history, pinning
<1>1. Chosen(supported)' = Chosen(supported) /\ Wanted' = Wanted
    BY DEF Chosen, Firsts, Wanted, Candidates
<1>2. channels \subseteq [slot : Slots, event : Events, pmu : Pmus]
    BY DEF TypeOK
<1>3. Expected \subseteq Slots
    BY DEF Expected, Candidates, Slots
<1>4. TypeOK'
    BY <1>2, <1>3 DEF TypeOK, CapsOK
<1>5. PinInv'
    BY DEF PinInv, Excused
<1>6. ProbeInv'
    BY <1>1 DEF ProbeInv
<1>7. AskedInv'
    BY <1>1 DEF AskedInv
<1>8. DoneInv'
    <2>0. channels = Chosen(supported)
        BY DEF DoneInv
    <2>1. ASSUME NEW c \in channels PROVE <<c.event, c.pmu>> \in coverage'[c.slot]
        <3>1. PICK i \in Candidates, p \in Pmus :
                  c = [slot |-> Catalog[i].slot, event |-> Catalog[i].event, pmu |-> p]
            BY <2>0, ChosenFacts
        <3>2. c.slot \in Expected
            BY <3>1 DEF Expected
        <3> QED BY <3>2
    <2> QED BY <1>1, <2>1 DEF DoneInv
<1>9. SaidInv'
    BY DEF SaidInv, RunsWhereItSays, Parse, pinning
<1> QED BY <1>4, <1>5, <1>6, <1>7, <1>8, <1>9

LEMMA NextIInv == IInv /\ [Next]_vars => IInv'
<1> SUFFICES ASSUME IInv, [Next]_vars PROVE IInv'
    OBVIOUS
<1>1. CASE Next
    BY <1>1, DetectIInv, ApplyAffinityIInv, SetupIInv, ProbeAllIInv, ProbeOneIInv,
       ProbeDoneIInv, PrintIInv DEF Next
<1>2. CASE UNCHANGED vars
    <2> USE <1>2 DEF vars, given, topo, pinning, history
    <2>1. /\ Chosen(supported)' = Chosen(supported) /\ Wanted' = Wanted
        BY DEF Chosen, Firsts, Wanted, Candidates
    <2>2. TypeOK' = TypeOK
        BY DEF TypeOK, CapsOK
    <2>3. PinInv' = PinInv /\ SaidInv' = SaidInv /\ ProbeInv' = ProbeInv
        BY <2>1 DEF PinInv, Excused, SaidInv, RunsWhereItSays, Parse, ProbeInv
    <2>4. AskedInv' = AskedInv /\ DoneInv' = DoneInv
        BY <2>1 DEF AskedInv, DoneInv
    <2> QED BY <2>2, <2>3, <2>4 DEF IInv
<1> QED BY <1>1, <1>2

\* The strengthening is an invariant of the startup.
THEOREM Inductive == Spec => []IInv
BY InitIInv, NextIInv, PTL DEF Spec

----------------------------------------------------------------------------

\* From main() to the first frame everything keeps its type; in particular the
\* affinity that _apply_affinity sets is never empty and always online.
THEOREM TypeCorrect == Spec => []TypeOK
<1>1. IInv => TypeOK
    BY DEF IInv
<1> QED BY <1>1, Inductive, PTL

\* _apply_affinity keeps every perf of the probe off the isolated CPUs.
THEOREM OffIsolated == Spec => []ChildrenOffIsolated
<1>1. IInv => ChildrenOffIsolated
    BY DEF IInv, PinInv, Excused, ChildrenOffIsolated
<1> QED BY <1>1, Inductive, PTL

\* The list of CPUs that _apply_affinity prints reads back as the affinity it has
\* set: at every number the loop of fmt_cpus has all those behind it in its ranges.
THEOREM SaidTrue == Spec => []RunsWhereItSays
<1>1. IInv => RunsWhereItSays
    BY DEF IInv, SaidInv
<1> QED BY <1>1, Inductive, PTL

\* probe() returns channels that count, one for each slot and PMU.
THEOREM OneCountingChannel == Spec => []ChannelsCount
<1>1. IInv => ChannelsCount
    <2> SUFFICES ASSUME IInv PROVE ChannelsCount
        OBVIOUS
    <2>1. channels \subseteq Chosen(supported) /\ supported \subseteq counts
        BY DEF IInv, ProbeInv
    <2>2. ASSUME NEW c \in channels PROVE <<c.event, c.pmu>> \in counts
        <3>1. PICK i \in Candidates, p \in Pmus :
                  /\ c = [slot |-> Catalog[i].slot, event |-> Catalog[i].event, pmu |-> p]
                  /\ <<Catalog[i].event, p>> \in supported
            BY <2>1, ChosenFacts
        <3> QED BY <2>1, <3>1
    <2>3. ASSUME NEW c \in channels, NEW d \in channels, c.slot = d.slot, c.pmu = d.pmu
          PROVE  c = d
        BY <2>1, <2>3, ChosenUnique
    <2> QED BY <2>2, <2>3 DEF ChannelsCount
<1> QED BY <1>1, Inductive, PTL

\* An event of the vendor that counts on a PMU feeds its slot there, as perf is in
\* time and names the PMU: the least candidate of the slot that was believed is the
\* one that is chosen.
THEOREM GoodOnesFound == Spec => []GoodOnesRegister
<1>1. IInv => GoodOnesRegister
    <2> SUFFICES ASSUME IInv,
                        pc \in {"run", "shown", "exit"}, spawned # {}, ~late, machine.prefixes,
                        NEW i \in Candidates, NEW p \in Pmus, <<Catalog[i].event, p>> \in counts
                 PROVE  \E c \in channels :
                            /\ c.slot = Catalog[i].slot /\ c.pmu = p
                            /\ pc = "shown" => <<c.event, p>> \in coverage[c.slot]
        BY DEF GoodOnesRegister
    <2> DEFINE fit == {j \in Candidates : /\ Catalog[j].slot = Catalog[i].slot
                                          /\ <<Catalog[j].event, p>> \in supported}
    <2>1. channels = Chosen(supported) /\ left = {}
        BY DEF IInv, DoneInv
    <2>2. <<Catalog[i].event, p>> \in supported
        BY <2>1 DEF IInv, AskedInv, Wanted
    <2>3. fit \subseteq Nat /\ fit # {}
        BY <2>2, CatalogAssumption DEF Candidates
    <2>4. PICK k \in fit : \A j \in fit : ~(j < k)
        <3> HIDE DEF fit
        <3> QED BY <2>3, Least
    <2> DEFINE c == [slot |-> Catalog[k].slot, event |-> Catalog[k].event, pmu |-> p]
    <2>5. <<k, p>> \in Firsts(supported)
        BY <2>4 DEF Firsts
    <2>6. c \in channels
        BY <2>1, <2>5 DEF Chosen
    <2>7. pc = "shown" => <<c.event, p>> \in coverage[c.slot]
        BY <2>6 DEF IInv, DoneInv
    <2> QED BY <2>4, <2>6, <2>7
<1> QED BY <1>1, Inductive, PTL
============================================================================
