---------------------------- MODULE ProcUIProofs ----------------------------
(***************************************************************************)
(* The live per-process screen for any processes, frames, metrics, --top  *)
(* and any order of keys, refreshes and the worker's steps: the rows of a *)
(* snapshot are a ranking without gaps, so that there always is a row to  *)
(* go to, and the selection is a row whenever the screen is drawn.        *)
(***************************************************************************)
EXTENDS ProcUI, FiniteSetTheorems, FunctionTheorems, SequenceTheorems, TLAPS

\* R gives what is above each element of S in a strict order.
Orders(R, S) ==
    /\ R \in [S -> SUBSET S]
    /\ \A p \in S : p \notin R[p]
    /\ \A p \in S : \A q \in R[p] : R[q] \subseteq R[p]
    /\ \A p, q \in S : p # q => p \in R[q] \/ q \in R[p]

\* A strict order ranks a finite set: from 1 to the number of elements, no two
\* at one rank, no rank empty.
LEMMA Ranking ==
    ASSUME NEW S, IsFiniteSet(S), NEW R, Orders(R, S)
    PROVE  /\ \A p \in S : 1 + Cardinality(R[p]) \in 1 .. Cardinality(S)
           /\ \A p, q \in S : Cardinality(R[p]) = Cardinality(R[q]) => p = q
           /\ \A k \in 1 .. Cardinality(S) : \E p \in S : 1 + Cardinality(R[p]) = k
<1> DEFINE n == Cardinality(S)
           f == [p \in S |-> 1 + Cardinality(R[p])]
<1> USE DEF Orders
<1>1. n \in Nat
    BY FS_CardinalityType
<1>2. \A p \in S : /\ IsFiniteSet(R[p]) /\ Cardinality(R[p]) \in Nat
                   /\ Cardinality(R[p]) < n
    <2> SUFFICES ASSUME NEW p \in S
                 PROVE  /\ IsFiniteSet(R[p]) /\ Cardinality(R[p]) \in Nat
                        /\ Cardinality(R[p]) < n
        OBVIOUS
    <2>1. IsFiniteSet(S \ {p}) /\ Cardinality(S \ {p}) = n - 1
        BY FS_RemoveElement
    <2>2. R[p] \in SUBSET (S \ {p})
        OBVIOUS
    <2>3. IsFiniteSet(R[p]) /\ Cardinality(R[p]) <= n - 1
        BY <2>1, <2>2, FS_Subset
    <2> QED BY <1>1, <2>3, FS_CardinalityType
<1>3. \A p \in S : \A q \in R[p] : Cardinality(R[q]) < Cardinality(R[p])
    <2> SUFFICES ASSUME NEW p \in S, NEW q \in R[p]
                 PROVE  Cardinality(R[q]) < Cardinality(R[p])
        OBVIOUS
    <2>1. q \in S /\ R[q] \in SUBSET (R[p] \ {q})
        OBVIOUS
    <2>2. IsFiniteSet(R[p] \ {q}) /\ Cardinality(R[p] \ {q}) = Cardinality(R[p]) - 1
        BY <1>2, FS_RemoveElement
    <2>3. Cardinality(R[q]) <= Cardinality(R[p]) - 1
        BY <2>1, <2>2, FS_Subset
    <2> QED BY <1>2, <2>1, <2>3
<1>4. \A p, q \in S : Cardinality(R[p]) = Cardinality(R[q]) => p = q
    BY <1>2, <1>3
<1>5. \A p \in S : 1 + Cardinality(R[p]) \in 1 .. n
    BY <1>1, <1>2
<1>6. f \in Injection(S, 1 .. n)
    <2>1. f \in [S -> 1 .. n]
        BY <1>5
    <2>2. \A p, q \in S : f[p] = f[q] => p = q
        BY <1>2, <1>4
    <2> QED BY <2>1, <2>2, Fun_IsInj
<1>7. IsFiniteSet(1 .. n) /\ Cardinality(1 .. n) = n
    BY <1>1, FS_Interval
<1>8. f \in Surjection(S, 1 .. n)
    BY <1>6, <1>7, FS_Injection
<1>9. \A k \in 1 .. n : \E p \in S : f[p] = k
    <2> HIDE DEF f
    <2> QED BY <1>8 DEF Surjection
<1>10. \A k \in 1 .. n : \E p \in S : 1 + Cardinality(R[p]) = k
    <2> SUFFICES ASSUME NEW k \in 1 .. n PROVE \E p \in S : 1 + Cardinality(R[p]) = k
        OBVIOUS
    <2>1. PICK p \in S : f[p] = k
        BY <1>9
    <2> QED BY <2>1
<1> QED BY <1>4, <1>5, <1>10

\* So does a ranking by any numbers: its first m are m, or all if there are fewer.
LEMMA FirstRanks ==
    ASSUME NEW S, IsFiniteSet(S), NEW r \in [S -> 1 .. Cardinality(S)], NEW m \in Nat,
           \A p, q \in S : r[p] = r[q] => p = q,
           \A k \in 1 .. Cardinality(S) : \E p \in S : r[p] = k
    PROVE  Cardinality({p \in S : r[p] <= m}) = IF m <= Cardinality(S) THEN m ELSE Cardinality(S)
<1> DEFINE D == {p \in S : r[p] <= m}
           k == IF m <= Cardinality(S) THEN m ELSE Cardinality(S)
           f == [p \in D |-> r[p]]
<1>1. Cardinality(S) \in Nat
    BY FS_CardinalityType
<1>2. k \in Nat
    BY <1>1
<1>3. f \in [D -> 1 .. k]
    BY <1>1
<1>4. \A p, q \in D : f[p] = f[q] => p = q
    OBVIOUS
<1>5. \A i \in 1 .. k : \E p \in D : f[p] = i
    BY <1>1
<1>6. f \in Bijection(D, 1 .. k)
    BY <1>3, <1>4, <1>5, Fun_IsBij
<1>7. IsFiniteSet(D)
    BY FS_Subset
<1>8. Cardinality(1 .. k) = Cardinality(D)
    BY <1>6, <1>7, FS_Bijection, Fun_ExistsBij
<1>9. Cardinality(1 .. k) = k
    BY <1>2, FS_Interval
<1> QED BY <1>8, <1>9
----------------------------------------------------------------------------
(* The rows of a snapshot. *)

LEMMA RowFacts ==
    ASSUME NEW s, IsSnap(s), NEW k \in Keys
    PROVE  /\ IsFiniteSet(DOMAIN s.val) /\ DOMAIN s.val \subseteq Pids
           /\ \A p \in DOMAIN s.val : Row(s, k, p) \in 1 .. Cardinality(DOMAIN s.val)
           /\ \A p, q \in DOMAIN s.val : Row(s, k, p) = Row(s, k, q) => p = q
           /\ \A i \in 1 .. Cardinality(DOMAIN s.val) : \E p \in DOMAIN s.val : Row(s, k, p) = i
<1> DEFINE S == DOMAIN s.val
           R == [p \in S |-> {q \in S : Above(s, k, q, p)}]
<1>1. IsFiniteSet(S) /\ S \subseteq Pids /\ Cardinality(S) \in Nat
    BY FramesAssumption, FS_CardinalityType DEF IsSnap
<1>2. \A p \in S : s.val[p][k] \in Nat /\ s.place[p] \in Nat
    BY <1>1, FramesAssumption DEF IsSnap
<1>3. \A p, q \in S : p # q => s.place[p] # s.place[q]
    BY DEF IsSnap
<1>4. R \in [S -> SUBSET S]
    OBVIOUS
<1>5. \A p \in S : p \notin R[p]
    BY <1>2 DEF Above
<1>6. \A p \in S : \A q \in R[p] : R[q] \subseteq R[p]
    BY <1>2 DEF Above
<1>7. \A p, q \in S : p # q => p \in R[q] \/ q \in R[p]
    BY <1>2, <1>3 DEF Above
<1>8. \A p \in S : Row(s, k, p) = 1 + Cardinality(R[p])
    BY DEF Row
<1>9. \A p \in S : Cardinality(R[p]) \in Nat
    BY <1>1, <1>4, FS_Subset, FS_CardinalityType
<1>o. Orders(R, S)
    BY <1>4, <1>5, <1>6, <1>7 DEF Orders
<1> HIDE DEF R
<1>10. /\ \A p \in S : 1 + Cardinality(R[p]) \in 1 .. Cardinality(S)
       /\ \A p, q \in S : Cardinality(R[p]) = Cardinality(R[q]) => p = q
       /\ \A i \in 1 .. Cardinality(S) : \E p \in S : 1 + Cardinality(R[p]) = i
    BY <1>1, <1>o, Ranking
<1>11. \A p, q \in S : Row(s, k, p) = Row(s, k, q) => p = q
    BY <1>8, <1>9, <1>10
<1> QED BY <1>1, <1>8, <1>10, <1>11

\* What is displayed are the rows from 1 on, without a gap.
LEMMA DisplayedFacts ==
    ASSUME NEW s, s = NoSnap \/ IsSnap(s), NEW k \in Keys
    PROVE  /\ Displayed(s, k) \subseteq Pids
           /\ Cardinality(Displayed(s, k)) \in Nat
           /\ Displayed(s, k) # {} => Cardinality(Displayed(s, k)) >= 1
           /\ \A p \in Displayed(s, k) : Row(s, k, p) \in 1 .. Cardinality(Displayed(s, k))
           /\ \A p, q \in Displayed(s, k) : Row(s, k, p) = Row(s, k, q) => p = q
           /\ \A i \in 1 .. Cardinality(Displayed(s, k)) :
                 \E p \in Displayed(s, k) : Row(s, k, p) = i
<1>1. CASE s = NoSnap
    <2>1. Displayed(s, k) = {}
        BY <1>1 DEF Displayed
    <2> QED BY <2>1, FS_EmptySet
<1>2. CASE s # NoSnap
    <2> DEFINE S == DOMAIN s.val
               D == Displayed(s, k)
               r == [p \in S |-> Row(s, k, p)]
               c == Cardinality(D)
    <2>1. IsSnap(s)
        BY <1>2
    <2>2. /\ IsFiniteSet(S) /\ S \subseteq Pids
          /\ r \in [S -> 1 .. Cardinality(S)]
          /\ \A p, q \in S : r[p] = r[q] => p = q
          /\ \A i \in 1 .. Cardinality(S) : \E p \in S : r[p] = i
        BY <2>1, RowFacts
    <2>3. \A p \in S : r[p] = Row(s, k, p)
        OBVIOUS
    <2>4. D = {p \in S : r[p] <= TopN}
        BY <1>2, <2>3 DEF Displayed
    <2>5. TopN \in Nat /\ TopN >= 1 /\ Cardinality(S) \in Nat
        BY <2>2, BoundsAssumption, FS_CardinalityType
    <2> HIDE DEF r
    <2>6. c = IF TopN <= Cardinality(S) THEN TopN ELSE Cardinality(S)
        BY <2>2, <2>4, <2>5, FirstRanks
    <2>7. c \in Nat /\ c <= TopN /\ c <= Cardinality(S)
        BY <2>5, <2>6
    <2>8. \A p \in D : p \in S /\ Row(s, k, p) \in 1 .. c
        BY <2>2, <2>3, <2>4, <2>5, <2>6
    <2>9. \A i \in 1 .. c : \E p \in D : Row(s, k, p) = i
        <3> SUFFICES ASSUME NEW i \in 1 .. c PROVE \E p \in D : Row(s, k, p) = i
            OBVIOUS
        <3>1. i \in 1 .. Cardinality(S) /\ i <= TopN
            BY <2>5, <2>7
        <3>2. PICK p \in S : r[p] = i
            BY <2>2, <3>1
        <3> QED BY <2>3, <2>4, <3>1, <3>2
    <2>10. D # {} => c >= 1
        BY <2>7, <2>8
    <2> QED BY <2>2, <2>3, <2>7, <2>8, <2>9, <2>10
<1> QED BY <1>1, <1>2

LEMMA FirstFacts ==
    ASSUME NEW s, s = NoSnap \/ IsSnap(s), NEW k \in Keys
    PROVE  \/ First(s, k) \in Displayed(s, k)
           \/ First(s, k) = NoPid /\ Displayed(s, k) = {}
<1>1. CASE Displayed(s, k) = {}
    BY <1>1 DEF First
<1>2. CASE Displayed(s, k) # {}
    <2>1. \E p \in Displayed(s, k) : Row(s, k, p) = 1
        BY <1>2, DisplayedFacts
    <2> QED BY <1>2, <2>1 DEF First
<1> QED BY <1>1, <1>2

LEMMA LeastElement ==
    ASSUME NEW T, T # {}, IsFiniteSet(T)
    PROVE  T \subseteq Nat => \E p \in T : \A q \in T : p <= q
<1>1. \A less : Orders(less, T) =>
          \A k \in 1 .. Cardinality(T) : \E p \in T : 1 + Cardinality(less[p]) = k
    BY Ranking
<1>2. HAVE T \subseteq Nat
<1> DEFINE Less == [p \in T |-> {q \in T : q < p}]
<1>3. Orders(Less, T)
    <2>1. \A p \in T : p \in Nat
        BY <1>2
    <2>2. Less \in [T -> SUBSET T]
        OBVIOUS
    <2>3. \A p \in T : p \notin Less[p]
        BY <2>1
    <2>4. \A p \in T : \A q \in Less[p] : Less[q] \subseteq Less[p]
        <3> SUFFICES ASSUME NEW p \in T, NEW q \in Less[p], NEW x \in Less[q]
                     PROVE  x \in Less[p]
            OBVIOUS
        <3>1. q \in T /\ q < p /\ x \in T /\ x < q
            OBVIOUS
        <3> QED BY <2>1, <3>1
    <2>5. \A p, q \in T : p # q => p \in Less[q] \/ q \in Less[p]
        BY <2>1
    <2> HIDE DEF Less
    <2> QED BY <2>2, <2>3, <2>4, <2>5 DEF Orders
<1>4. Cardinality(T) \in Nat /\ Cardinality(T) # 0
    BY FS_CardinalityType, FS_EmptySet
<1>5. PICK p \in T : 1 + Cardinality(Less[p]) = 1
    <2> HIDE DEF Less
    <2> QED BY <1>1, <1>3, <1>4
<1>6. Less[p] = {}
    <2>1. IsFiniteSet(Less[p])
        BY FS_Subset
    <2>2. Cardinality(Less[p]) = 0
        BY <1>5, <2>1, FS_CardinalityType
    <2> QED BY <2>1, <2>2, FS_EmptySet
<1>7. \A q \in T : ~(q < p)
    BY <1>6
<1> QED BY <1>2, <1>7

\* The process the worker takes next is one of those to do.
LEMMA NextTodoFacts ==
    ASSUME todo # {}, IsFiniteSet(todo), todo \subseteq Nat
    PROVE  NextTodo \in todo
BY LeastElement DEF NextTodo
----------------------------------------------------------------------------
(* The invariant. *)

\* At the keys the screen shows the snapshot on display.
ScreenInv == main = "keys" => screen.snap = displayed

\* While it sorts, the worker has ranked what it has come to, of a frame.
WorkerInv ==
    /\ worker = "perf" => todo = {} /\ frame = NoFrame
    /\ worker # "perf" => frame \in Frames
    /\ worker = "sort" => DOMAIN ranked = DOMAIN frame \ todo

IInv == TypeOK /\ ScreenInv /\ WorkerInv /\ SelectionOnScreen

LEMMA TodoFacts ==
    ASSUME TypeOK, WorkerInv
    PROVE  /\ IsFiniteSet(todo) /\ todo \subseteq Pids
           /\ todo # {} => NextTodo \in todo
<1>1. frame \in Frames \/ todo = {}
    BY DEF WorkerInv, TypeOK
<1>2. IsFiniteSet(todo) /\ todo \subseteq Pids
    BY <1>1, FramesAssumption, FS_Subset, FS_EmptySet DEF TypeOK
<1> QED BY <1>2, PidsAssumption, NextTodoFacts

LEMMA PushedFacts ==
    ASSUME NEW T, NEW q \in Seq(T), NEW e \in T, Len(q) <= HISTORY
    PROVE  Pushed(q, e) \in Seq(T) /\ Len(Pushed(q, e)) <= HISTORY
<1>1. /\ Append(q, e) \in Seq(T) /\ Append(q, e) # <<>>
      /\ Len(Append(q, e)) = Len(q) + 1 /\ Len(q) \in Nat
    BY AppendProperties, LenProperties
<1>2. Tail(Append(q, e)) \in Seq(T) /\ Len(Tail(Append(q, e))) = Len(q)
    BY <1>1, HeadTailProperties
<1> QED BY <1>1, <1>2, BoundsAssumption DEF Pushed

\* A finished sort has given each process of the frame a place of its own,
\* whichever metric each was ranked by.
LEMMA PublishedIsSnap ==
    ASSUME frame \in Frames, DOMAIN ranked = DOMAIN frame,
           \A p \in DOMAIN ranked : ranked[p] \in Nat
    PROVE  IsSnap([val |-> frame, place |-> [p \in DOMAIN frame |-> Place(p)]])
<1> DEFINE S == DOMAIN frame
           R == [p \in S |-> {q \in S : ranked[q] > ranked[p] \/ (ranked[q] = ranked[p] /\ q < p)}]
<1>1. IsFiniteSet(S) /\ \A p \in S : p \in Nat /\ ranked[p] \in Nat
    BY FramesAssumption, PidsAssumption
<1>2. Orders(R, S)
    <2>1. R \in [S -> SUBSET S]
        OBVIOUS
    <2>2. \A p \in S : p \notin R[p]
        BY <1>1
    <2>3. \A p \in S : \A q \in R[p] : R[q] \subseteq R[p]
        <3> SUFFICES ASSUME NEW p \in S, NEW q \in R[p], NEW x \in R[q]
                     PROVE  x \in R[p]
            OBVIOUS
        <3>1. /\ q \in S /\ x \in S
              /\ ranked[q] > ranked[p] \/ (ranked[q] = ranked[p] /\ q < p)
              /\ ranked[x] > ranked[q] \/ (ranked[x] = ranked[q] /\ x < q)
            OBVIOUS
        <3> QED BY <1>1, <3>1
    <2>4. \A p, q \in S : p # q => p \in R[q] \/ q \in R[p]
        BY <1>1
    <2> HIDE DEF R
    <2> QED BY <2>1, <2>2, <2>3, <2>4 DEF Orders
<1>3. \A p \in S : Place(p) = 1 + Cardinality(R[p])
    BY DEF Place
<1>4. \A p \in S : Cardinality(R[p]) \in Nat
    BY <1>1, FS_Subset, FS_CardinalityType
<1> HIDE DEF R
<1>5. /\ \A p \in S : 1 + Cardinality(R[p]) \in 1 .. Cardinality(S)
      /\ \A p, q \in S : Cardinality(R[p]) = Cardinality(R[q]) => p = q
    BY <1>1, <1>2, Ranking
<1>6. \A p \in S : Place(p) \in 1 .. Cardinality(S)
    BY <1>3, <1>5
<1>7. \A p, q \in S : p # q => Place(p) # Place(q)
    BY <1>3, <1>4, <1>5
<1> QED BY <1>6, <1>7 DEF IsSnap

LEMMA InitIInv == Init => IInv
<1> SUFFICES ASSUME Init PROVE IInv
    OBVIOUS
<1> USE DEF Init
<1>1. hist \in [Pids -> Seq([key : Keys, value : Nat])] /\ \A p \in Pids : Len(hist[p]) <= HISTORY
    BY EmptySeq, BoundsAssumption
<1>2. DOMAIN NoFrame = {}
    BY DEF NoFrame
<1>3. TypeOK
    <2>1. /\ sortKey \in Keys /\ view \in {"list", "detail"}
          /\ selected \in Pids \cup {NoPid} /\ frozen \in BOOLEAN
          /\ main \in {"keys", "render", "done"} /\ screen.key \in Keys
          /\ worker \in {"perf", "derive", "sort"}
          /\ frame \in Frames \cup {NoFrame} /\ todo \subseteq DOMAIN frame
        OBVIOUS
    <2>2. shared = NoSnap /\ displayed = NoSnap /\ screen.snap = NoSnap
        OBVIOUS
    <2>3. DOMAIN ranked = {} /\ nframes \in 0 .. MaxFrames
        BY <1>2, BoundsAssumption
    <2> QED BY <1>1, <2>1, <2>2, <2>3 DEF TypeOK
<1>4. ScreenInv /\ WorkerInv /\ SelectionOnScreen
    BY DEF ScreenInv, WorkerInv, SelectionOnScreen
<1> QED BY <1>3, <1>4 DEF IInv
\* A snapshot that may be on display, under a key.
LEMMA SnapTypes ==
    ASSUME TypeOK
    PROVE  /\ shared = NoSnap \/ IsSnap(shared)
           /\ displayed = NoSnap \/ IsSnap(displayed)
           /\ screen.snap = NoSnap \/ IsSnap(screen.snap)
BY DEF TypeOK

\* Up and down go to a row, the next one if there is one.
LEMMA MoveFacts ==
    ASSUME TypeOK, NEW step \in {-1, 1}, Move(step), Displayed(displayed, sortKey) # {}
    PROVE  /\ selected' \in Displayed(displayed, sortKey)
           /\ selected \in Displayed(displayed, sortKey) =>
                Row(displayed, sortKey, selected') - Row(displayed, sortKey, selected) \in {-1, 0, 1}
           /\ selected \notin Displayed(displayed, sortKey) =>
                Row(displayed, sortKey, selected') <= 2
<1> DEFINE rows == Displayed(displayed, sortKey)
           n == Cardinality(rows)
           cur == IF selected \in rows THEN Row(displayed, sortKey, selected) ELSE 1
           new == Clamped(cur + step, n)
<1>1. /\ n \in Nat /\ n >= 1
      /\ \A p \in rows : Row(displayed, sortKey, p) \in 1 .. n
      /\ \A i \in 1 .. n : \E p \in rows : Row(displayed, sortKey, p) = i
    BY SnapTypes, DisplayedFacts DEF TypeOK
<1>2. cur \in 1 .. n
    BY <1>1
<1> HIDE DEF n, cur
<1>3. new \in 1 .. n /\ new - cur \in {-1, 0, 1} /\ (cur = 1 => new <= 2)
    BY <1>1, <1>2 DEF Clamped
<1>4. selected' = CHOOSE p \in rows : Row(displayed, sortKey, p) = new
    BY DEF Move, Pointed, n, cur
<1> HIDE DEF new, rows
<1>5. selected' \in rows /\ Row(displayed, sortKey, selected') = new
    BY <1>1, <1>3, <1>4
<1>6. cur = IF selected \in rows THEN Row(displayed, sortKey, selected) ELSE 1
    BY DEF cur
<1> QED BY <1>3, <1>5, <1>6 DEF rows

LEMMA ReselectedFacts ==
    ASSUME TypeOK, NEW s, s = NoSnap \/ IsSnap(s)
    PROVE  \/ Reselected(s) \in Displayed(s, sortKey)
           \/ Reselected(s) = NoPid /\ Displayed(s, sortKey) = {}
BY FirstFacts DEF Reselected, TypeOK
----------------------------------------------------------------------------
(* Every step preserves it. *)

\* What the main thread's steps leave alone, and the worker's.
WorkerTypes ==
    /\ worker \in {"perf", "derive", "sort"}
    /\ frame \in Frames \cup {NoFrame} /\ todo \subseteq DOMAIN frame
    /\ DOMAIN ranked \subseteq DOMAIN frame
    /\ \A p \in DOMAIN ranked : ranked[p] \in Nat
    /\ hist \in [Pids -> Seq([key : Keys, value : Nat])]
    /\ \A p \in Pids : Len(hist[p]) <= HISTORY
    /\ nframes \in 0 .. MaxFrames

LEMMA MainStep ==
    ASSUME TypeOK, WorkerInv, UNCHANGED workerVars,
           sortKey' \in Keys, view' \in {"list", "detail"},
           selected' \in Pids \cup {NoPid}, frozen' \in BOOLEAN,
           main' \in {"keys", "render", "done"}, screen'.key \in Keys,
           displayed' \in {displayed, shared},
           screen'.snap \in {screen.snap, displayed}
    PROVE  TypeOK' /\ WorkerInv'
<1>1. WorkerTypes'
    BY DEF TypeOK, WorkerTypes, workerVars
<1>2. \A s \in {shared', displayed', screen'.snap} : s = NoSnap \/ IsSnap(s)
    BY SnapTypes DEF workerVars
<1>3. TypeOK'
    BY <1>1, <1>2 DEF TypeOK, WorkerTypes
<1>4. WorkerInv'
    BY DEF WorkerInv, workerVars
<1> QED BY <1>3, <1>4

LEMMA WorkerStep ==
    ASSUME IInv, UNCHANGED mainVars, WorkerTypes', WorkerInv',
           shared' = shared \/ IsSnap(shared')
    PROVE  IInv'
<1>1. \A s \in {shared', displayed', screen'.snap} : s = NoSnap \/ IsSnap(s)
    BY SnapTypes DEF mainVars, IInv
<1>2. TypeOK'
    BY <1>1 DEF TypeOK, IInv, WorkerTypes, mainVars, state
<1>3. ScreenInv' /\ SelectionOnScreen'
    BY DEF IInv, ScreenInv, SelectionOnScreen, mainVars, state
<1> QED BY <1>2, <1>3 DEF IInv

LEMMA KeyIInv == IInv /\ Key => IInv'
<1> SUFFICES ASSUME IInv, Key PROVE IInv'
    OBVIOUS
<1> USE DEF IInv
<1>0. TypeOK /\ ScreenInv /\ WorkerInv
    OBVIOUS
<1>1. ASSUME NEW step \in {-1, 1}, Move(step) PROVE IInv'
    <2>1. selected' \in Pids \cup {NoPid}
        <3>1. CASE Displayed(displayed, sortKey) = {}
            BY <1>1, <3>1 DEF Move, Pointed, TypeOK
        <3>2. CASE Displayed(displayed, sortKey) # {}
            BY <1>1, <3>2, MoveFacts, SnapTypes, DisplayedFacts DEF TypeOK
        <3> QED BY <3>1, <3>2
    <2>2. UNCHANGED <<sortKey, view, frozen, displayed, main, screen, workerVars>> /\ main = "keys"
        BY <1>1 DEF Move
    <2>3. TypeOK' /\ WorkerInv'
        BY <1>0, <2>1, <2>2, MainStep DEF TypeOK
    <2>4. ScreenInv' /\ SelectionOnScreen'
        BY <2>2 DEF ScreenInv, SelectionOnScreen
    <2> QED BY <2>3, <2>4
<1>2. ASSUME DrillIn PROVE IInv'
    <2>1. selected' \in Pids \cup {NoPid}
        BY <1>2, SnapTypes, FirstFacts, DisplayedFacts DEF DrillIn, Pointed, TypeOK
    <2>2. /\ UNCHANGED <<sortKey, frozen, displayed, main, screen, workerVars>>
          /\ main = "keys" /\ view' = "detail"
        BY <1>2 DEF DrillIn
    <2>3. TypeOK' /\ WorkerInv'
        BY <1>0, <2>1, <2>2, MainStep DEF TypeOK
    <2>4. ScreenInv' /\ SelectionOnScreen'
        BY <2>2 DEF ScreenInv, SelectionOnScreen
    <2> QED BY <2>3, <2>4
<1>3. ASSUME GoBack PROVE IInv'
    <2>1. TypeOK' /\ WorkerInv'
        BY <1>0, <1>3, MainStep DEF GoBack, TypeOK
    <2>2. ScreenInv' /\ SelectionOnScreen'
        BY <1>3 DEF GoBack, ScreenInv, SelectionOnScreen
    <2> QED BY <2>1, <2>2
<1>4. ASSUME NEW step \in {-1, 1}, CycleSort(step) PROVE IInv'
    <2>1. sortKey' \in Keys
        BY <1>4, KeysAssumption DEF CycleSort, Cycled, Keys, TypeOK
    <2>2. TypeOK' /\ WorkerInv'
        BY <1>0, <1>4, <2>1, MainStep DEF CycleSort, TypeOK
    <2>3. ScreenInv' /\ SelectionOnScreen'
        BY <1>4 DEF CycleSort, ScreenInv, SelectionOnScreen
    <2> QED BY <2>2, <2>3
<1>5. ASSUME ToggleFreeze PROVE IInv'
    <2>1. frozen' \in BOOLEAN
        BY <1>5 DEF ToggleFreeze, TypeOK
    <2>2. TypeOK' /\ WorkerInv'
        BY <1>0, <1>5, <2>1, MainStep DEF ToggleFreeze, TypeOK
    <2>3. ScreenInv' /\ SelectionOnScreen'
        BY <1>5 DEF ToggleFreeze, ScreenInv, SelectionOnScreen
    <2> QED BY <2>2, <2>3
<1>6. ASSUME Quit PROVE IInv'
    <2>1. TypeOK' /\ WorkerInv'
        BY <1>0, <1>6, MainStep DEF Quit, TypeOK, state
    <2>2. ScreenInv' /\ SelectionOnScreen'
        BY <1>6 DEF Quit, ScreenInv, SelectionOnScreen
    <2> QED BY <2>1, <2>2
<1> QED BY <1>1, <1>2, <1>3, <1>4, <1>5, <1>6 DEF Key

LEMMA LoopIInv == IInv /\ (Refresh \/ Render) => IInv'
<1> SUFFICES ASSUME IInv, Refresh \/ Render PROVE IInv'
    OBVIOUS
<1> USE DEF IInv
<1>0. TypeOK /\ ScreenInv /\ WorkerInv
    OBVIOUS
<1>1. ASSUME Refresh PROVE IInv'
    <2>1. /\ displayed' \in {displayed, shared} /\ main' = "render"
          /\ UNCHANGED <<sortKey, view, frozen, screen, workerVars>>
          /\ displayed' = NoSnap => selected' = selected
          /\ displayed' # NoSnap => selected' = Reselected(displayed')
        BY <1>1 DEF Refresh
    <2>2. displayed' = NoSnap \/ IsSnap(displayed')
        BY <2>1, SnapTypes
    <2>3. displayed' # NoSnap =>
            \/ selected' \in Displayed(displayed', sortKey)
            \/ selected' = NoPid /\ Displayed(displayed', sortKey) = {}
        BY <2>1, <2>2, ReselectedFacts
    <2>4. selected' \in Pids \cup {NoPid}
        BY <2>1, <2>2, <2>3, DisplayedFacts DEF TypeOK
    <2>5. TypeOK' /\ WorkerInv'
        BY <1>0, <2>1, <2>4, MainStep DEF TypeOK
    <2>6. ScreenInv' /\ SelectionOnScreen'
        BY <2>1, <2>3 DEF ScreenInv, SelectionOnScreen
    <2> QED BY <2>5, <2>6
<1>2. ASSUME Render PROVE IInv'
    <2>1. /\ UNCHANGED <<sortKey, view, selected, frozen, displayed, workerVars>>
          /\ main' = "keys" /\ screen'.snap = displayed /\ screen'.key = sortKey
        BY <1>2 DEF Render, state
    <2>2. TypeOK' /\ WorkerInv'
        BY <1>0, <2>1, MainStep DEF TypeOK
    <2>3. ScreenInv' /\ SelectionOnScreen'
        BY <2>1 DEF ScreenInv, SelectionOnScreen
    <2> QED BY <2>2, <2>3
<1> QED BY <1>1, <1>2
LEMMA WorkerIInv == IInv /\ (FrameArrives \/ Derive \/ StartSort \/ SortRank \/ Publish) => IInv'
<1> SUFFICES ASSUME IInv, FrameArrives \/ Derive \/ StartSort \/ SortRank \/ Publish
             PROVE  IInv'
    OBVIOUS
<1>0. /\ TypeOK /\ WorkerInv /\ WorkerTypes /\ sortKey \in Keys
      /\ IsFiniteSet(todo) /\ todo \subseteq Pids
      /\ todo # {} => NextTodo \in todo
    BY TodoFacts DEF IInv, TypeOK, WorkerTypes
<1>1. ASSUME FrameArrives PROVE IInv'
    <2>1. nframes' \in 0 .. MaxFrames
        BY <1>0, <1>1, BoundsAssumption DEF FrameArrives, WorkerTypes
    <2>2. frame' \in Frames /\ todo' = DOMAIN frame'
        BY <1>1 DEF FrameArrives
    <2>3. DOMAIN ranked = {}
        BY <1>0, <1>1 DEF FrameArrives, WorkerInv, WorkerTypes, NoFrame
    <2>4. WorkerTypes'
        BY <1>0, <1>1, <2>1, <2>2, <2>3 DEF FrameArrives, WorkerTypes
    <2>5. WorkerInv'
        BY <1>1, <2>2 DEF FrameArrives, WorkerInv
    <2> QED BY <1>1, <2>4, <2>5, WorkerStep DEF FrameArrives
<1>2. ASSUME Derive PROVE IInv'
    <2>1. /\ NextTodo \in todo /\ NextTodo \in Pids /\ frame \in Frames
          /\ NextTodo \in DOMAIN frame
        BY <1>0, <1>2 DEF Derive, WorkerInv, WorkerTypes
    <2>2. [key |-> sortKey, value |-> frame[NextTodo][sortKey]] \in [key : Keys, value : Nat]
        BY <1>0, <2>1, FramesAssumption
    <2> DEFINE e == [key |-> sortKey, value |-> frame[NextTodo][sortKey]]
               P == NextTodo
    <2>3. hist' = [hist EXCEPT ![P] = Pushed(hist[P], e)]
        BY <1>2 DEF Derive
    <2>4. P \in Pids /\ e \in [key : Keys, value : Nat]
        BY <2>1, <2>2
    <2> HIDE DEF P, e
    <2>5. /\ Pushed(hist[P], e) \in Seq([key : Keys, value : Nat])
          /\ Len(Pushed(hist[P], e)) <= HISTORY
        BY <1>0, <2>4, PushedFacts DEF WorkerTypes
    <2>6. /\ hist' \in [Pids -> Seq([key : Keys, value : Nat])]
          /\ \A p \in Pids : Len(hist'[p]) <= HISTORY
        BY <1>0, <2>3, <2>4, <2>5 DEF WorkerTypes
    <2>7. /\ UNCHANGED <<mainVars, shared, worker, frame, ranked, nframes>>
          /\ worker = "derive" /\ todo' \subseteq todo
        BY <1>2 DEF Derive
    <2>8. WorkerTypes' /\ WorkerInv'
        BY <1>0, <2>6, <2>7 DEF WorkerTypes, WorkerInv
    <2> QED BY <2>7, <2>8, WorkerStep
<1>3. ASSUME StartSort PROVE IInv'
    <2>1. DOMAIN ranked' = {}
        BY <1>3 DEF StartSort, NoFrame
    <2>2. WorkerTypes' /\ WorkerInv'
        BY <1>0, <1>3, <2>1 DEF StartSort, WorkerTypes, WorkerInv
    <2> QED BY <1>3, <2>2, WorkerStep DEF StartSort
<1>4. ASSUME SortRank PROVE IInv'
    <2>1. /\ NextTodo \in todo /\ frame \in Frames /\ NextTodo \in DOMAIN frame
          /\ DOMAIN ranked = DOMAIN frame \ todo
        BY <1>0, <1>4 DEF SortRank, WorkerInv, WorkerTypes
    <2>2. frame[NextTodo][sortKey] \in Nat
        BY <1>0, <2>1, FramesAssumption
    <2>3. /\ DOMAIN ranked' = DOMAIN ranked \cup {NextTodo}
          /\ \A p \in DOMAIN ranked' : ranked'[p] \in Nat
          /\ todo' = todo \ {NextTodo}
          /\ UNCHANGED <<mainVars, shared, worker, frame, hist, nframes>>
        BY <1>0, <1>4, <2>2 DEF SortRank, WorkerTypes
    <2>4. WorkerTypes' /\ WorkerInv'
        BY <1>0, <2>1, <2>3 DEF WorkerTypes, WorkerInv
    <2> QED BY <2>3, <2>4, WorkerStep
<1>5. ASSUME Publish PROVE IInv'
    <2>1. frame \in Frames /\ DOMAIN ranked = DOMAIN frame /\ todo = {}
        BY <1>0, <1>5 DEF Publish, WorkerInv
    <2>2. IsSnap([val |-> frame, place |-> [p \in DOMAIN frame |-> Place(p)]])
        BY <1>0, <2>1, PublishedIsSnap DEF WorkerTypes
    <2>3. IsSnap(shared')
        BY <1>5, <2>2 DEF Publish
    <2>4. DOMAIN NoFrame = {} /\ frame' = NoFrame /\ ranked' = NoFrame
        BY <1>5 DEF Publish, NoFrame
    <2>5. WorkerTypes' /\ WorkerInv'
        BY <1>0, <1>5, <2>1, <2>4 DEF Publish, WorkerTypes, WorkerInv
    <2> QED BY <1>5, <2>3, <2>5, WorkerStep DEF Publish
<1> QED BY <1>1, <1>2, <1>3, <1>4, <1>5

LEMMA NextIInv == IInv /\ [Next]_vars => IInv'
<1> SUFFICES ASSUME IInv, [Next]_vars PROVE IInv'
    OBVIOUS
<1>1. CASE UNCHANGED vars
    <2>1. WorkerTypes' /\ WorkerInv' /\ UNCHANGED mainVars /\ shared' = shared
        BY <1>1 DEF IInv, TypeOK, WorkerTypes, WorkerInv, vars, workerVars
    <2> QED BY <2>1, WorkerStep
<1> QED BY <1>1, KeyIInv, LoopIInv, WorkerIInv DEF Next

LEMMA Inductive == Spec => []IInv
BY InitIInv, NextIInv, PTL DEF Spec

----------------------------------------------------------------------------
(* The theorems. *)

\* Types; a snapshot published by the worker has every process of its frame at
\* a place of its own, whatever keys 's' went through while it was sorted
\* (procmon.py:272).
THEOREM TypeCorrect == Spec => []TypeOK
<1>1. IInv => TypeOK
    BY DEF IInv
<1> QED BY <1>1, Inductive, PTL

\* Whatever is rendered has its highlight on a row (__main__.py:222-225).
THEOREM SelectionShown == Spec => []SelectionOnScreen
<1>1. IInv => SelectionOnScreen
    BY DEF IInv
<1> QED BY <1>1, Inductive, PTL

\* A refresh moves the highlight only off a process that is no longer a row.
THEOREM SelectionStays == Spec => SelectionFollowsProcess
<1>1. [Next]_vars => [ main = "keys" /\ main' = "render" /\ selected' # selected =>
                          selected \notin Displayed(displayed', sortKey) ]_vars
    <2> SUFFICES ASSUME Next, main = "keys", main' = "render", selected' # selected
                 PROVE  selected \notin Displayed(displayed', sortKey)
        BY DEF vars
    <2>1. ~Key /\ ~Render /\ ~UNCHANGED mainVars
        BY DEF Key, Move, DrillIn, GoBack, CycleSort, ToggleFreeze, Quit, Render, mainVars
    <2>2. Refresh
        BY <2>1 DEF Next, FrameArrives, Derive, StartSort, SortRank, Publish
    <2> QED BY <2>2 DEF Refresh, Reselected
<1> QED BY <1>1, PTL DEF Spec, SelectionFollowsProcess

\* A key moves the highlight to the next row of what is on the screen,
\* whatever has been published since (__main__.py:166-175, 217).
THEOREM KeysMoveOnScreen == Spec => MovesOnScreen
<1> DEFINE A == /\ main = "keys" /\ main' = "keys" /\ selected' # selected
                /\ screen.snap # NoSnap /\ screen.key = sortKey
                => /\ selected' \in Displayed(screen.snap, screen.key)
                   /\ selected \in Displayed(screen.snap, screen.key) =>
                        Row(screen.snap, screen.key, selected')
                            - Row(screen.snap, screen.key, selected) \in {-1, 1}
<1>1. IInv /\ [Next]_vars => [A]_vars
    <2> SUFFICES ASSUME IInv, Next, main = "keys", main' = "keys", selected' # selected,
                        screen.snap # NoSnap, screen.key = sortKey
                 PROVE  /\ selected' \in Displayed(screen.snap, screen.key)
                        /\ selected \in Displayed(screen.snap, screen.key) =>
                             Row(screen.snap, screen.key, selected')
                                 - Row(screen.snap, screen.key, selected) \in {-1, 1}
        BY DEF vars
    <2>1. /\ TypeOK /\ sortKey \in Keys /\ selected \in Pids \cup {NoPid}
          /\ screen.snap = displayed
        BY DEF IInv, TypeOK, ScreenInv
    <2>2. displayed = NoSnap \/ IsSnap(displayed)
        BY <2>1, SnapTypes
    <2>3. /\ \A p \in Displayed(displayed, sortKey) : p \in Pids
          /\ \A p \in Displayed(displayed, sortKey) :
                Row(displayed, sortKey, p) \in 1 .. Cardinality(Displayed(displayed, sortKey))
          /\ \A p, q \in Displayed(displayed, sortKey) :
                Row(displayed, sortKey, p) = Row(displayed, sortKey, q) => p = q
          /\ Cardinality(Displayed(displayed, sortKey)) \in Nat
        BY <2>1, <2>2, DisplayedFacts
    <2>4. ASSUME NEW step \in {-1, 1}, Move(step)
          PROVE  /\ selected' \in Displayed(displayed, sortKey)
                 /\ selected \in Displayed(displayed, sortKey) =>
                      Row(displayed, sortKey, selected')
                          - Row(displayed, sortKey, selected) \in {-1, 1}
        <3>1. Displayed(displayed, sortKey) # {}
            BY <2>4 DEF Move, Pointed
        <3>2. /\ selected' \in Displayed(displayed, sortKey)
              /\ selected \in Displayed(displayed, sortKey) =>
                   Row(displayed, sortKey, selected') - Row(displayed, sortKey, selected) \in {-1, 0, 1}
            BY <2>1, <2>4, <3>1, MoveFacts
        <3>3. selected \in Displayed(displayed, sortKey) =>
                Row(displayed, sortKey, selected') # Row(displayed, sortKey, selected)
            BY <2>3, <3>2
        <3>4. selected \in Displayed(displayed, sortKey) =>
                /\ Row(displayed, sortKey, selected') \in Nat
                /\ Row(displayed, sortKey, selected) \in Nat
            BY <2>3, <3>2
        <3> QED BY <3>2, <3>3, <3>4
    <2>5. ASSUME DrillIn
          PROVE  /\ selected' \in Displayed(displayed, sortKey)
                 /\ selected \notin Displayed(displayed, sortKey)
        <3>1. selected = NoPid /\ selected' = First(displayed, sortKey)
            BY <2>5 DEF DrillIn, Pointed
        <3>2. selected' \in Displayed(displayed, sortKey)
            BY <2>1, <2>2, <3>1, FirstFacts
        <3> QED BY <2>3, <3>1, <3>2, PidsAssumption
    <2>6. (\E step \in {-1, 1} : Move(step)) \/ DrillIn
        BY DEF Next, Key, GoBack, CycleSort, ToggleFreeze, Quit, Refresh, Render, FrameArrives,
               Derive, StartSort, SortRank, Publish, mainVars, state
    <2> QED BY <2>1, <2>4, <2>5, <2>6
<1> QED BY <1>1, Inductive, PTL DEF Spec, MovesOnScreen

----------------------------------------------------------------------------
(* The refinement of SelectedRow. *)

\* Once there is a snapshot there always is one; before that nothing is selected.
NoneInv ==
    /\ shared = NoSnap => displayed = NoSnap
    /\ displayed = NoSnap => selected = NoPid

LEMMA InitNoneInv == Init => NoneInv
BY DEF Init, NoneInv

LEMMA NextNoneInv == IInv /\ NoneInv /\ [Next]_vars => NoneInv'
<1> SUFFICES ASSUME IInv, NoneInv, [Next]_vars PROVE NoneInv'
    OBVIOUS
<1>0. Displayed(NoSnap, sortKey) = {} /\ First(NoSnap, sortKey) = NoPid
    BY DEF Displayed, First
<1>1. CASE Key
    <2>1. displayed = NoSnap => selected' = selected
        BY <1>0, <1>1 DEF NoneInv, Key, Move, Pointed, DrillIn, GoBack, CycleSort, ToggleFreeze, Quit, state
    <2>2. displayed' = displayed /\ shared' = shared
        BY <1>1 DEF Key, Move, DrillIn, GoBack, CycleSort, ToggleFreeze, Quit, workerVars
    <2> QED BY <2>1, <2>2 DEF NoneInv
<1>2. CASE Refresh
    <2>1. /\ displayed' = (IF frozen THEN displayed ELSE shared) /\ shared' = shared
          /\ displayed' = NoSnap => selected' = selected
        BY <1>2 DEF Refresh, workerVars
    <2> QED BY <2>1 DEF NoneInv
<1>3. CASE Publish
    <2>1. frame \in Frames /\ DOMAIN ranked = DOMAIN frame
        BY <1>3 DEF Publish, IInv, WorkerInv
    <2>2. IsSnap([val |-> frame, place |-> [p \in DOMAIN frame |-> Place(p)]])
        BY <2>1, PublishedIsSnap DEF IInv, TypeOK
    <2> DEFINE place == [p \in DOMAIN frame |-> Place(p)]
    <2>3. IsFiniteSet(DOMAIN frame) /\ Cardinality(DOMAIN frame) \in Nat
        BY <2>1, FramesAssumption, FS_CardinalityType
    <2>4. \A p \in DOMAIN frame : place[p] \in Nat
        BY <2>2, <2>3 DEF IsSnap
    <2>5. place \in [DOMAIN frame -> Nat]
        BY <2>4
    <2> HIDE DEF place
    <2>6. [val |-> frame, place |-> place] \in [val : Frames, place : UNION {[DOMAIN f -> Nat] : f \in Frames}]
        BY <2>1, <2>5
    <2>7. shared' # NoSnap
        BY <1>3, <2>6, NoSnapAssumption DEF Publish, place
    <2> QED BY <1>3, <2>7 DEF Publish, NoneInv, mainVars, state
<1>4. CASE Render \/ FrameArrives \/ Derive \/ StartSort \/ SortRank \/ UNCHANGED vars
    BY <1>4 DEF Render, FrameArrives, Derive, StartSort, SortRank, vars, NoneInv, mainVars, workerVars, state
<1> QED BY <1>1, <1>2, <1>3, <1>4 DEF Next

\* A list of distinct processes that has p in the row of p.
LEMMA RowsFacts ==
    ASSUME NEW s, s = NoSnap \/ IsSnap(s), NEW k \in Keys
    PROVE  /\ Rows(s, k) \in Seq(Pids)
           /\ DOMAIN Rows(s, k) = 1 .. Cardinality(Displayed(s, k))
           /\ \A i \in DOMAIN Rows(s, k) : /\ Rows(s, k)[i] \in Displayed(s, k)
                                           /\ Row(s, k, Rows(s, k)[i]) = i
           /\ \A p \in Displayed(s, k) : /\ Row(s, k, p) \in DOMAIN Rows(s, k)
                                         /\ Rows(s, k)[Row(s, k, p)] = p
<1> DEFINE D == Displayed(s, k)
           n == Cardinality(D)
           r == Rows(s, k)
<1>1. /\ D \subseteq Pids /\ n \in Nat
      /\ \A p \in D : Row(s, k, p) \in 1 .. n
      /\ \A p, q \in D : Row(s, k, p) = Row(s, k, q) => p = q
      /\ \A i \in 1 .. n : \E p \in D : Row(s, k, p) = i
    BY DisplayedFacts
<1>2. r = [i \in 1 .. n |-> CHOOSE p \in D : Row(s, k, p) = i]
    BY DEF Rows
<1> HIDE DEF D, n, r
<1>3. \A i \in 1 .. n : r[i] \in D /\ Row(s, k, r[i]) = i
    BY <1>1, <1>2
<1>4. DOMAIN r = 1 .. n
    BY <1>2
<1>5. r \in [1 .. n -> Pids]
    BY <1>1, <1>2, <1>3
<1>6. r \in Seq(Pids)
    BY <1>1, <1>5
<1>7. \A p \in D : r[Row(s, k, p)] = p
    BY <1>1, <1>3
<1> QED BY <1>1, <1>3, <1>4, <1>6, <1>7 DEF D, n, r

LEMMA RowsAreLists ==
    ASSUME NEW s, s = NoSnap \/ IsSnap(s), NEW k \in Keys
    PROVE  Rows(s, k) \in List!Lists
<1>1. PICK r : r = Rows(s, k)
    OBVIOUS
<1>2. r \in Seq(Pids) /\ \A i \in DOMAIN r : Row(s, k, r[i]) = i
    BY <1>1, RowsFacts
<1>3. \A i, j \in DOMAIN r : r[i] = r[j] => i = j
    BY <1>2
<1> QED BY <1>1, <1>2, <1>3 DEF List!Lists

\* The first process is that of the first row, and a list without rows has none.
LEMMA HeadFacts ==
    ASSUME NEW s, s = NoSnap \/ IsSnap(s), NEW k \in Keys
    PROVE  /\ (Rows(s, k) = <<>>) <=> (Displayed(s, k) = {})
           /\ First(s, k) = IF Rows(s, k) = <<>> THEN NoPid ELSE Head(Rows(s, k))
           /\ Rows(s, k) # <<>> => 1 \in DOMAIN Rows(s, k) /\ Rows(s, k)[1] = First(s, k)
<1>1. PICK r, D : r = Rows(s, k) /\ D = Displayed(s, k)
    OBVIOUS
<1>2. /\ r \in Seq(Pids) /\ DOMAIN r = 1 .. Cardinality(D) /\ Cardinality(D) \in Nat
      /\ D # {} => Cardinality(D) >= 1
      /\ \A i \in DOMAIN r : r[i] \in D /\ Row(s, k, r[i]) = i
      /\ \A p \in D : Row(s, k, p) \in DOMAIN r
      /\ \A p, q \in D : Row(s, k, p) = Row(s, k, q) => p = q
    BY <1>1, RowsFacts, DisplayedFacts
<1>3. CASE D = {}
    <2>1. r = <<>>
        BY <1>2, <1>3
    <2> QED BY <1>1, <1>3, <2>1 DEF First
<1>4. CASE D # {}
    <2>1. 1 \in DOMAIN r /\ r # <<>> /\ Head(r) = r[1]
        BY <1>2, <1>4
    <2>2. r[1] \in D /\ Row(s, k, r[1]) = 1
        BY <1>2, <2>1
    <2>3. First(s, k) = CHOOSE p \in D : Row(s, k, p) = 1
        BY <1>1, <1>4 DEF First
    <2>4. First(s, k) = r[1]
        BY <1>2, <2>2, <2>3
    <2> QED BY <1>1, <1>4, <2>1, <2>4
<1> QED BY <1>3, <1>4

LEMMA InitList == Init => List!Init
<1> SUFFICES ASSUME Init PROVE List!Init
    OBVIOUS
<1>1. Listing = Rows(NoSnap, sortKey) /\ sortKey \in Keys
    BY DEF Init, Listing
<1>2. Displayed(NoSnap, sortKey) = {}
    BY DEF Displayed
<1>3. Listing = <<>>
    BY <1>1, <1>2, HeadFacts
<1> QED BY <1>3 DEF Init, List!Init, Turn

\* On the keys' turn the list is that of the snapshot on display.
LEMMA ListingFacts ==
    ASSUME IInv
    PROVE  /\ displayed = NoSnap \/ IsSnap(displayed)
           /\ shared = NoSnap \/ IsSnap(shared)
           /\ sortKey \in Keys
           /\ main \in {"keys", "render"} => Listing = Rows(displayed, sortKey)
BY SnapTypes DEF IInv, TypeOK, ScreenInv, Listing

LEMMA MoveIsMove ==
    ASSUME IInv, NEW step \in {-1, 1}, Move(step), selected' # selected
    PROVE  List!Move
<1>1. PICK r, D : r = Listing /\ D = Displayed(displayed, sortKey)
    OBVIOUS
<1>2. main = "keys" /\ UNCHANGED <<sortKey, displayed, main, screen>>
    BY DEF Move
<1>3. Turn = "user" /\ Turn' = Turn /\ Listing' = Listing
    BY <1>2 DEF Turn, Listing
<1>4. D # {}
    BY <1>1 DEF Move, Pointed
<1>5. TypeOK
    BY DEF IInv
<1>6. /\ selected' \in D
      /\ selected \in D => Row(displayed, sortKey, selected') - Row(displayed, sortKey, selected) \in {-1, 0, 1}
      /\ selected \notin D => Row(displayed, sortKey, selected') <= 2
    BY <1>1, <1>4, <1>5, MoveFacts
<1>7. /\ \A p \in D : Row(displayed, sortKey, p) \in DOMAIN r /\ r[Row(displayed, sortKey, p)] = p
      /\ \A i \in DOMAIN r : r[i] \in D
      /\ \A i \in DOMAIN r : i \in Nat
    BY <1>1, <1>2, ListingFacts, RowsFacts
<1>8. PICK j \in DOMAIN r : j = Row(displayed, sortKey, selected') /\ selected' = r[j]
    BY <1>6, <1>7
<1>9. \/ \E i \in DOMAIN r : r[i] = selected /\ (j = i + 1 \/ i = j + 1)
      \/ ~(\E i \in DOMAIN r : r[i] = selected) /\ j <= 2
    <2>1. CASE selected \in D
        <3>1. PICK i \in DOMAIN r : i = Row(displayed, sortKey, selected) /\ r[i] = selected
            BY <1>7, <2>1
        <3>2. j - i \in {-1, 0, 1} /\ i \in Nat /\ j \in Nat /\ i # j
            BY <1>6, <1>7, <1>8, <2>1, <3>1
        <3>3. j = i + 1 \/ i = j + 1
            BY <3>2
        <3> QED BY <3>1, <3>3
    <2>2. CASE selected \notin D
        BY <1>6, <1>7, <1>8, <2>2
    <2> QED BY <2>1, <2>2
<1> QED BY <1>1, <1>3, <1>8, <1>9 DEF List!Move, List!Listed

LEMMA DrillInIsMove ==
    ASSUME IInv, DrillIn, selected' # selected
    PROVE  List!Move
<1>1. PICK r, D : r = Listing /\ D = Displayed(displayed, sortKey)
    OBVIOUS
<1>2. main = "keys" /\ UNCHANGED <<sortKey, displayed, main, screen>>
    BY DEF DrillIn
<1>3. Turn = "user" /\ Turn' = Turn /\ Listing' = Listing
    BY <1>2 DEF Turn, Listing
<1>4. selected = NoPid /\ selected' = First(displayed, sortKey)
    BY DEF DrillIn, Pointed
<1>5. 1 \in DOMAIN r /\ selected' = r[1] /\ r \in Seq(Pids)
    BY <1>1, <1>2, <1>4, ListingFacts, HeadFacts, RowsFacts
<1>6. ~(\E i \in DOMAIN r : r[i] = selected)
    BY <1>4, <1>5, PidsAssumption
<1> QED BY <1>1, <1>3, <1>5, <1>6 DEF List!Move, List!Listed

LEMMA RefreshIsReplace ==
    ASSUME IInv, NoneInv, Refresh
    PROVE  List!Replace
<1>1. /\ main = "keys" /\ main' = "render" /\ sortKey' = sortKey
      /\ displayed' = (IF frozen THEN displayed ELSE shared)
      /\ displayed' = NoSnap => selected' = selected
      /\ displayed' # NoSnap => selected' = Reselected(displayed')
    BY DEF Refresh
<1>2. PICK r, s : r = Listing' /\ s = displayed'
    OBVIOUS
<1>3. /\ s = NoSnap \/ IsSnap(s)
      /\ sortKey \in Keys /\ r = Rows(s, sortKey)
    BY <1>1, <1>2, ListingFacts DEF Listing
<1>4. Turn = "user" /\ Turn' = "screen" /\ r \in List!Lists
    BY <1>1, <1>3, RowsAreLists DEF Turn
<1>5. /\ \A p : p \in Displayed(s, sortKey) <=> \E i \in DOMAIN r : r[i] = p
      /\ First(s, sortKey) = IF r = <<>> THEN NoPid ELSE Head(r)
    BY <1>3, RowsFacts, HeadFacts
<1>6. CASE s = NoSnap
    <2>1. displayed = NoSnap
        BY <1>1, <1>2, <1>6 DEF NoneInv
    <2>2. selected' = NoPid /\ selected = NoPid
        BY <1>1, <1>2, <1>6, <2>1 DEF NoneInv
    <2>3. Displayed(s, sortKey) = {}
        BY <1>6 DEF Displayed
    <2>4. /\ r = <<>> /\ \A i \in DOMAIN r : r[i] # selected
        BY <1>3, <1>5, <2>3, HeadFacts
    <2> QED BY <1>2, <1>4, <2>2, <2>4 DEF List!Replace
<1>7. CASE s # NoSnap /\ selected \in Displayed(s, sortKey)
    <2>1. selected' = selected
        BY <1>1, <1>2, <1>7 DEF Reselected
    <2>2. \E i \in DOMAIN r : r[i] = selected'
        BY <1>5, <1>7, <2>1
    <2> QED BY <1>2, <1>4, <2>1, <2>2 DEF List!Replace, List!Listed
<1>8. CASE s # NoSnap /\ selected \notin Displayed(s, sortKey)
    <2>1. selected' = First(s, sortKey)
        BY <1>1, <1>2, <1>8 DEF Reselected
    <2>2. \A i \in DOMAIN r : r[i] # selected
        BY <1>5, <1>8
    <2> QED BY <1>2, <1>4, <1>5, <2>1, <2>2 DEF List!Replace
<1> QED BY <1>6, <1>7, <1>8

\* Every step is one of the list's, or none the user sees.
LEMMA NextList == IInv /\ NoneInv /\ [Next]_vars => [List!Next]_(List!vars)
<1> SUFFICES ASSUME IInv, NoneInv, [Next]_vars PROVE [List!Next]_(List!vars)
    OBVIOUS
<1> USE DEF List!vars
<1>1. ASSUME UNCHANGED <<main, displayed, screen, sortKey>>
      PROVE  Turn' = Turn /\ Listing' = Listing
    BY <1>1 DEF Turn, Listing
<1>2. ASSUME NEW step \in {-1, 1}, Move(step) PROVE [List!Next]_(List!vars)
    BY <1>1, <1>2, MoveIsMove DEF Move, List!Next
<1>3. CASE DrillIn
    BY <1>1, <1>3, DrillInIsMove DEF DrillIn, List!Next
<1>4. CASE GoBack \/ ToggleFreeze
    BY <1>1, <1>4 DEF GoBack, ToggleFreeze
<1>5. ASSUME NEW step \in {-1, 1}, CycleSort(step) PROVE List!Reorder
    <2>1. main = "keys" /\ UNCHANGED <<selected, displayed, main, screen>>
        BY <1>5 DEF CycleSort
    <2>2. sortKey' \in Keys
        BY <1>5, ListingFacts, KeysAssumption DEF CycleSort, Cycled, Keys
    <2>3. Listing' = Rows(displayed, sortKey')
        BY <2>1 DEF Listing, IInv, ScreenInv
    <2>4. Listing' \in List!Lists
        BY <2>2, <2>3, ListingFacts, RowsAreLists
    <2> QED BY <2>1, <2>4 DEF List!Reorder, Turn
<1>6. CASE Quit
    <2>1. main = "keys" /\ main' = "done" /\ UNCHANGED <<selected, sortKey, displayed, screen>>
        BY <1>6 DEF Quit, state
    <2>2. Listing' = Listing
        BY <2>1 DEF Listing
    <2> QED BY <2>1, <2>2 DEF List!Leave, List!Next, Turn
<1>7. CASE Render
    <2>1. /\ main = "render" /\ main' = "keys" /\ UNCHANGED <<selected, sortKey, displayed>>
          /\ screen'.snap = displayed
        BY <1>7 DEF Render, state
    <2>2. Listing' = Listing
        BY <2>1 DEF Listing
    <2> QED BY <2>1, <2>2 DEF List!Draw, List!Next, Turn
<1>8. CASE FrameArrives \/ Derive \/ StartSort \/ SortRank \/ Publish \/ UNCHANGED vars
    <2>1. UNCHANGED mainVars
        BY <1>8 DEF FrameArrives, Derive, StartSort, SortRank, Publish, vars
    <2> QED BY <1>1, <2>1 DEF mainVars, state
<1>9. CASE Refresh
    BY <1>9, RefreshIsReplace DEF List!Next
<1> QED BY <1>2, <1>3, <1>4, <1>5, <1>6, <1>7, <1>8, <1>9 DEF Next, Key, List!Next

\* The screen implements a highlight on a list, whatever list it is: keys move it
\* along what is drawn, a refresh leaves it with its process or puts it on top
\* (__main__.py:156-184, 214-226).
THEOREM ListImplemented == Spec => ListSpec
<1>1. Init => List!Init
    BY InitList
<1>2. IInv /\ NoneInv /\ [Next]_vars => [List!Next]_(List!vars)
    BY NextList
<1>3. Spec => []NoneInv
    BY InitNoneInv, NextNoneInv, Inductive, PTL DEF Spec
<1> QED BY <1>1, <1>2, <1>3, Inductive, PTL DEF Spec, ListSpec, List!Spec
=============================================================================
