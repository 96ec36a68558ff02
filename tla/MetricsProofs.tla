---------------------------- MODULE MetricsProofs ----------------------------
(***************************************************************************)
(* The counters of a process and the system-wide histories, for any       *)
(* finite set of threads and of PMUs, any levels, readings and number of  *)
(* frames.                                                                *)
(*                                                                        *)
(* The sums come first: SumFunctionOnSet adds up in an order that nobody  *)
(* chose, so what it gives is proved by taking, of the subsets for which  *)
(* a fact fails, a smallest one (Smallest, SetInduction).  Each bucket is *)
(* then shown to hold the sums over just the threads that are its         *)
(* (BucketSums), and each history the last frames that had a point for it *)
(* (HistoriesTogether); the properties follow from those.                 *)
(***************************************************************************)
EXTENDS Metrics, FiniteSetTheorems, WellFoundedInduction, TLAPS

----------------------------------------------------------------------------
(* Sums over finite sets. *)

\* Of the subsets of a finite set that have a property one is smallest.
LEMMA Smallest ==
    ASSUME NEW S, IsFiniteSet(S), NEW Bad, Bad \subseteq SUBSET S, Bad # {}
    PROVE  \E T \in Bad : \A U \in Bad : ~(U \subseteq T /\ U # T)
<1>1. IsWellFoundedOn(StrictSubsetOrdering(S), SUBSET S)
    BY FS_StrictSubsetOrderingWellFounded, FS_FiniteSubsetsOfFinite
<1>2. PICK T \in Bad : \A U \in Bad : ~(<<U, T>> \in StrictSubsetOrdering(S))
    BY <1>1, WFMin
<1>3. \A U \in Bad : U \subseteq T /\ U # T => <<U, T>> \in StrictSubsetOrdering(S)
    BY DEF StrictSubsetOrdering
<1>4. \A U \in Bad : ~(U \subseteq T /\ U # T)
    <2> TAKE U \in Bad
    <2>1. ~(<<U, T>> \in StrictSubsetOrdering(S))
        BY <1>2
    <2> QED BY <1>3, <2>1
<1> QED BY <1>4, Zenon

\* Induction over a finite set, for a set of its subsets.
LEMMA SetInduction ==
    ASSUME NEW S, IsFiniteSet(S), NEW Good, {} \in Good,
           \A T \in SUBSET S : \A x \in S \ T : T \in Good => T \cup {x} \in Good
    PROVE  S \in Good
<1> DEFINE Bad == {T \in SUBSET S : T \notin Good}
<1> SUFFICES ASSUME S \notin Good PROVE FALSE
    OBVIOUS
<1>1. PICK T \in Bad : \A U \in Bad : ~(U \subseteq T /\ U # T)
    <2>1. Bad \subseteq SUBSET S /\ Bad # {}
        OBVIOUS
    <2> HIDE DEF Bad
    <2> QED BY <2>1, Smallest
<1>2. PICK x \in T : TRUE
    BY <1>1
<1>3. T \ {x} \in Good
    BY <1>1, <1>2
<1>4. (T \ {x}) \cup {x} = T
    BY <1>2
<1> QED BY <1>1, <1>2, <1>3, <1>4

Pick(T) == CHOOSE x \in T : TRUE

\* G is the sum of w over every subset of S.
Sums(G, w, S) ==
    /\ G \in [SUBSET S -> Nat]
    /\ G[{}] = 0
    /\ \A T \in SUBSET S : \A x \in T : G[T] = w[x] + G[T \ {x}]

\* A family of sums over the subsets of a finite set exists.
LEMMA SumsExist ==
    ASSUME NEW S, IsFiniteSet(S), NEW w, \A x \in S : w[x] \in Nat
    PROVE  \E G : Sums(G, w, S)
<1> DEFINE Good == {T \in SUBSET S : \E G : Sums(G, w, T)}
<1>1. {} \in Good
    <2>1. Sums([T \in SUBSET {} |-> 0], w, {})
        BY DEF Sums
    <2> QED BY <2>1
<1>2. ASSUME NEW T \in SUBSET S, NEW x \in S \ T, T \in Good PROVE T \cup {x} \in Good
    <2>1. PICK G : Sums(G, w, T)
        BY <1>2
    <2> DEFINE H == [U \in SUBSET (T \cup {x}) |-> G[U \ {x}] + IF x \in U THEN w[x] ELSE 0]
    <2>2. \A U \in SUBSET (T \cup {x}) : U \ {x} \in SUBSET T
        OBVIOUS
    <2>3. H \in [SUBSET (T \cup {x}) -> Nat] /\ H[{}] = 0
        <3>1. \A U \in SUBSET (T \cup {x}) : G[U \ {x}] \in Nat /\ w[x] \in Nat
            BY <2>1, <2>2 DEF Sums
        <3>2. {} \ {x} = {}
            OBVIOUS
        <3> QED BY <2>1, <3>1, <3>2 DEF Sums
    <2>4. ASSUME NEW U \in SUBSET (T \cup {x}), NEW y \in U PROVE H[U] = w[y] + H[U \ {y}]
        <3>1. CASE y = x
            <4>1. (U \ {y}) \ {x} = U \ {x} /\ x \notin U \ {y} /\ U \ {y} \in SUBSET (T \cup {x})
                BY <3>1
            <4>2. H[U] = G[U \ {x}] + w[x] /\ H[U \ {y}] = G[U \ {x}] + 0
                BY <3>1, <4>1
            <4>3. G[U \ {x}] \in Nat /\ w[x] \in Nat
                BY <2>1, <2>2 DEF Sums
            <4> QED BY <3>1, <4>2, <4>3
        <3>2. CASE y # x
            <4>1. /\ (U \ {y}) \ {x} = (U \ {x}) \ {y} /\ y \in U \ {x}
                  /\ (x \in U \ {y} <=> x \in U) /\ U \ {y} \in SUBSET (T \cup {x})
                BY <3>2
            <4>2. G[U \ {x}] = w[y] + G[(U \ {x}) \ {y}]
                BY <2>1, <2>2, <4>1 DEF Sums
            <4>3. G[(U \ {x}) \ {y}] \in Nat /\ w[x] \in Nat /\ w[y] \in Nat
                BY <2>1, <2>2, <4>1 DEF Sums
            <4>4. /\ H[U] = G[U \ {x}] + IF x \in U THEN w[x] ELSE 0
                  /\ H[U \ {y}] = G[(U \ {x}) \ {y}] + IF x \in U THEN w[x] ELSE 0
                BY <4>1
            <4> QED BY <4>2, <4>3, <4>4
        <3> QED BY <3>1, <3>2
    <2> HIDE DEF H
    <2>5. Sums(H, w, T \cup {x})
        BY <2>3, <2>4 DEF Sums
    <2> QED BY <2>5
<1> HIDE DEF Good
<1>3. S \in Good
    BY <1>1, <1>2, SetInduction
<1> QED BY <1>3 DEF Good

\* SumFunctionOnSet is such a family.
LEMMA SumIs ==
    ASSUME NEW S, IsFiniteSet(S), NEW w, NEW G, Sums(G, w, S)
    PROVE  SumFunctionOnSet(w, S) = G[S]
<1> DEFINE Step(g, T) == IF T = {} THEN 0 ELSE w[Pick(T)] + g[T \ {Pick(T)}]
           Rec(g) == g = [T \in SUBSET S |-> Step(g, T)]
           Iter == CHOOSE g : Rec(g)
<1>1. SumFunctionOnSet(w, S) = Iter[S]
    BY DEF SumFunctionOnSet, FoldFunctionOnSet, MapThenFoldSet, Pick
<1>2. \A T : T # {} => Pick(T) \in T
    BY DEF Pick
<1>3. \A T \in SUBSET S : G[T] = Step(G, T)
    BY <1>2 DEF Sums
<1>4. Rec(G)
    <2>1. G = [T \in SUBSET S |-> G[T]]
        BY DEF Sums
    <2> QED BY <1>3, <2>1
<1>5. Rec(Iter)
    <2> HIDE DEF Rec
    <2> QED BY <1>4
<1>6. \A T \in SUBSET S : Iter[T] = Step(Iter, T)
    <2> HIDE DEF Iter
    <2> QED BY <1>5
<1> HIDE DEF Iter
<1> DEFINE Bad == {T \in SUBSET S : Iter[T] # G[T]}
<1> SUFFICES ASSUME Bad # {} PROVE FALSE
    BY <1>1
<1>7. PICK T \in Bad : \A U \in Bad : ~(U \subseteq T /\ U # T)
    <2>1. Bad \subseteq SUBSET S
        OBVIOUS
    <2> HIDE DEF Bad
    <2> QED BY <2>1, Smallest
<1>8. CASE T = {}
    BY <1>3, <1>6, <1>7, <1>8
<1>9. CASE T # {}
    <2>1. T \ {Pick(T)} \in SUBSET S /\ T \ {Pick(T)} \subseteq T /\ T \ {Pick(T)} # T
        BY <1>2, <1>7, <1>9
    <2>2. Iter[T \ {Pick(T)}] = G[T \ {Pick(T)}]
        BY <1>7, <2>1
    <2> QED BY <1>3, <1>6, <1>7, <1>9, <2>2
<1> QED BY <1>8, <1>9

\* The sum grows by what is added to the set.
LEMMA SumFacts ==
    ASSUME NEW S, IsFiniteSet(S), NEW w, \A x \in S : w[x] \in Nat
    PROVE  /\ SumFunctionOnSet(w, {}) = 0
           /\ \A T \in SUBSET S : SumFunctionOnSet(w, T) \in Nat
           /\ \A T \in SUBSET S : \A x \in S \ T :
                 SumFunctionOnSet(w, T \cup {x}) = SumFunctionOnSet(w, T) + w[x]
<1>1. PICK G : Sums(G, w, S)
    BY SumsExist
<1>2. ASSUME NEW T \in SUBSET S PROVE SumFunctionOnSet(w, T) = G[T]
    <2> DEFINE H == [U \in SUBSET T |-> G[U]]
    <2>1. Sums(H, w, T)
        <3>1. H \in [SUBSET T -> Nat] /\ H[{}] = 0
            BY <1>1 DEF Sums
        <3>2. ASSUME NEW U \in SUBSET T, NEW x \in U PROVE H[U] = w[x] + H[U \ {x}]
            BY <1>1 DEF Sums
        <3> HIDE DEF H
        <3> QED BY <3>1, <3>2 DEF Sums
    <2>2. IsFiniteSet(T)
        BY FS_Subset
    <2> HIDE DEF H
    <2>3. SumFunctionOnSet(w, T) = H[T]
        BY <2>1, <2>2, SumIs
    <2> QED BY <2>3 DEF H
<1>3. ASSUME NEW T \in SUBSET S, NEW x \in S \ T PROVE G[T \cup {x}] = G[T] + w[x]
    <2>1. (T \cup {x}) \ {x} = T /\ T \cup {x} \in SUBSET S
        OBVIOUS
    <2>2. G[T \cup {x}] = w[x] + G[T] /\ G[T] \in Nat
        BY <1>1, <2>1 DEF Sums
    <2> QED BY <2>2
<1>4. SumFunctionOnSet(w, {}) = 0 /\ \A T \in SUBSET S : SumFunctionOnSet(w, T) \in Nat
    BY <1>1, <1>2 DEF Sums
<1>5. ASSUME NEW T \in SUBSET S, NEW x \in S \ T
      PROVE  SumFunctionOnSet(w, T \cup {x}) = SumFunctionOnSet(w, T) + w[x]
    <2>1. T \cup {x} \in SUBSET S
        OBVIOUS
    <2> QED BY <1>2, <1>3, <2>1
<1> QED BY <1>4, <1>5

\* One more member.
LEMMA SumAdd ==
    ASSUME NEW S, IsFiniteSet(S), NEW w, \A y \in S : w[y] \in Nat,
           NEW T, T \subseteq S, NEW x, x \in S, x \notin T
    PROVE  SumFunctionOnSet(w, T \cup {x}) = SumFunctionOnSet(w, T) + w[x]
<1>1. T \in SUBSET S /\ x \in S \ T
    OBVIOUS
<1> QED BY <1>1, SumFacts

\* What is zero outside a subset adds nothing there.
LEMMA SumSupport ==
    ASSUME NEW S, IsFiniteSet(S), NEW T \in SUBSET S, NEW v, NEW w,
           \A x \in S : v[x] \in Nat, \A x \in T : w[x] = v[x], \A x \in S \ T : v[x] = 0
    PROVE  SumFunctionOnSet(v, S) = SumFunctionOnSet(w, T)
<1> DEFINE Good == {U \in SUBSET S : SumFunctionOnSet(v, U) = SumFunctionOnSet(w, U \cap T)}
<1>0. IsFiniteSet(T) /\ \A x \in T : w[x] \in Nat
    BY FS_Subset
<1>1. {} \in Good
    <2>1. {} \cap T = {}
        OBVIOUS
    <2> QED BY <1>0, <2>1, SumFacts
<1>2. ASSUME NEW U \in SUBSET S, NEW x \in S \ U, U \in Good PROVE U \cup {x} \in Good
    <2>1. SumFunctionOnSet(v, U \cup {x}) = SumFunctionOnSet(v, U) + v[x]
        BY SumFacts
    <2>2. CASE x \in T
        <3>1. (U \cup {x}) \cap T = (U \cap T) \cup {x} /\ U \cap T \in SUBSET T /\ x \in T \ (U \cap T)
            BY <2>2
        <3>2. SumFunctionOnSet(w, (U \cap T) \cup {x}) = SumFunctionOnSet(w, U \cap T) + w[x]
            <4> DEFINE V == U \cap T
            <4>1. V \subseteq T /\ x \notin V /\ x \in T
                BY <3>1
            <4> HIDE DEF V
            <4>2. SumFunctionOnSet(w, V \cup {x}) = SumFunctionOnSet(w, V) + w[x]
                BY <1>0, <4>1, SumAdd
            <4> QED BY <4>2 DEF V
        <3> QED BY <1>2, <2>1, <2>2, <3>1, <3>2
    <2>3. CASE x \notin T
        <3>1. (U \cup {x}) \cap T = U \cap T
            BY <2>3
        <3>2. SumFunctionOnSet(v, U) \in Nat
            BY SumFacts
        <3>3. v[x] = 0
            BY <2>3
        <3>4. SumFunctionOnSet(v, U \cup {x}) = SumFunctionOnSet(v, U)
            BY <2>1, <3>2, <3>3
        <3> QED BY <1>2, <3>1, <3>4
    <2> QED BY <2>2, <2>3
<1> HIDE DEF Good
<1>3. S \in Good
    BY <1>1, <1>2, SetInduction
<1>4. S \cap T = T
    OBVIOUS
<1> QED BY <1>3, <1>4 DEF Good

\* The sum of two functions.
LEMMA SumPlus ==
    ASSUME NEW S, IsFiniteSet(S), NEW u, NEW v, NEW w,
           \A x \in S : v[x] \in Nat /\ w[x] \in Nat /\ u[x] = v[x] + w[x]
    PROVE  SumFunctionOnSet(u, S) = SumFunctionOnSet(v, S) + SumFunctionOnSet(w, S)
<1> DEFINE Good == {T \in SUBSET S : SumFunctionOnSet(u, T) = SumFunctionOnSet(v, T) + SumFunctionOnSet(w, T)}
<1>0. \A x \in S : u[x] \in Nat /\ v[x] \in Nat /\ w[x] \in Nat
    OBVIOUS
<1>1. {} \in Good
    BY <1>0, SumFacts
<1>2. ASSUME NEW T \in SUBSET S, NEW x \in S \ T, T \in Good PROVE T \cup {x} \in Good
    <2>1. SumFunctionOnSet(u, T \cup {x}) = SumFunctionOnSet(u, T) + u[x]
        BY <1>0, SumFacts
    <2>2. SumFunctionOnSet(v, T \cup {x}) = SumFunctionOnSet(v, T) + v[x]
        BY <1>0, SumFacts
    <2>3. SumFunctionOnSet(w, T \cup {x}) = SumFunctionOnSet(w, T) + w[x]
        BY <1>0, SumFacts
    <2>4. SumFunctionOnSet(v, T) \in Nat /\ SumFunctionOnSet(w, T) \in Nat
        BY <1>0, SumFacts
    <2> QED BY <1>0, <1>2, <2>1, <2>2, <2>3, <2>4
<1> HIDE DEF Good
<1>3. S \in Good
    BY <1>1, <1>2, SetInduction
<1> QED BY <1>3 DEF Good

\* Sums are ordered as their terms are.
LEMMA SumLeq ==
    ASSUME NEW S, IsFiniteSet(S), NEW v, NEW w,
           \A x \in S : v[x] \in Nat /\ w[x] \in Nat /\ v[x] <= w[x]
    PROVE  SumFunctionOnSet(v, S) <= SumFunctionOnSet(w, S)
<1> DEFINE d == [x \in S |-> w[x] - v[x]]
<1>1. \A x \in S : v[x] \in Nat /\ d[x] \in Nat /\ w[x] = v[x] + d[x]
    OBVIOUS
<1> HIDE DEF d
<1>2. SumFunctionOnSet(w, S) = SumFunctionOnSet(v, S) + SumFunctionOnSet(d, S)
    BY <1>1, SumPlus
<1>3. SumFunctionOnSet(v, S) \in Nat /\ SumFunctionOnSet(d, S) \in Nat
    BY <1>1, SumFacts
<1> QED BY <1>2, <1>3

\* No term exceeds the sum.
LEMMA SumMember ==
    ASSUME NEW S, IsFiniteSet(S), NEW w, \A y \in S : w[y] \in Nat, NEW x \in S
    PROVE  w[x] <= SumFunctionOnSet(w, S)
<1> DEFINE T == S \ {x}
<1>1. T \subseteq S /\ x \notin T /\ T \cup {x} = S /\ T \in SUBSET S
    OBVIOUS
<1> HIDE DEF T
<1>2. SumFunctionOnSet(w, S) = SumFunctionOnSet(w, T) + w[x]
    BY <1>1, SumAdd
<1>3. SumFunctionOnSet(w, T) \in Nat
    BY <1>1, SumFacts
<1> QED BY <1>2, <1>3

\* Along a one-to-one map.
LEMMA SumAlong ==
    ASSUME NEW D, IsFiniteSet(D), NEW S, IsFiniteSet(S), NEW v, NEW w, NEW h \in [D -> S],
           \A x \in S : w[x] \in Nat,
           \A t \in D : v[t] = w[h[t]], \A t, u \in D : h[t] = h[u] => t = u,
           \A x \in S : \E t \in D : x = h[t]
    PROVE  SumFunctionOnSet(v, D) = SumFunctionOnSet(w, S)
<1> DEFINE Image(T) == {h[t] : t \in T}
           Good == {T \in SUBSET D : SumFunctionOnSet(w, Image(T)) = SumFunctionOnSet(v, T)}
<1>0. \A t \in D : v[t] \in Nat
    OBVIOUS
<1>1. {} \in Good
    <2>1. Image({}) = {}
        OBVIOUS
    <2>2. SumFunctionOnSet(w, {}) = 0 /\ SumFunctionOnSet(v, {}) = 0
        BY <1>0, SumFacts
    <2> QED BY <2>1, <2>2
<1>2. ASSUME NEW T \in SUBSET D, NEW t \in D \ T, T \in Good PROVE T \cup {t} \in Good
    <2>1. Image(T \cup {t}) = Image(T) \cup {h[t]} /\ Image(T) \in SUBSET S /\ h[t] \in S \ Image(T)
        OBVIOUS
    <2>2. Image(T) \subseteq S /\ h[t] \in S /\ h[t] \notin Image(T)
        BY <2>1
    <2>3. SumFunctionOnSet(w, Image(T \cup {t})) = SumFunctionOnSet(w, Image(T)) + w[h[t]]
        <3> DEFINE I == Image(T)
                   y == h[t]
        <3>1. I \subseteq S /\ y \in S /\ y \notin I
            BY <2>2
        <3> HIDE DEF I, y
        <3>2. SumFunctionOnSet(w, I \cup {y}) = SumFunctionOnSet(w, I) + w[y]
            BY <3>1, SumAdd
        <3> QED BY <2>1, <3>2 DEF I, y
    <2>4. SumFunctionOnSet(v, T \cup {t}) = SumFunctionOnSet(v, T) + v[t]
        BY <1>0, SumFacts
    <2> QED BY <1>2, <2>3, <2>4
<1>3. D \in Good
    <2> HIDE DEF Good
    <2> QED BY <1>1, <1>2, SetInduction
<1>4. Image(D) = S
    OBVIOUS
<1> QED BY <1>3, <1>4

\* The parts, by p \in P, make up S and are disjoint.
Partition(part, P, S) ==
    /\ \A p \in P : part[p] \subseteq S
    /\ \A x \in S : \E p \in P : x \in part[p]
    /\ \A x \in S : \A p, q \in P : x \in part[p] /\ x \in part[q] => p = q

\* Part by part is all at once.
LEMMA SumClasses ==
    ASSUME NEW S, IsFiniteSet(S), NEW P, IsFiniteSet(P), NEW v, NEW w, NEW part,
           \A x \in S : w[x] \in Nat,
           Partition(part, P, S), \A p \in P : v[p] = SumFunctionOnSet(w, part[p])
    PROVE  SumFunctionOnSet(v, P) = SumFunctionOnSet(w, S)
<1> DEFINE on == [Q \in SUBSET P |-> [x \in S |-> IF \E q \in Q : x \in part[q] THEN w[x] ELSE 0]]
           Good == {Q \in SUBSET P : SumFunctionOnSet(v, Q) = SumFunctionOnSet(on[Q], S)}
<1> USE DEF Partition
<1>0. ASSUME NEW Q \in SUBSET P
      PROVE  /\ \A x \in S : on[Q][x] \in Nat
             /\ SumFunctionOnSet(on[Q], S) = SumFunctionOnSet(w, {x \in S : \E q \in Q : x \in part[q]})
    <2> DEFINE T == {x \in S : \E q \in Q : x \in part[q]}
    <2>1. /\ T \in SUBSET S
          /\ \A x \in S : on[Q][x] \in Nat
          /\ \A x \in T : w[x] = on[Q][x]
          /\ \A x \in S \ T : on[Q][x] = 0
        OBVIOUS
    <2>2. SumFunctionOnSet(on[Q], S) = SumFunctionOnSet(w, T)
        <3> DEFINE u == on[Q]
        <3>1. /\ T \in SUBSET S
              /\ \A x \in S : u[x] \in Nat
              /\ \A x \in T : w[x] = u[x]
              /\ \A x \in S \ T : u[x] = 0
            BY <2>1
        <3> HIDE DEF T, u
        <3>2. SumFunctionOnSet(u, S) = SumFunctionOnSet(w, T)
            BY <3>1, SumSupport
        <3> QED BY <3>2 DEF u
    <2> HIDE DEF on
    <2> QED BY <2>1, <2>2
<1>9. ASSUME NEW p \in P
      PROVE  v[p] = SumFunctionOnSet(on[{p}], S) /\ v[p] \in Nat
    <2>1. {x \in S : \E q \in {p} : x \in part[q]} = part[p] /\ {p} \in SUBSET P
        OBVIOUS
    <2> HIDE DEF on
    <2>5. SumFunctionOnSet(on[{p}], S) = SumFunctionOnSet(w, {x \in S : \E q \in {p} : x \in part[q]})
        BY <1>0, <2>1
    <2>2. v[p] = SumFunctionOnSet(on[{p}], S)
        BY <2>1, <2>5
    <2>3. \A x \in S : on[{p}][x] \in Nat
        BY <1>0, <2>1
    <2>4. SumFunctionOnSet(on[{p}], S) \in Nat
        BY <2>3, SumFacts
    <2> QED BY <2>2, <2>4
<1>1. {} \in Good
    <2>1. {x \in S : \E q \in {} : x \in part[q]} = {} /\ {} \in SUBSET P
        OBVIOUS
    <2>2. SumFunctionOnSet(on[{}], S) = SumFunctionOnSet(w, {})
        <3> HIDE DEF on
        <3> QED BY <1>0, <2>1
    <2>3. SumFunctionOnSet(w, {}) = 0
        BY SumFacts
    <2>4. \A p \in P : v[p] \in Nat
        BY <1>9
    <2>5. SumFunctionOnSet(v, {}) = 0
        BY <2>4, SumFacts
    <2> HIDE DEF on
    <2> QED BY <2>1, <2>2, <2>3, <2>5
<1>2. ASSUME NEW Q \in SUBSET P, NEW p \in P \ Q, Q \in Good PROVE Q \cup {p} \in Good
    <2>0. \A q \in P : v[q] \in Nat
        BY <1>9
    <2>1. SumFunctionOnSet(v, Q \cup {p}) = SumFunctionOnSet(v, Q) + v[p]
        BY <2>0, SumFacts
    <2> DEFINE a == on[Q]
               b == on[{p}]
               c == on[Q \cup {p}]
    <2>2. \A x \in S : a[x] \in Nat /\ b[x] \in Nat /\ c[x] = a[x] + b[x]
        OBVIOUS
    <2>3. SumFunctionOnSet(c, S) = SumFunctionOnSet(a, S) + SumFunctionOnSet(b, S)
        <3> HIDE DEF a, b, c
        <3> QED BY <2>2, SumPlus
    <2> HIDE DEF on
    <2>4. v[p] = SumFunctionOnSet(on[{p}], S)
        BY <1>9
    <2> QED BY <1>2, <2>1, <2>3, <2>4
<1>3. P \in Good
    <2> HIDE DEF Good
    <2> QED BY <1>1, <1>2, SetInduction
<1>4. {x \in S : \E q \in P : x \in part[q]} = S /\ P \in SUBSET P
    OBVIOUS
<1>5. SumFunctionOnSet(on[P], S) = SumFunctionOnSet(w, S)
    <2> HIDE DEF on
    <2> QED BY <1>0, <1>4
<1> HIDE DEF on
<1> QED BY <1>3, <1>5

\* A sum of what was counted is known by what each part adds, and by whether
\* any part was counted.
LEMMA CountedFacts ==
    ASSUME NEW S, IsFiniteSet(S), NEW f \in [S -> Nat \cup {None}],
           NEW v, \A x \in S : v[x] = Num(f[x])
    PROVE  /\ \A x \in S : v[x] \in Nat
           /\ SumCounted(f) \in Nat \cup {None}
           /\ SumCounted(f) = None <=> \A x \in S : f[x] = None
           /\ Num(SumCounted(f)) = SumFunctionOnSet(v, S)
<1> DEFINE T == {x \in S : f[x] # None}
<1>1. /\ \A x \in S : v[x] \in Nat
      /\ \A x \in T : f[x] = v[x]
      /\ \A x \in S \ T : v[x] = 0
    BY NoneAssumption DEF Num
<1>2. T \in SUBSET S
    OBVIOUS
<1>3. SumCounted(f) = IF T = {} THEN None ELSE SumFunctionOnSet(f, T)
    BY DEF SumCounted
<1>4. T = {} <=> \A x \in S : f[x] = None
    OBVIOUS
<1>5. SumFunctionOnSet(v, S) = SumFunctionOnSet(f, T) /\ SumFunctionOnSet(v, S) \in Nat
    <2> HIDE DEF T
    <2>1. SumFunctionOnSet(v, S) = SumFunctionOnSet(f, T)
        BY <1>1, <1>2, SumSupport
    <2>2. S \in SUBSET S
        OBVIOUS
    <2> QED BY <1>1, <2>1, <2>2, SumFacts
<1>6. T = {} => SumFunctionOnSet(f, T) = 0
    <2> HIDE DEF T
    <2>1. SumFunctionOnSet(v, {}) = 0
        BY <1>1, SumFacts
    <2>2. SUFFICES ASSUME T = {} PROVE SumFunctionOnSet(f, {}) = 0
        OBVIOUS
    <2>3. /\ {} \in SUBSET S
          /\ \A x \in {} : f[x] = v[x]
        OBVIOUS
    <2>4. IsFiniteSet({}) /\ {} \in SUBSET {} /\ \A x \in {} : f[x] \in Nat
        BY FS_EmptySet
    <2> QED BY <2>4, SumFacts
<1>7. SumCounted(f) \in Nat \cup {None} /\ (SumCounted(f) = None <=> \A x \in S : f[x] = None)
    BY <1>3, <1>4, <1>5, NoneAssumption
<1>8. Num(SumCounted(f)) = SumFunctionOnSet(v, S)
    BY <1>3, <1>5, <1>6, NoneAssumption DEF Num
<1> QED BY <1>1, <1>7, <1>8

\* A counter is told by whether it is missing and by its number.
LEMMA SameCounter ==
    ASSUME NEW a \in Nat \cup {None}, NEW b \in Nat \cup {None},
           a = None <=> b = None, Num(a) = Num(b)
    PROVE  a = b
BY NoneAssumption DEF Num

\* One more part.
LEMMA CountedAdd ==
    ASSUME NEW S, IsFiniteSet(S), NEW x, x \notin S, NEW f \in [S \cup {x} -> Nat \cup {None}]
    PROVE  SumCounted(f) = LET rest == SumCounted([y \in S |-> f[y]]) IN
                           IF f[x] = None THEN rest ELSE Num(rest) + f[x]
<1> DEFINE R == S \cup {x}
           g == [y \in S |-> f[y]]
           v == [y \in R |-> Num(f[y])]
           rest == SumCounted(g)
           new == IF f[x] = None THEN rest ELSE Num(rest) + f[x]
<1>1. IsFiniteSet(R) /\ S \subseteq R /\ S \in SUBSET R /\ x \in R /\ f \in [R -> Nat \cup {None}]
    BY FS_AddElement
<1>2. g \in [S -> Nat \cup {None}] /\ \A y \in S : g[y] = f[y]
    OBVIOUS
<1>3. \A y \in S : v[y] = Num(g[y])
    OBVIOUS
<1>4. \A y \in R : v[y] = Num(f[y])
    OBVIOUS
<1>5. v[x] = Num(f[x]) /\ f[x] \in Nat \cup {None} /\ S \cup {x} = R
    OBVIOUS
<1>6. /\ \A y \in R : v[y] \in Nat
      /\ SumCounted(f) \in Nat \cup {None}
      /\ SumCounted(f) = None <=> \A y \in R : f[y] = None
      /\ Num(SumCounted(f)) = SumFunctionOnSet(v, R)
    <2> HIDE DEF R, v
    <2> QED BY <1>1, <1>4, CountedFacts
<1>7. /\ rest \in Nat \cup {None}
      /\ rest = None <=> \A y \in S : g[y] = None
      /\ Num(rest) = SumFunctionOnSet(v, S)
    <2> HIDE DEF g, v, R
    <2> QED BY <1>2, <1>3, CountedFacts
<1>8. SumFunctionOnSet(v, R) = SumFunctionOnSet(v, S) + v[x]
    <2> HIDE DEF R, v
    <2> QED BY <1>1, <1>5, <1>6, SumAdd
<1> HIDE DEF rest, v
<1>9. new \in Nat \cup {None} /\ (new = None <=> rest = None /\ f[x] = None)
      /\ Num(new) = Num(rest) + Num(f[x])
    BY <1>5, <1>7, NoneAssumption DEF Num
<1>10. SumCounted(f) = None <=> new = None
    BY <1>2, <1>6, <1>7, <1>9
<1>11. Num(SumCounted(f)) = Num(new)
    BY <1>5, <1>6, <1>7, <1>8, <1>9
<1>12. SumCounted(f) = new
    <2> HIDE DEF new
    <2> QED BY <1>6, <1>9, <1>10, <1>11, SameCounter
<1> QED BY <1>12 DEF rest

PartSums(g, f, part, P) == \A p \in P : g[p] = SumCounted([x \in part[p] |-> f[x]])

\* The counters of the parts of a partition add up to those of the whole.
LEMMA CountedParts ==
    ASSUME NEW S, IsFiniteSet(S), NEW P, IsFiniteSet(P), NEW part,
           NEW f \in [S -> Nat \cup {None}], NEW g \in [P -> Nat \cup {None}],
           Partition(part, P, S), PartSums(g, f, part, P)
    PROVE  SumCounted(g) = SumCounted(f)
<1>1. PICK w : \A x \in S : w[x] = Num(f[x])
    <2> WITNESS [x \in S |-> Num(f[x])]
    <2> QED OBVIOUS
<1>2. PICK v : \A p \in P : v[p] = Num(g[p])
    <2> WITNESS [p \in P |-> Num(g[p])]
    <2> QED OBVIOUS
<1>3. /\ \A x \in S : w[x] \in Nat
      /\ SumCounted(f) \in Nat \cup {None}
      /\ SumCounted(f) = None <=> \A x \in S : f[x] = None
      /\ Num(SumCounted(f)) = SumFunctionOnSet(w, S)
    BY <1>1, CountedFacts
<1>4. ASSUME NEW p \in P
      PROVE  /\ g[p] \in Nat \cup {None}
             /\ g[p] = None <=> \A x \in part[p] : f[x] = None
             /\ v[p] = SumFunctionOnSet(w, part[p])
    <2>1. IsFiniteSet(part[p]) /\ part[p] \subseteq S
        BY FS_Subset DEF Partition
    <2>2. PICK T : T = part[p]
        OBVIOUS
    <2>3. PICK d : d = [x \in T |-> f[x]]
        OBVIOUS
    <2>4. /\ d \in [T -> Nat \cup {None}] /\ IsFiniteSet(T)
          /\ \A x \in T : d[x] = f[x]
        BY <2>1, <2>2, <2>3
    <2>7. g[p] = SumCounted(d)
        BY <2>2, <2>3 DEF PartSums
    <2>6. \A x \in T : w[x] = Num(d[x])
        BY <1>1, <2>1, <2>2, <2>4
    <2>5. /\ SumCounted(d) \in Nat \cup {None}
          /\ SumCounted(d) = None <=> \A x \in T : d[x] = None
          /\ Num(SumCounted(d)) = SumFunctionOnSet(w, T)
        BY <2>4, <2>6, CountedFacts
    <2> QED BY <1>2, <2>2, <2>4, <2>5, <2>7
<1>6. /\ SumCounted(g) \in Nat \cup {None}
      /\ SumCounted(g) = None <=> \A p \in P : g[p] = None
      /\ Num(SumCounted(g)) = SumFunctionOnSet(v, P)
    BY <1>2, CountedFacts
<1>7. \A p \in P : v[p] = SumFunctionOnSet(w, part[p])
    BY <1>4
<1>8. SumFunctionOnSet(v, P) = SumFunctionOnSet(w, S)
    <2>1. \A x \in S : w[x] \in Nat
        BY <1>3
    <2> QED BY <1>7, <2>1, SumClasses
<1>9. SumCounted(g) = None <=> SumCounted(f) = None
    BY <1>3, <1>4, <1>6 DEF Partition
<1> QED BY <1>3, <1>6, <1>8, <1>9, SameCounter

\* A sum does not depend on how its terms are named.
LEMMA CountedAlong ==
    ASSUME NEW D, IsFiniteSet(D), NEW S, IsFiniteSet(S), NEW h \in [D -> S],
           NEW e \in [D -> Nat \cup {None}], NEW f \in [S -> Nat \cup {None}],
           \A t \in D : e[t] = f[h[t]], \A t, u \in D : h[t] = h[u] => t = u,
           \A x \in S : \E t \in D : x = h[t]
    PROVE  SumCounted(e) = SumCounted(f)
<1> DEFINE w == [x \in S |-> Num(f[x])]
           v == [t \in D |-> Num(e[t])]
<1>1. /\ \A x \in S : w[x] = Num(f[x])
      /\ \A t \in D : v[t] = Num(e[t])
    OBVIOUS
<1> HIDE DEF v, w
<1>2. /\ \A x \in S : w[x] \in Nat
      /\ SumCounted(f) \in Nat \cup {None}
      /\ SumCounted(f) = None <=> \A x \in S : f[x] = None
      /\ Num(SumCounted(f)) = SumFunctionOnSet(w, S)
    BY <1>1, CountedFacts
<1>3. /\ SumCounted(e) \in Nat \cup {None}
      /\ SumCounted(e) = None <=> \A t \in D : e[t] = None
      /\ Num(SumCounted(e)) = SumFunctionOnSet(v, D)
    BY <1>1, CountedFacts
<1>4. \A t \in D : v[t] = w[h[t]]
    BY <1>1
<1>5. SumFunctionOnSet(v, D) = SumFunctionOnSet(w, S)
    BY <1>2, <1>4, SumAlong
<1>6. SumCounted(e) = None <=> SumCounted(f) = None
    BY <1>2, <1>3
<1> QED BY <1>2, <1>3, <1>5, <1>6, SameCounter

Grid(S, D, P) == S = D \X P

ColumnSums(g, f, D, P) == \A p \in P : g[p] = SumCounted([t \in D |-> f[<<t, p>>]])

\* Sums per column add up to the sum of all.
LEMMA CountedColumns ==
    ASSUME NEW D, IsFiniteSet(D), NEW P, IsFiniteSet(P), NEW S, Grid(S, D, P),
           NEW f \in [S -> Nat \cup {None}], NEW g \in [P -> Nat \cup {None}], ColumnSums(g, f, D, P)
    PROVE  SumCounted(g) = SumCounted(f)
<1> USE DEF Grid
<1>2. PICK part : \A p \in P : part[p] = D \X {p}
    <2> WITNESS [p \in P |-> D \X {p}]
    <2> QED OBVIOUS
<1>4. IsFiniteSet(S) /\ Partition(part, P, S)
    BY <1>2, FS_Product DEF Partition
<1>5. ASSUME NEW p \in P PROVE g[p] = SumCounted([x \in part[p] |-> f[x]])
    <2> DEFINE C == D \X {p}
               h == [t \in D |-> <<t, p>>]
               c == [t \in D |-> f[<<t, p>>]]
               d == [x \in C |-> f[x]]
    <2>1. IsFiniteSet(C)
        BY FS_Product, FS_Singleton
    <2>2. h \in [D -> C] /\ c \in [D -> Nat \cup {None}] /\ d \in [C -> Nat \cup {None}]
        OBVIOUS
    <2>3. \A t \in D : c[t] = d[h[t]]
        OBVIOUS
    <2>4. \A t, u \in D : h[t] = h[u] => t = u
        OBVIOUS
    <2>5. \A x \in C : \E t \in D : x = h[t]
        OBVIOUS
    <2>6. SumCounted(c) = SumCounted(d)
        <3> HIDE DEF C, h, c, d
        <3> QED BY <2>1, <2>2, <2>3, <2>4, <2>5, CountedAlong
    <2>7. [x \in part[p] |-> f[x]] = d
        BY <1>2
    <2>8. g[p] = SumCounted(c)
        BY DEF ColumnSums
    <2> QED BY <2>6, <2>7, <2>8
<1>6. PartSums(g, f, part, P)
    BY <1>5 DEF PartSums
<1> QED BY <1>4, <1>6, CountedParts

\* A part is within the whole.
LEMMA CountedPart ==
    ASSUME NEW S, IsFiniteSet(S), NEW f \in [S -> Nat \cup {None}], NEW x \in S
    PROVE  Num(f[x]) <= Num(SumCounted(f))
<1> DEFINE v == [y \in S |-> Num(f[y])]
<1>1. \A y \in S : v[y] = Num(f[y])
    OBVIOUS
<1> HIDE DEF v
<1>2. (\A y \in S : v[y] \in Nat) /\ Num(SumCounted(f)) = SumFunctionOnSet(v, S)
    BY <1>1, CountedFacts
<1>3. v[x] <= SumFunctionOnSet(v, S)
    BY <1>2, SumMember
<1> QED BY <1>1, <1>2, <1>3

\* Counters that are counted together and part by part ordered, are so in sum.
LEMMA CountedLeq ==
    ASSUME NEW S, IsFiniteSet(S),
           NEW f \in [S -> Nat \cup {None}], NEW g \in [S -> Nat \cup {None}],
           \A x \in S : (f[x] = None <=> g[x] = None) /\ Num(f[x]) <= Num(g[x])
    PROVE  /\ SumCounted(f) = None <=> SumCounted(g) = None
           /\ Num(SumCounted(f)) <= Num(SumCounted(g))
<1> DEFINE v == [y \in S |-> Num(f[y])]
           w == [y \in S |-> Num(g[y])]
<1>1. \A y \in S : v[y] = Num(f[y]) /\ w[y] = Num(g[y])
    OBVIOUS
<1> HIDE DEF v, w
<1>2. /\ \A y \in S : v[y] \in Nat
      /\ SumCounted(f) = None <=> \A x \in S : f[x] = None
      /\ Num(SumCounted(f)) = SumFunctionOnSet(v, S)
    BY <1>1, CountedFacts
<1>3. /\ \A y \in S : w[y] \in Nat
      /\ SumCounted(g) = None <=> \A x \in S : g[x] = None
      /\ Num(SumCounted(g)) = SumFunctionOnSet(w, S)
    BY <1>1, CountedFacts
<1>4. \A x \in S : v[x] \in Nat /\ w[x] \in Nat /\ v[x] <= w[x]
    BY <1>1, <1>2, <1>3
<1>5. SumFunctionOnSet(v, S) <= SumFunctionOnSet(w, S)
    BY <1>4, SumLeq
<1> QED BY <1>2, <1>3, <1>5

----------------------------------------------------------------------------
(* What is derived of some counters. *)

\* A percentage of something greater is one.
LEMMA PercentFacts ==
    ASSUME NEW miss \in Nat \cup {None}, NEW acc \in Nat \cup {None}
    PROVE  /\ Percent(miss, acc) \in Nat \cup {None}
           /\ Num(miss) <= Num(acc) => Percent(miss, acc) \in Percentages
<1>1. CASE acc \in {None, 0} \/ miss = None
    BY <1>1 DEF Percent, Percentages
<1>2. CASE ~(acc \in {None, 0} \/ miss = None)
    <2>1. miss \in Nat /\ acc \in Nat \ {0} /\ Num(miss) = miss /\ Num(acc) = acc
        BY <1>2 DEF Num
    <2>2. Percent(miss, acc) = (100 * miss) \div acc
        BY <1>2 DEF Percent
    <2>3. (100 * miss) \div acc \in Nat
        BY <2>1
    <2>4. miss <= acc => (100 * miss) \div acc \in 0 .. 100
        BY <2>1
    <2> QED BY <2>1, <2>2, <2>3, <2>4 DEF Percentages
<1> QED BY <1>1, <1>2

\* A total is a counter, and no smaller than any part of it.
LEMMA TotalFacts ==
    ASSUME NEW counts \in Counts, NEW pmus \in SUBSET Pmus, NEW slot \in Slots
    PROVE  /\ Total(counts, pmus, slot) \in Nat \cup {None}
           /\ \A p \in pmus : Num(counts[p][slot]) <= Num(Total(counts, pmus, slot))
<1> DEFINE f == [p \in pmus |-> counts[p][slot]]
           v == [p \in pmus |-> Num(f[p])]
<1>1. IsFiniteSet(pmus)
    BY FiniteAssumption, FS_Subset
<1>2. f \in [pmus -> Nat \cup {None}] /\ \A p \in pmus : f[p] = counts[p][slot]
    BY DEF Counts
<1>3. \A p \in pmus : v[p] = Num(f[p])
    OBVIOUS
<1>4. Total(counts, pmus, slot) = SumCounted(f)
    BY DEF Total
<1> HIDE DEF f, v
<1>5. SumCounted(f) \in Nat \cup {None}
    BY <1>1, <1>2, <1>3, CountedFacts
<1>6. \A p \in pmus : Num(f[p]) <= Num(SumCounted(f))
    BY <1>1, <1>2, CountedPart
<1> QED BY <1>2, <1>4, <1>5, <1>6

\* The slots that are read by name.
LEMMA SlotFacts ==
    /\ \A level \in Levels : \A kind \in {"access", "miss", "evict"} : <<level, kind>> \in Slots
    /\ <<"ctx", "instructions">> \in Slots /\ <<"ctx", "cycles">> \in Slots
BY DEF Slots

\* Cycles are a number, whatever is missing.
LEMMA CyclesFacts ==
    ASSUME NEW counts \in Counts
    PROVE  /\ Cycles(counts) \in Nat
           /\ \A p \in Pmus : Num(counts[p][<<"ctx", "cycles">>]) <= Cycles(counts)
<1>1. Total(counts, Pmus, <<"ctx", "cycles">>) \in Nat \cup {None}
    BY SlotFacts, TotalFacts
<1>2. \A p \in Pmus : Num(counts[p][<<"ctx", "cycles">>]) <= Num(Total(counts, Pmus, <<"ctx", "cycles">>))
    BY SlotFacts, TotalFacts
<1> QED BY <1>1, <1>2 DEF Cycles, Num

\* Misses never exceed lookups in total if they do not anywhere.
LEMMA TotalTogether ==
    ASSUME NEW counts \in Counts, NEW pmus \in SUBSET Pmus, NEW level \in Levels,
           Together(counts, level)
    PROVE  Num(Total(counts, pmus, <<level, "miss">>)) <= Num(Total(counts, pmus, <<level, "access">>))
<1> DEFINE f == [p \in pmus |-> counts[p][<<level, "miss">>]]
           g == [p \in pmus |-> counts[p][<<level, "access">>]]
<1>1. IsFiniteSet(pmus)
    BY FiniteAssumption, FS_Subset
<1>2. f \in [pmus -> Nat \cup {None}] /\ g \in [pmus -> Nat \cup {None}]
    BY SlotFacts DEF Counts
<1>3. \A p \in pmus : (f[p] = None <=> g[p] = None) /\ Num(f[p]) <= Num(g[p])
    BY DEF Together
<1>4. /\ Total(counts, pmus, <<level, "miss">>) = SumCounted(f)
      /\ Total(counts, pmus, <<level, "access">>) = SumCounted(g)
    BY DEF Total
<1> HIDE DEF f, g
<1>5. Num(SumCounted(f)) <= Num(SumCounted(g))
    BY <1>1, <1>2, <1>3, CountedLeq
<1> QED BY <1>4, <1>5

\* What a level shows, if anything.
LEMMA LevelMetricFacts ==
    ASSUME NEW counts \in Counts, NEW pmus \in SUBSET Pmus, NEW level \in Levels
    PROVE  LET cell == LevelMetric(counts, pmus, level) IN
           cell # None => /\ cell.access \in Nat \cup {None}
                          /\ cell.pct \in Nat \cup {None}
                          /\ Together(counts, level) => cell.pct \in Percentages
<1> DEFINE cell == LevelMetric(counts, pmus, level)
           acc == Total(counts, pmus, <<level, "access">>)
           miss == Total(counts, pmus, <<level, "miss">>)
<1>1. SUFFICES ASSUME cell # None
               PROVE  /\ cell.access \in Nat \cup {None}
                      /\ cell.pct \in Nat \cup {None}
                      /\ Together(counts, level) => cell.pct \in Percentages
    OBVIOUS
<1>2. cell.access = acc /\ cell.pct = Percent(miss, acc)
    BY <1>1 DEF LevelMetric
<1>3. acc \in Nat \cup {None} /\ miss \in Nat \cup {None}
    BY SlotFacts, TotalFacts
<1>4. Together(counts, level) => Num(miss) <= Num(acc)
    BY TotalTogether
<1> HIDE DEF cell, acc, miss
<1> QED BY <1>2, <1>3, <1>4, PercentFacts

\* IPC is a number, or missing.
LEMMA IpcFacts == ASSUME NEW counts \in Counts PROVE Ipc(counts) \in Nat \cup {None}
<1> DEFINE ins == Num(Total(counts, Pmus, <<"ctx", "instructions">>))
           cyc == Cycles(counts)
<1>1. cyc \in Nat
    BY CyclesFacts
<1>2. Total(counts, Pmus, <<"ctx", "instructions">>) \in Nat \cup {None}
    BY SlotFacts, TotalFacts
<1>3. ins \in Nat
    BY <1>2 DEF Num
<1>4. Ipc(counts) = IF cyc = 0 THEN None ELSE (100 * ins) \div cyc
    BY DEF Ipc
<1> HIDE DEF ins, cyc
<1>5. cyc # 0 => (100 * ins) \div cyc \in Nat
    BY <1>1, <1>3
<1> QED BY <1>4, <1>5

\* So is that of one PMU.
LEMMA PmuIpcFacts ==
    ASSUME NEW counts \in Counts, NEW p \in Pmus PROVE PmuIpc(counts, p) \in Nat \cup {None}
<1> DEFINE ins == counts[p][<<"ctx", "instructions">>]
           cyc == counts[p][<<"ctx", "cycles">>]
<1>1. ins \in Nat \cup {None} /\ cyc \in Nat \cup {None}
    BY SlotFacts DEF Counts
<1>2. PmuIpc(counts, p) = IF ins = None \/ cyc \in {None, 0} THEN None ELSE (100 * ins) \div cyc
    BY DEF PmuIpc
<1> HIDE DEF ins, cyc
<1>3. ~(ins = None \/ cyc \in {None, 0}) => (100 * ins) \div cyc \in Nat
    BY <1>1
<1> QED BY <1>2, <1>3

----------------------------------------------------------------------------
(* What the buckets hold: the sums, PMU by PMU, over some of the threads. *)

SumsOver(r, ts) == [p \in Pmus |-> [s \in Slots |-> SumCounted([t \in ts |-> r[t][p][s]])]]

\* What perf counted is some counters.
LEMMA ReadingIsCounts == ASSUME NEW r \in [Pmus -> Readings] PROVE r \in Counts
BY ReadingsAssumption DEF Counts

\* So are sums over threads.
LEMMA SumsOverType ==
    ASSUME NEW r \in [Threads -> [Pmus -> Readings]], NEW ts \in SUBSET Threads
    PROVE  SumsOver(r, ts) \in Counts
<1>1. ASSUME NEW p \in Pmus, NEW s \in Slots
      PROVE  SumCounted([t \in ts |-> r[t][p][s]]) \in Nat \cup {None}
    <2> DEFINE f == [t \in ts |-> r[t][p][s]]
    <2>1. IsFiniteSet(ts)
        BY FiniteAssumption, FS_Subset
    <2>2. \A t \in ts : r[t] \in Counts
        BY ReadingIsCounts
    <2>3. f \in [ts -> Nat \cup {None}]
        BY <2>2 DEF Counts
    <2>4. PICK v : \A t \in ts : v[t] = Num(f[t])
        <3> WITNESS [t \in ts |-> Num(f[t])]
        <3> QED OBVIOUS
    <2> HIDE DEF f
    <2>5. SumCounted(f) \in Nat \cup {None}
        BY <2>1, <2>3, <2>4, CountedFacts
    <2> QED BY <2>5 DEF f
<1> QED BY <1>1 DEF SumsOver, Counts

\* _accum adds one thread to a sum.
LEMMA SumsOverAdd ==
    ASSUME NEW r \in [Threads -> [Pmus -> Readings]], NEW ts \in SUBSET Threads,
           NEW u \in Threads, u \notin ts
    PROVE  Accum(SumsOver(r, ts), r[u]) = SumsOver(r, ts \cup {u})
<1>1. ASSUME NEW p \in Pmus, NEW s \in Slots
      PROVE  SumsOver(r, ts \cup {u})[p][s] =
             IF r[u][p][s] = None THEN SumsOver(r, ts)[p][s]
             ELSE Num(SumsOver(r, ts)[p][s]) + r[u][p][s]
    <2> DEFINE f == [t \in ts \cup {u} |-> r[t][p][s]]
               g == [t \in ts |-> f[t]]
    <2>1. IsFiniteSet(ts)
        BY FiniteAssumption, FS_Subset
    <2>2. \A t \in ts \cup {u} : r[t] \in Counts
        BY ReadingIsCounts
    <2>3. f \in [ts \cup {u} -> Nat \cup {None}]
        BY <2>2 DEF Counts
    <2>4. f[u] = r[u][p][s] /\ g = [t \in ts |-> r[t][p][s]]
        OBVIOUS
    <2>5. SumCounted(f) = IF f[u] = None THEN SumCounted(g) ELSE Num(SumCounted(g)) + f[u]
        <3> HIDE DEF f
        <3> QED BY <2>1, <2>3, CountedAdd
    <2>6. SumsOver(r, ts \cup {u})[p][s] = SumCounted(f)
        BY DEF SumsOver
    <2>7. SumsOver(r, ts)[p][s] = SumCounted(g)
        BY <2>4 DEF SumsOver
    <2> HIDE DEF f, g
    <2> QED BY <2>4, <2>5, <2>6, <2>7
<1>2. SumsOver(r, ts \cup {u}) = [p \in Pmus |-> [s \in Slots |-> SumsOver(r, ts \cup {u})[p][s]]]
    BY DEF SumsOver
<1> QED BY <1>1, <1>2 DEF Accum

\* Sums over threads that count together are together.
LEMMA SumsOverTogether ==
    ASSUME NEW r \in [Threads -> [Pmus -> Readings]], NEW ts \in SUBSET Threads,
           NEW level \in Levels, \A t \in ts : Together(r[t], level)
    PROVE  Together(SumsOver(r, ts), level)
<1> SUFFICES ASSUME NEW p \in Pmus
             PROVE  LET acc == SumsOver(r, ts)[p][<<level, "access">>]
                        miss == SumsOver(r, ts)[p][<<level, "miss">>]
                    IN  (acc = None <=> miss = None) /\ Num(miss) <= Num(acc)
    BY DEF Together
<1> DEFINE f == [t \in ts |-> r[t][p][<<level, "miss">>]]
           g == [t \in ts |-> r[t][p][<<level, "access">>]]
<1>1. IsFiniteSet(ts)
    BY FiniteAssumption, FS_Subset
<1>2. \A t \in ts : r[t] \in Counts
    BY ReadingIsCounts
<1>3. f \in [ts -> Nat \cup {None}] /\ g \in [ts -> Nat \cup {None}]
    <2>1. <<level, "miss">> \in Slots /\ <<level, "access">> \in Slots
        BY SlotFacts
    <2> QED BY <1>2, <2>1 DEF Counts
<1>4. \A t \in ts : (f[t] = None <=> g[t] = None) /\ Num(f[t]) <= Num(g[t])
    BY DEF Together
<1>5. /\ SumsOver(r, ts)[p][<<level, "miss">>] = SumCounted(f)
      /\ SumsOver(r, ts)[p][<<level, "access">>] = SumCounted(g)
    BY SlotFacts DEF SumsOver
<1> HIDE DEF f, g
<1>6. (SumCounted(f) = None <=> SumCounted(g) = None) /\ Num(SumCounted(f)) <= Num(SumCounted(g))
    BY <1>1, <1>3, <1>4, CountedLeq
<1> QED BY <1>5, <1>6

\* A total over the PMUs of sums over threads is the sum over both.
LEMMA SumsOverTotal ==
    ASSUME rows \in [Threads -> [Pmus -> Readings]], NEW ts \in SUBSET Threads, NEW slot \in Slots
    PROVE  Total(SumsOver(rows, ts), Pmus, slot) = Reference(ts, slot)
<1> DEFINE f == [tp \in ts \X Pmus |-> rows[tp[1]][tp[2]][slot]]
           g == [p \in Pmus |-> SumsOver(rows, ts)[p][slot]]
<1>1. IsFiniteSet(ts) /\ IsFiniteSet(Pmus)
    BY FiniteAssumption, FS_Subset
<1>2. \A t \in ts : rows[t] \in Counts
    BY ReadingIsCounts
<1>3. f \in [ts \X Pmus -> Nat \cup {None}]
    BY <1>2 DEF Counts
<1>4. g \in [Pmus -> Nat \cup {None}]
    BY SumsOverType DEF Counts
<1>5. ASSUME NEW p \in Pmus PROVE g[p] = SumCounted([t \in ts |-> f[<<t, p>>]])
    <2>1. [t \in ts |-> f[<<t, p>>]] = [t \in ts |-> rows[t][p][slot]]
        OBVIOUS
    <2> QED BY <2>1 DEF SumsOver
<1>8. ColumnSums(g, f, ts, Pmus)
    <2> HIDE DEF f, g
    <2> QED BY <1>5 DEF ColumnSums
<1>6. Total(SumsOver(rows, ts), Pmus, slot) = SumCounted(g) /\ Reference(ts, slot) = SumCounted(f)
    BY DEF Total, Reference
<1> HIDE DEF f, g
<1>7. SumCounted(g) = SumCounted(f)
    <2>1. PICK S : Grid(S, ts, Pmus)
        BY DEF Grid
    <2>2. f \in [S -> Nat \cup {None}]
        BY <1>3, <2>1 DEF Grid
    <2> QED BY <1>1, <1>4, <1>8, <2>1, <2>2, CountedColumns
<1> QED BY <1>6, <1>7

----------------------------------------------------------------------------
(* The inductive invariant. *)

\* A thread still to do has no class yet.
ClassInv == \A t \in todo : class[t] = "none"

Classed(where) == {t \in Threads : class[t] = where}

\* Each bucket holds the sums over just the threads that are its so far.
BucketSums ==
    screen = "process" =>
        /\ DOMAIN rows = Threads
        /\ all = SumsOver(rows, Threads \ todo)
        /\ iso = SumsOver(rows, Classed("iso")) /\ shr = SumsOver(rows, Classed("shr"))

CyclesInv == isoCyc \in Nat /\ totCyc \in Nat /\ isoCyc <= totCyc

\* What is shown is derived of buckets that are complete.
ShownInv ==
    shown # None =>
        /\ screen = "process" /\ todo = {}
        /\ shown = [ipc |-> Ipc(all), isoShare |-> IsoShare, pCoreShare |-> PCoreShare,
                    levels    |-> LevelMetrics(all),
                    levelsIso |-> LevelMetrics(iso),
                    levelsShr |-> LevelMetrics(shr)]

SystemTypeOK ==
    /\ frames \in Seq([Pmus -> Readings])
    /\ snap # None => snap.ipc \in [Pmus -> Nat \cup {None}]
    /\ missHist \in [Cells -> Seq(Nat)] /\ accHist \in [Cells -> Seq(Nat)]

\* Every point was a frame's.
PointsOfFrames ==
    \A c \in Cells : \A i \in 1 .. Len(missHist[c]) : \E j \in 1 .. Len(frames) :
        LET cell == LevelMetric(frames[j], {c[2]}, c[1]) IN
        cell # None /\ missHist[c][i] = Num(cell.pct)

ProcessInv ==
    /\ BucketsOK /\ ClassInv /\ SplitWithinWhole /\ BucketSums
    /\ CyclesInv /\ ShownInv

SystemInv == SystemTypeOK /\ PointsOfFrames /\ HistoriesTogether

\* A counter taken as a number.
LEMMA NumFacts ==
    ASSUME NEW bucket \in Counts
    PROVE  \A p \in Pmus, s \in Slots : Num(bucket[p][s]) \in Nat
<1>1. \A p \in Pmus, s \in Slots : bucket[p][s] \in Nat \cup {None}
    BY DEF Counts
<1> QED BY <1>1 DEF Num

\* _accum adds what was counted, slot by slot.
LEMMA AccumFacts ==
    ASSUME NEW bucket \in Counts, NEW counts \in [Pmus -> Readings]
    PROVE  /\ Accum(bucket, counts) \in Counts
           /\ \A p \in Pmus, s \in Slots :
                 Num(Accum(bucket, counts)[p][s]) = Num(bucket[p][s]) + Num(counts[p][s])
<1>1. \A p \in Pmus, s \in Slots :
          bucket[p][s] \in Nat \cup {None} /\ counts[p][s] \in Nat \cup {None}
    BY ReadingsAssumption DEF Counts
<1>2. \A p \in Pmus, s \in Slots :
          Accum(bucket, counts)[p][s] = IF counts[p][s] = None THEN bucket[p][s]
                                        ELSE Num(bucket[p][s]) + counts[p][s]
    BY DEF Accum
<1>3. \A p \in Pmus, s \in Slots :
          /\ Num(bucket[p][s]) \in Nat /\ Num(counts[p][s]) \in Nat
          /\ Accum(bucket, counts)[p][s] \in Nat \cup {None}
          /\ Num(Accum(bucket, counts)[p][s]) = Num(bucket[p][s]) + Num(counts[p][s])
    BY <1>1, <1>2, NoneAssumption DEF Num
<1>4. Accum(bucket, counts) \in Counts
    BY <1>3 DEF Accum, Counts
<1> QED BY <1>3, <1>4

\* Over no threads nothing is counted.
LEMMA SumsOverNobody == ASSUME NEW r PROVE SumsOver(r, {}) = Nothing
<1>1. ASSUME NEW p \in Pmus, NEW s \in Slots
      PROVE  SumCounted([t \in {} |-> r[t][p][s]]) = None
    BY DEF SumCounted
<1> QED BY <1>1 DEF SumsOver, Nothing

\* The buckets are empty before the first thread.
LEMMA InitProcessInv == Init => ProcessInv
<1> SUFFICES ASSUME Init PROVE ProcessInv
    OBVIOUS
<1>1. Nothing \in Counts
    BY DEF Nothing, Counts
<1>2. BucketsOK /\ ClassInv
    BY <1>1 DEF Init, BucketsOK, ClassInv
<1>3. \A p \in Pmus, s \in Slots : Num(Nothing[p][s]) = 0
    BY DEF Nothing, Num
<1>4. SplitWithinWhole
    BY <1>3 DEF Init, SplitWithinWhole
<1>5. BucketSums
    <2>1. screen = "process" => Threads \ todo = {} /\ DOMAIN rows = Threads
        BY DEF Init
    <2>2. Classed("iso") = {} /\ Classed("shr") = {}
        BY DEF Init, Classed
    <2> QED BY <2>1, <2>2, SumsOverNobody DEF Init, BucketSums
<1>6. CyclesInv /\ ShownInv
    BY DEF Init, CyclesInv, ShownInv
<1> QED BY <1>2, <1>4, <1>5, <1>6 DEF ProcessInv

\* A thread goes to the buckets that are its, wherever it was seen to run.
LEMMA TakeProcessInv == ASSUME ProcessInv, NEW t \in Threads, Take(t) PROVE ProcessInv'
<1>1. /\ t \in todo /\ rows[t] \in [Pmus -> Readings] /\ class[t] = "none"
      /\ all \in Counts /\ iso \in Counts /\ shr \in Counts
      /\ class \in [Threads -> {"none", "iso", "shr", "unknown"}]
    BY DEF ProcessInv, BucketsOK, ClassInv, Take
<1>2. PICK where \in IF split THEN {"iso", "shr", "unknown"} ELSE {"unknown"} :
          /\ class' = [class EXCEPT ![t] = where]
          /\ iso' = IF where = "iso" THEN Accum(iso, rows[t]) ELSE iso
          /\ shr' = IF where = "shr" THEN Accum(shr, rows[t]) ELSE shr
          /\ totCyc' = IF where = "unknown" THEN totCyc ELSE totCyc + Cycles(rows[t])
          /\ isoCyc' = IF where = "iso" THEN isoCyc + Cycles(rows[t]) ELSE isoCyc
    BY DEF Take
<1>3. /\ todo' = todo \ {t} /\ all' = Accum(all, rows[t])
      /\ UNCHANGED <<screen, split, rows, shown>>
    BY DEF Take
<1>4. where \in {"iso", "shr", "unknown"}
    OBVIOUS
<1>5. BucketsOK'
    <2>1. all' \in Counts /\ iso' \in Counts /\ shr' \in Counts
        BY <1>1, <1>2, <1>3, AccumFacts
    <2>2. class' \in [Threads -> {"none", "iso", "shr", "unknown"}]
        BY <1>1, <1>2, <1>4
    <2> QED BY <1>3, <2>1, <2>2 DEF ProcessInv, BucketsOK
<1>6. ClassInv'
    BY <1>1, <1>2, <1>3 DEF ProcessInv, ClassInv, BucketsOK
<1>7. (\A u \in Threads : class'[u] # "unknown") =>
          where # "unknown" /\ \A u \in Threads : class[u] # "unknown"
    BY <1>1, <1>2
<1>8. SplitWithinWhole'
    <2> SUFFICES ASSUME NEW p \in Pmus, NEW s \in Slots
                 PROVE  /\ Num(iso'[p][s]) + Num(shr'[p][s]) <= Num(all'[p][s])
                        /\ split' /\ (\A u \in Threads : class'[u] # "unknown") =>
                              Num(iso'[p][s]) + Num(shr'[p][s]) = Num(all'[p][s])
        BY DEF SplitWithinWhole
    <2>1. /\ Num(iso[p][s]) \in Nat /\ Num(shr[p][s]) \in Nat /\ Num(all[p][s]) \in Nat
          /\ Num(rows[t][p][s]) \in Nat
        <3>1. rows[t] \in Counts
            BY <1>1, ReadingIsCounts
        <3> QED BY <1>1, <3>1, NumFacts
    <2>2. /\ Num(iso[p][s]) + Num(shr[p][s]) <= Num(all[p][s])
          /\ split /\ (\A u \in Threads : class[u] # "unknown") =>
                Num(iso[p][s]) + Num(shr[p][s]) = Num(all[p][s])
        BY DEF ProcessInv, SplitWithinWhole
    <2>3. Num(all'[p][s]) = Num(all[p][s]) + Num(rows[t][p][s])
        BY <1>1, <1>3, AccumFacts
    <2>4. Num(iso'[p][s]) = Num(iso[p][s]) + IF where = "iso" THEN Num(rows[t][p][s]) ELSE 0
        BY <1>1, <1>2, <2>1, AccumFacts
    <2>5. Num(shr'[p][s]) = Num(shr[p][s]) + IF where = "shr" THEN Num(rows[t][p][s]) ELSE 0
        BY <1>1, <1>2, <2>1, AccumFacts
    <2> QED BY <1>3, <1>4, <1>7, <2>1, <2>2, <2>3, <2>4, <2>5
<1>9. BucketSums'
    <2> SUFFICES ASSUME screen = "process"
                 PROVE  /\ DOMAIN rows = Threads
                        /\ all' = SumsOver(rows, Threads \ todo')
                        /\ iso' = SumsOver(rows, Classed("iso")')
                        /\ shr' = SumsOver(rows, Classed("shr")')
        BY <1>3 DEF BucketSums
    <2>1. /\ rows \in [Threads -> [Pmus -> Readings]] /\ DOMAIN rows = Threads
          /\ all = SumsOver(rows, Threads \ todo)
          /\ iso = SumsOver(rows, Classed("iso")) /\ shr = SumsOver(rows, Classed("shr"))
        BY DEF ProcessInv, BucketSums, BucketsOK
    <2>2. /\ Threads \ todo' = (Threads \ todo) \cup {t}
          /\ Threads \ todo \in SUBSET Threads /\ t \notin Threads \ todo
        BY <1>1, <1>3
    <2>3. all' = SumsOver(rows, Threads \ todo')
        <3>1. PICK done : done = Threads \ todo
            OBVIOUS
        <3>2. done \in SUBSET Threads /\ t \notin done
            BY <2>2, <3>1
        <3>3. Accum(SumsOver(rows, done), rows[t]) = SumsOver(rows, done \cup {t})
            BY <2>1, <3>2, SumsOverAdd
        <3> QED BY <1>3, <2>1, <2>2, <3>1, <3>3
    <2>4. ASSUME NEW kind \in {"iso", "shr"}
          PROVE  /\ Classed(kind)' = IF where = kind THEN Classed(kind) \cup {t} ELSE Classed(kind)
                 /\ Classed(kind) \in SUBSET Threads /\ t \notin Classed(kind)
        BY <1>1, <1>2 DEF Classed
    <2>5. iso' = SumsOver(rows, Classed("iso")')
        BY <1>2, <2>1, <2>4, SumsOverAdd
    <2>6. shr' = SumsOver(rows, Classed("shr")')
        BY <1>2, <2>1, <2>4, SumsOverAdd
    <2> QED BY <2>1, <2>3, <2>5, <2>6
<1>10. CyclesInv'
    <2>1. Cycles(rows[t]) \in Nat
        BY <1>1, ReadingIsCounts, CyclesFacts
    <2> QED BY <1>2, <1>4, <2>1 DEF ProcessInv, CyclesInv
<1>11. ShownInv'
    BY <1>1, <1>3 DEF ProcessInv, ShownInv
<1> QED BY <1>5, <1>6, <1>8, <1>9, <1>10, <1>11 DEF ProcessInv

\* The other steps leave the buckets alone.
LEMMA NextProcessInv == ProcessInv /\ [Next]_vars => ProcessInv'
<1> SUFFICES ASSUME ProcessInv, [Next]_vars PROVE ProcessInv'
    OBVIOUS
<1>1. ASSUME UNCHANGED <<screen, split, rows, todo, class, all, iso, shr, isoCyc, totCyc>>
      PROVE  (BucketsOK /\ ClassInv /\ SplitWithinWhole /\ BucketSums /\ CyclesInv)'
    BY <1>1 DEF ProcessInv, BucketsOK, ClassInv, SplitWithinWhole, BucketSums, Classed, CyclesInv
<1>2. CASE Derive
    <2>1. ShownInv'
        BY <1>2 DEF Derive, ShownInv, IsoShare, PCoreShare
    <2> QED BY <1>1, <1>2, <2>1 DEF Derive, ProcessInv
<1>3. CASE Update \/ UNCHANGED vars
    <2>1. UNCHANGED procVars
        BY <1>3 DEF Update, vars, procVars
    <2>2. ShownInv'
        BY <2>1 DEF procVars, ProcessInv, ShownInv, IsoShare, PCoreShare
    <2> QED BY <1>1, <2>1, <2>2 DEF procVars, ProcessInv
<1> QED BY <1>2, <1>3, TakeProcessInv DEF Next

----------------------------------------------------------------------------
(* The histories. *)

\* An append to a full deque drops the oldest point.
LEMMA PushFacts ==
    ASSUME NEW seq \in Seq(Nat), NEW v \in Nat, Len(seq) <= History
    PROVE  LET new == Push(seq, v) IN
           /\ new \in Seq(Nat)
           /\ Len(new) = IF Len(seq) < History THEN Len(seq) + 1 ELSE History
           /\ new[Len(new)] = v
           /\ \A age \in 1 .. Len(new) - 1 : new[Len(new) - age] = seq[Len(seq) - (age - 1)]
           /\ \A i \in 1 .. Len(new) : new[i] = v \/ \E j \in 1 .. Len(seq) : new[i] = seq[j]
<1> DEFINE s == Append(seq, v)
<1>1. /\ s \in Seq(Nat) /\ Len(s) = Len(seq) + 1 /\ Len(seq) \in Nat
      /\ s[Len(seq) + 1] = v /\ \A i \in 1 .. Len(seq) : s[i] = seq[i]
    OBVIOUS
<1> HIDE DEF s
<1>2. Push(seq, v) = IF Len(s) > History THEN Tail(s) ELSE s
    BY DEF Push, s
<1>3. CASE Len(seq) < History
    <2>1. Push(seq, v) = s
        BY <1>1, <1>2, <1>3, HistoryAssumption
    <2>3. \A age \in 1 .. Len(s) - 1 : s[Len(s) - age] = seq[Len(seq) - (age - 1)]
        <3> TAKE age \in 1 .. Len(s) - 1
        <3>1. Len(s) - age \in 1 .. Len(seq) /\ Len(s) - age = Len(seq) - (age - 1)
            BY <1>1
        <3> QED BY <1>1, <3>1
    <2>4. \A i \in 1 .. Len(s) : s[i] = v \/ \E j \in 1 .. Len(seq) : s[i] = seq[j]
        <3>1. \A i \in 1 .. Len(s) : i = Len(seq) + 1 \/ i \in 1 .. Len(seq)
            BY <1>1
        <3> QED BY <1>1, <3>1
    <2>5. s[Len(s)] = v /\ Len(s) = IF Len(seq) < History THEN Len(seq) + 1 ELSE History
        BY <1>1, <1>3
    <2> QED BY <1>1, <2>1, <2>3, <2>4, <2>5
<1>4. CASE ~(Len(seq) < History)
    <2>1. Push(seq, v) = Tail(s) /\ Len(seq) = History /\ s # <<>>
        BY <1>1, <1>2, <1>4, HistoryAssumption
    <2>2. /\ Tail(s) \in Seq(Nat) /\ Len(Tail(s)) = History
          /\ \A i \in 1 .. History : Tail(s)[i] = s[i + 1]
        BY <1>1, <2>1
    <2>3. \A i \in 1 .. History : s[i + 1] = IF i = History THEN v ELSE seq[i + 1]
        BY <1>1, <2>1, HistoryAssumption
    <2>4. PICK t : t = Tail(s)
        OBVIOUS
    <2>5. /\ t \in Seq(Nat) /\ Len(t) = History /\ History \in Nat \ {0}
          /\ \A i \in 1 .. History : t[i] = IF i = History THEN v ELSE seq[i + 1]
        BY <2>2, <2>3, <2>4, HistoryAssumption
    <2>6. t[Len(t)] = v
        BY <2>5
    <2>7. \A age \in 1 .. Len(t) - 1 : t[Len(t) - age] = seq[Len(seq) - (age - 1)]
        <3> TAKE age \in 1 .. Len(t) - 1
        <3>1. /\ History - age \in 1 .. History /\ History - age # History
              /\ (History - age) + 1 = Len(seq) - (age - 1)
            BY <2>1, <2>5
        <3> QED BY <2>5, <3>1
    <2>8. \A i \in 1 .. Len(t) : t[i] = v \/ \E j \in 1 .. Len(seq) : t[i] = seq[j]
        <3> TAKE i \in 1 .. Len(t)
        <3>1. i # History => i + 1 \in 1 .. Len(seq)
            BY <2>1, <2>5
        <3> QED BY <2>5, <3>1
    <2> QED BY <1>4, <2>1, <2>4, <2>5, <2>6, <2>7, <2>8
<1> QED BY <1>3, <1>4

\* The frames in which a cell had a counter, and those of them after one.
With(fs, c) == {i \in 1 .. Len(fs) : LevelMetric(fs[i], {c[2]}, c[1]) # None}
After(ws, i) == {j \in ws : j > i}


\* A new frame is the last of those with a point, if it is one.
LEMMA WithFacts ==
    ASSUME NEW fs \in Seq([Pmus -> Readings]), NEW counts \in [Pmus -> Readings], NEW c \in Cells
    PROVE  LET cell == LevelMetric(counts, {c[2]}, c[1])
               ws == With(fs, c)
               new == With(Append(fs, counts), c)
               last == Len(fs) + 1
           IN  /\ IsFiniteSet(ws) /\ Cardinality(ws) \in Nat
               /\ cell = None => new = ws
               /\ cell # None =>
                     /\ new = ws \cup {last} /\ last \notin ws
                     /\ Cardinality(new) = Cardinality(ws) + 1
                     /\ Cardinality(After(new, last)) = 0
                     /\ \A i \in ws : /\ Cardinality(After(ws, i)) \in Nat
                                      /\ Cardinality(After(new, i)) = Cardinality(After(ws, i)) + 1
<1> DEFINE cell == LevelMetric(counts, {c[2]}, c[1])
           ws == With(fs, c)
           new == With(Append(fs, counts), c)
           last == Len(fs) + 1
<1>1. /\ Len(Append(fs, counts)) = last /\ Append(fs, counts)[last] = counts
      /\ \A i \in 1 .. Len(fs) : Append(fs, counts)[i] = fs[i]
      /\ Len(fs) \in Nat
    OBVIOUS
<1>2. ws \subseteq 1 .. Len(fs)
    BY DEF With
<1>3. IsFiniteSet(ws)
    <2>1. IsFiniteSet(1 .. Len(fs))
        BY <1>1, FS_Interval
    <2> HIDE DEF ws
    <2> QED BY <1>2, <2>1, FS_Subset
<1>4. Cardinality(ws) \in Nat
    BY <1>3, FS_CardinalityType
<1>5. new = IF cell = None THEN ws ELSE ws \cup {last}
    <2>1. \A i \in 1 .. last : i \in 1 .. Len(fs) \/ i = last
        BY <1>1
    <2>2. 1 .. last = (1 .. Len(fs)) \cup {last}
        BY <1>1
    <2>3. \A i \in 1 .. Len(fs) : i \in new <=> i \in ws
        BY <1>1, <2>2 DEF With
    <2>4. last \in new <=> cell # None
        BY <1>1, <2>2 DEF With
    <2>5. new \subseteq 1 .. last
        BY <1>1 DEF With
    <2> HIDE DEF new, ws, cell, last
    <2>6. last \notin ws
        BY <1>1, <1>2 DEF last
    <2>7. \A i : i \in new <=> i \in ws \/ (i = last /\ cell # None)
        BY <1>2, <2>2, <2>3, <2>4, <2>5, <2>6
    <2>8. CASE cell = None
        BY <2>7, <2>8
    <2>9. CASE cell # None
        BY <2>7, <2>9
    <2> QED BY <2>8, <2>9
<1>6. last \notin ws /\ \A i \in ws : i < last /\ i \in Nat
    BY <1>1, <1>2
<1> HIDE DEF cell, ws, new, last
<1>7. ASSUME cell # None
      PROVE  /\ Cardinality(new) = Cardinality(ws) + 1
             /\ Cardinality(After(new, last)) = 0
             /\ \A i \in ws : /\ Cardinality(After(ws, i)) \in Nat
                              /\ Cardinality(After(new, i)) = Cardinality(After(ws, i)) + 1
    <2>1. Cardinality(new) = Cardinality(ws) + 1
        BY <1>3, <1>5, <1>6, <1>7, FS_AddElement
    <2>2. After(new, last) = {}
        BY <1>1, <1>5, <1>6 DEF After, last
    <2>3. Cardinality(After(new, last)) = 0
        BY <2>2, FS_EmptySet
    <2>4. ASSUME NEW i \in ws
          PROVE  /\ Cardinality(After(ws, i)) \in Nat
                 /\ Cardinality(After(new, i)) = Cardinality(After(ws, i)) + 1
        <3>1. After(new, i) = After(ws, i) \cup {last} /\ last \notin After(ws, i)
            BY <1>5, <1>6, <1>7 DEF After
        <3>2. After(ws, i) \subseteq ws
            BY DEF After
        <3>3. IsFiniteSet(After(ws, i))
            BY <1>3, <3>2, FS_Subset
        <3> QED BY <3>1, <3>3, FS_AddElement, FS_CardinalityType
    <2> QED BY <2>1, <2>3, <2>4
<1> QED BY <1>3, <1>4, <1>5, <1>6, <1>7 DEF cell, ws, new, last

\* HistoriesTogether, for one field of one cell.
Points(hist, fs, c, field) ==
    LET ws == With(fs, c)
        n == IF Cardinality(ws) < History THEN Cardinality(ws) ELSE History
    IN  /\ Len(hist) = n
        /\ \A i \in ws : LET age == Cardinality(After(ws, i)) IN
              age < n => hist[n - age] = Num(LevelMetric(fs[i], {c[2]}, c[1])[field])

\* HistoriesTogether is Points, of both histories.
LEMMA BothPoints ==
    HistoriesTogether <=>
        \A c \in Cells : Points(missHist[c], frames, c, "pct") /\ Points(accHist[c], frames, c, "access")
BY DEF HistoriesTogether, Points, With, After

\* What is pushed of a cell.
LEMMA CellFacts ==
    ASSUME NEW counts \in [Pmus -> Readings], NEW c \in Cells
    PROVE  LET cell == LevelMetric(counts, {c[2]}, c[1]) IN
           cell # None => /\ Num(cell["pct"]) \in Nat /\ Num(cell["access"]) \in Nat
                          /\ Together(counts, c[1]) => cell["pct"] \in Percentages
<1>1. counts \in Counts /\ {c[2]} \in SUBSET Pmus /\ c[1] \in Levels
    BY ReadingIsCounts DEF Cells
<1>2. PICK pmus : pmus = {c[2]}
    OBVIOUS
<1>3. PICK level : level = c[1]
    OBVIOUS
<1>4. PICK cell : cell = LevelMetric(counts, pmus, level)
    OBVIOUS
<1>5. cell # None => /\ cell.access \in Nat \cup {None}
                     /\ cell.pct \in Nat \cup {None}
                     /\ Together(counts, level) => cell.pct \in Percentages
    BY <1>1, <1>2, <1>3, <1>4, LevelMetricFacts
<1> QED BY <1>2, <1>3, <1>4, <1>5 DEF Num

\* The frame counts comes after fs, which gave hist, and makes it new.
Step(fs, counts, c, field, hist, cell, new) ==
    /\ fs \in Seq([Pmus -> Readings]) /\ counts \in [Pmus -> Readings]
    /\ c \in Cells /\ field \in {"pct", "access"}
    /\ hist \in Seq(Nat) /\ Points(hist, fs, c, field)
    /\ cell = LevelMetric(counts, {c[2]}, c[1])
    /\ new = IF cell = None THEN hist ELSE Push(hist, Num(cell[field]))

\* A frame more keeps the points in step.
LEMMA PointsNext ==
    ASSUME NEW fs, NEW counts, NEW c, NEW field, NEW hist, NEW cell, NEW new,
           Step(fs, counts, c, field, hist, cell, new)
    PROVE  /\ new \in Seq(Nat)
           /\ Points(new, Append(fs, counts), c, field)
           /\ \A i \in 1 .. Len(new) : \/ cell # None /\ new[i] = Num(cell[field])
                                       \/ \E j \in 1 .. Len(hist) : new[i] = hist[j]
<1> USE DEF Step
<1>1. cell = LevelMetric(counts, {c[2]}, c[1])
    OBVIOUS
<1>2. PICK ws : ws = With(fs, c)
    OBVIOUS
<1>3. PICK wn : wn = With(Append(fs, counts), c)
    OBVIOUS
<1>4. PICK last : last = Len(fs) + 1
    OBVIOUS
<1>5. /\ IsFiniteSet(ws) /\ Cardinality(ws) \in Nat
      /\ cell = None => wn = ws
      /\ cell # None =>
            /\ wn = ws \cup {last} /\ last \notin ws
            /\ Cardinality(wn) = Cardinality(ws) + 1
            /\ Cardinality(After(wn, last)) = 0
            /\ \A i \in ws : /\ Cardinality(After(ws, i)) \in Nat
                             /\ Cardinality(After(wn, i)) = Cardinality(After(ws, i)) + 1
    BY <1>1, <1>2, <1>3, <1>4, WithFacts
<1>6. PICK n : n = IF Cardinality(ws) < History THEN Cardinality(ws) ELSE History
    OBVIOUS
<1>7. /\ Len(hist) = n /\ n \in Nat /\ n <= History
      /\ \A i \in ws : Cardinality(After(ws, i)) < n =>
            hist[n - Cardinality(After(ws, i))] = Num(LevelMetric(fs[i], {c[2]}, c[1])[field])
    <2>1. /\ Len(hist) = n
          /\ \A i \in ws : Cardinality(After(ws, i)) < n =>
                hist[n - Cardinality(After(ws, i))] = Num(LevelMetric(fs[i], {c[2]}, c[1])[field])
        BY <1>2, <1>6 DEF Points
    <2>2. n \in Nat /\ n <= History
        BY <1>5, <1>6, HistoryAssumption
    <2> QED BY <2>1, <2>2
<1>8. /\ Append(fs, counts)[last] = counts
      /\ \A i \in ws : Append(fs, counts)[i] = fs[i]
    BY <1>2, <1>4 DEF With
<1>9. CASE cell = None
    <2>1. Points(hist, Append(fs, counts), c, field)
        BY <1>2, <1>3, <1>5, <1>6, <1>7, <1>8, <1>9 DEF Points
    <2> QED BY <1>1, <1>9, <2>1
<1>10. CASE cell # None
    <2>1. PICK v : v = Num(cell[field])
        OBVIOUS
    <2>2. v \in Nat
        BY <1>1, <1>10, <2>1, CellFacts
    <2>3. new = Push(hist, v)
        BY <1>10, <2>1
    <2>4. /\ new \in Seq(Nat)
          /\ Len(new) = IF n < History THEN n + 1 ELSE History
          /\ new[Len(new)] = v
          /\ \A age \in 1 .. Len(new) - 1 : new[Len(new) - age] = hist[n - (age - 1)]
          /\ \A i \in 1 .. Len(new) : new[i] = v \/ \E j \in 1 .. Len(hist) : new[i] = hist[j]
        <3>1. Len(hist) <= History
            BY <1>7
        <3>2. /\ new \in Seq(Nat)
              /\ Len(new) = IF Len(hist) < History THEN Len(hist) + 1 ELSE History
              /\ new[Len(new)] = v
              /\ \A age \in 1 .. Len(new) - 1 : new[Len(new) - age] = hist[Len(hist) - (age - 1)]
              /\ \A i \in 1 .. Len(new) : new[i] = v \/ \E j \in 1 .. Len(hist) : new[i] = hist[j]
            <4> DEFINE new0 == Push(hist, v)
            <4>1. /\ new0 \in Seq(Nat)
                  /\ Len(new0) = IF Len(hist) < History THEN Len(hist) + 1 ELSE History
                  /\ new0[Len(new0)] = v
                  /\ \A age \in 1 .. Len(new0) - 1 : new0[Len(new0) - age] = hist[Len(hist) - (age - 1)]
                  /\ \A i \in 1 .. Len(new0) : new0[i] = v \/ \E j \in 1 .. Len(hist) : new0[i] = hist[j]
                BY <2>2, <3>1, PushFacts, Zenon
            <4> HIDE DEF new0
            <4>2. new = new0
                BY <2>3 DEF new0
            <4> QED BY <4>1, <4>2
        <3> QED BY <1>7, <3>2
    <2>5. PICK m : m = IF Cardinality(wn) < History THEN Cardinality(wn) ELSE History
        OBVIOUS
    <2>6. Len(new) = m /\ m \in Nat
        BY <1>5, <1>6, <1>10, <2>4, <2>5, HistoryAssumption
    <2>7. ASSUME NEW i \in wn, Cardinality(After(wn, i)) < m
          PROVE  new[m - Cardinality(After(wn, i))]
                     = Num(LevelMetric(Append(fs, counts)[i], {c[2]}, c[1])[field])
        <3>1. CASE i = last
            <4>1. Cardinality(After(wn, i)) = 0 /\ Append(fs, counts)[i] = counts
                BY <1>5, <1>8, <1>10, <3>1
            <4>2. new[m - 0] = v
                BY <2>4, <2>6
            <4> QED BY <1>1, <2>1, <4>1, <4>2
        <3>2. CASE i # last
            <4>1. i \in ws
                BY <1>5, <1>10, <3>2
            <4>2. PICK age : age = Cardinality(After(ws, i))
                OBVIOUS
            <4>3. age \in Nat /\ Cardinality(After(wn, i)) = age + 1 /\ age + 1 \in 1 .. m - 1
                BY <1>5, <1>10, <2>6, <2>7, <4>1, <4>2
            <4>4. new[m - (age + 1)] = hist[n - age]
                <5>1. (age + 1) - 1 = age /\ age + 1 \in 1 .. Len(new) - 1
                    BY <2>6, <4>3
                <5> QED BY <2>4, <2>6, <5>1
            <4>5. age < n
                BY <1>7, <2>4, <2>6, <4>3
            <4>6. hist[n - age] = Num(LevelMetric(fs[i], {c[2]}, c[1])[field])
                BY <1>7, <4>1, <4>2, <4>5
            <4> QED BY <1>8, <4>1, <4>3, <4>4, <4>6
        <3> QED BY <3>1, <3>2
    <2>8. Points(new, Append(fs, counts), c, field)
        BY <1>3, <2>5, <2>6, <2>7 DEF Points
    <2> QED BY <1>1, <1>10, <2>1, <2>3, <2>4, <2>8
<1> QED BY <1>9, <1>10

\* There are no points before the first frame.
LEMMA InitSystemInv == Init => SystemInv
<1> SUFFICES ASSUME Init PROVE SystemInv
    OBVIOUS
<1>1. frames = <<>> /\ snap = None /\ \A c \in Cells : missHist[c] = <<>> /\ accHist[c] = <<>>
    BY DEF Init
<1>2. SystemTypeOK
    BY DEF Init, SystemTypeOK
<1>3. PointsOfFrames
    BY <1>1 DEF PointsOfFrames
<1>4. ASSUME NEW c \in Cells, NEW field PROVE Points(<<>>, <<>>, c, field)
    <2>1. With(<<>>, c) = {}
        BY DEF With
    <2>2. Cardinality({}) = 0
        BY FS_EmptySet
    <2>3. Cardinality(With(<<>>, c)) = 0 /\ Len(<<>>) = 0
        BY <2>1, <2>2
    <2>4. 0 < History
        BY HistoryAssumption
    <2> QED BY <2>1, <2>3, <2>4 DEF Points
<1>5. HistoriesTogether
    BY <1>1, <1>4, BothPoints
<1> QED BY <1>2, <1>3, <1>5 DEF SystemInv

\* Each cell is pushed once a frame, or left alone.
LEMMA UpdateSystemInv == ASSUME SystemInv, Update PROVE SystemInv'
<1>1. PICK counts \in [Pmus -> Readings] :
          /\ frames' = Append(frames, counts)
          /\ snap' = [cells |-> [c \in Cells |-> LevelMetric(counts, {c[2]}, c[1])],
                      ipc   |-> [p \in Pmus |-> PmuIpc(counts, p)]]
          /\ missHist' = Pushed(missHist, counts, "pct")
          /\ accHist' = Pushed(accHist, counts, "access")
    BY DEF Update
<1>2. /\ frames \in Seq([Pmus -> Readings])
      /\ \A c \in Cells : /\ missHist[c] \in Seq(Nat) /\ accHist[c] \in Seq(Nat)
                          /\ Points(missHist[c], frames, c, "pct")
                          /\ Points(accHist[c], frames, c, "access")
    BY BothPoints DEF SystemInv, SystemTypeOK
<1>3. ASSUME NEW c \in Cells
      PROVE  LET cell == LevelMetric(counts, {c[2]}, c[1]) IN
             /\ Step(frames, counts, c, "pct", missHist[c], cell, missHist'[c])
             /\ Step(frames, counts, c, "access", accHist[c], cell, accHist'[c])
    BY <1>1, <1>2 DEF Pushed, Step
<1>4. ASSUME NEW c \in Cells
      PROVE  LET cell == LevelMetric(counts, {c[2]}, c[1]) IN
             /\ missHist'[c] \in Seq(Nat) /\ Points(missHist'[c], frames', c, "pct")
             /\ \A i \in 1 .. Len(missHist'[c]) :
                   \/ cell # None /\ missHist'[c][i] = Num(cell["pct"])
                   \/ \E j \in 1 .. Len(missHist[c]) : missHist'[c][i] = missHist[c][j]
    <2>1. PICK cell : cell = LevelMetric(counts, {c[2]}, c[1])
        OBVIOUS
    <2>2. Step(frames, counts, c, "pct", missHist[c], cell, missHist'[c])
        BY <1>3, <2>1
    <2>3. missHist'[c] \in Seq(Nat) /\ Points(missHist'[c], frames', c, "pct")
        BY <1>1, <2>2, PointsNext
    <2>4. \A i \in 1 .. Len(missHist'[c]) :
              \/ cell # None /\ missHist'[c][i] = Num(cell["pct"])
              \/ \E j \in 1 .. Len(missHist[c]) : missHist'[c][i] = missHist[c][j]
        BY <2>2, PointsNext
    <2> QED BY <2>1, <2>3, <2>4
<1>5. ASSUME NEW c \in Cells
      PROVE  accHist'[c] \in Seq(Nat) /\ Points(accHist'[c], frames', c, "access")
    BY <1>1, <1>3, PointsNext
<1>6. SystemTypeOK'
    <2>1. frames' \in Seq([Pmus -> Readings])
        BY <1>1, <1>2
    <2>2. snap'.ipc \in [Pmus -> Nat \cup {None}]
        BY <1>1, ReadingIsCounts, PmuIpcFacts
    <2>3. missHist' \in [Cells -> Seq(Nat)] /\ accHist' \in [Cells -> Seq(Nat)]
        BY <1>1, <1>4, <1>5 DEF Pushed
    <2> QED BY <2>1, <2>2, <2>3 DEF SystemTypeOK
<1>7. PointsOfFrames'
    <2> SUFFICES ASSUME NEW c \in Cells, NEW i \in 1 .. Len(missHist'[c])
                 PROVE  \E j \in 1 .. Len(frames') :
                            LET cell == LevelMetric(frames'[j], {c[2]}, c[1]) IN
                            cell # None /\ missHist'[c][i] = Num(cell["pct"])
        BY DEF PointsOfFrames
    <2>1. /\ Len(frames') = Len(frames) + 1 /\ Len(frames) \in Nat
          /\ frames'[Len(frames) + 1] = counts
          /\ \A j \in 1 .. Len(frames) : frames'[j] = frames[j]
        BY <1>1, <1>2
    <2>2. CASE \E j \in 1 .. Len(missHist[c]) : missHist'[c][i] = missHist[c][j]
        <3>1. PICK j \in 1 .. Len(frames) :
                  LET cell == LevelMetric(frames[j], {c[2]}, c[1]) IN
                  cell # None /\ missHist'[c][i] = Num(cell["pct"])
            BY <2>2 DEF SystemInv, PointsOfFrames
        <3>2. j \in 1 .. Len(frames')
            BY <2>1
        <3> QED BY <2>1, <3>1, <3>2
    <2>3. CASE LET cell == LevelMetric(counts, {c[2]}, c[1]) IN
               cell # None /\ missHist'[c][i] = Num(cell["pct"])
        <3>1. Len(frames) + 1 \in 1 .. Len(frames')
            BY <2>1
        <3> QED BY <2>1, <2>3, <3>1
    <2> QED BY <1>4, <2>2, <2>3
<1>8. HistoriesTogether'
    <2>1. HistoriesTogether' <=>
              \A c \in Cells : Points(missHist'[c], frames', c, "pct") /\ Points(accHist'[c], frames', c, "access")
        BY DEF HistoriesTogether, Points, With, After
    <2> QED BY <1>4, <1>5, <2>1
<1> QED BY <1>6, <1>7, <1>8 DEF SystemInv

\* The other steps leave the histories alone.
LEMMA NextSystemInv == SystemInv /\ [Next]_vars => SystemInv'
<1> SUFFICES ASSUME SystemInv, [Next]_vars PROVE SystemInv'
    OBVIOUS
<1>1. ASSUME UNCHANGED systemVars PROVE SystemInv'
    <2>1. frames' = frames /\ snap' = snap /\ missHist' = missHist /\ accHist' = accHist
        BY <1>1 DEF systemVars
    <2>2. SystemTypeOK' /\ PointsOfFrames'
        BY <2>1 DEF SystemInv, SystemTypeOK, PointsOfFrames
    <2>3. HistoriesTogether'
        <3>1. HistoriesTogether' <=>
                  \A c \in Cells : Points(missHist'[c], frames', c, "pct")
                                  /\ Points(accHist'[c], frames', c, "access")
            BY DEF HistoriesTogether, Points, With, After
        <3> QED BY <2>1, <3>1, BothPoints DEF SystemInv
    <2> QED BY <2>2, <2>3 DEF SystemInv
<1> QED BY <1>1, UpdateSystemInv DEF Next, Take, Derive, vars, systemVars

----------------------------------------------------------------------------
(* What follows from it. *)

\* Both invariants hold.
LEMMA SpecInv == Spec => []ProcessInv /\ []SystemInv
BY InitProcessInv, NextProcessInv, InitSystemInv, NextSystemInv, PTL DEF Spec

\* A part of some cycles, in per cent.
LEMMA ShareFacts ==
    ASSUME NEW part \in Nat, NEW whole \in Nat, part <= whole
    PROVE  (IF whole = 0 THEN None ELSE (100 * part) \div whole) \in Percentages
<1>1. whole # 0 => (100 * part) \div whole \in 0 .. 100
    OBVIOUS
<1> QED BY <1>1 DEF Percentages

\* The P-cores' cycles are a part of all cycles.
LEMMA PCoreShareFacts == ASSUME all \in Counts PROVE PCoreShare \in Percentages
<1> DEFINE pcyc == IF "cpu_core" \in Pmus THEN Num(all["cpu_core"][<<"ctx", "cycles">>]) ELSE 0
           cyc == Cycles(all)
<1>1. cyc \in Nat /\ pcyc \in Nat /\ pcyc <= cyc
    BY CyclesFacts, NumFacts, SlotFacts
<1>2. PCoreShare = IF cyc = 0 THEN None ELSE (100 * pcyc) \div cyc
    BY DEF PCoreShare
<1> HIDE DEF pcyc, cyc
<1> QED BY <1>1, <1>2, ShareFacts

\* The shown shares and numbers are of their types.
LEMMA TypeFollows == ProcessInv /\ SystemInv => TypeOK
<1> SUFFICES ASSUME ProcessInv, SystemInv PROVE TypeOK
    OBVIOUS
<1>1. BucketsOK /\ isoCyc \in Nat /\ totCyc \in Nat
    BY DEF ProcessInv, CyclesInv
<1>2. ASSUME shown # None
      PROVE  shown.ipc \in Nat \cup {None} /\ {shown.isoShare, shown.pCoreShare} \subseteq Percentages
    <2>1. /\ shown.ipc = Ipc(all) /\ shown.isoShare = IsoShare /\ shown.pCoreShare = PCoreShare
          /\ all \in Counts
        BY <1>2 DEF ProcessInv, ShownInv, BucketsOK
    <2>2. IsoShare \in Percentages
        BY ShareFacts DEF ProcessInv, CyclesInv, IsoShare
    <2> QED BY <2>1, <2>2, IpcFacts, PCoreShareFacts
<1>3. /\ snap # None => snap.ipc \in [Pmus -> Nat \cup {None}]
      /\ \A c \in Cells : missHist[c] \in Seq(Nat) /\ accHist[c] \in Seq(Nat)
    BY DEF SystemInv, SystemTypeOK
<1> QED BY <1>1, <1>2, <1>3 DEF TypeOK

\* The counters and the shares derived of them are of their types: IPC is a
\* number, and the shares of cycles on isolated and on P-cores (procmon.py:265,
\* 299-302) are percentages, whatever was counted or is missing.
THEOREM TypeCorrect == Spec => []TypeOK
BY SpecInv, TypeFollows, PTL

\* _aggregate (procmon.py:239-256) splits what it sums: the isolated and the
\* shared cores never show more than the process, and all of it when the CPU of
\* every thread could be read.
THEOREM SplitAddsUp == Spec => []SplitWithinWhole
<1>1. ProcessInv => SplitWithinWhole
    BY DEF ProcessInv
<1> QED BY SpecInv, <1>1, PTL

\* A level derived of the sums over some threads shows the sums of Reference.
LEMMA LevelOfSums ==
    ASSUME rows \in [Threads -> [Pmus -> Readings]], NEW ts \in SUBSET Threads, NEW level \in Levels,
           NEW bucket, bucket = SumsOver(rows, ts)
    PROVE  LET acc == Reference(ts, <<level, "access">>)
               miss == Reference(ts, <<level, "miss">>)
               evi == Reference(ts, <<level, "evict">>)
               shows == LevelMetrics(bucket)[level]
           IN  IF {acc, miss, evi} = {None} THEN shows = None
               ELSE shows.access = acc /\ shows.miss = miss /\ shows.evict = evi
<1>1. /\ Total(bucket, Pmus, <<level, "access">>) = Reference(ts, <<level, "access">>)
      /\ Total(bucket, Pmus, <<level, "miss">>) = Reference(ts, <<level, "miss">>)
      /\ Total(bucket, Pmus, <<level, "evict">>) = Reference(ts, <<level, "evict">>)
    BY SlotFacts, SumsOverTotal
<1>2. LevelMetrics(bucket)[level] = LevelMetric(bucket, Pmus, level)
    BY DEF LevelMetrics
<1>3. PICK acc : acc = Total(bucket, Pmus, <<level, "access">>)
    OBVIOUS
<1>4. PICK miss : miss = Total(bucket, Pmus, <<level, "miss">>)
    OBVIOUS
<1>5. PICK evi : evi = Total(bucket, Pmus, <<level, "evict">>)
    OBVIOUS
<1>6. PICK shows : shows = LevelMetrics(bucket)[level]
    OBVIOUS
<1>7. IF {acc, miss, evi} = {None} THEN shows = None
      ELSE shows.access = acc /\ shows.miss = miss /\ shows.evict = evi
    <2>1. CASE {acc, miss, evi} = {None}
        BY <1>2, <1>3, <1>4, <1>5, <1>6, <2>1, Zenon DEF LevelMetric
    <2>2. CASE {acc, miss, evi} # {None}
        <3> DEFINE ins == Num(Total(bucket, Pmus, <<"ctx", "instructions">>))
                   mpki == IF miss = None \/ ins = 0 THEN None ELSE (1000 * miss) \div ins
        <3>1. shows = [access |-> acc, miss |-> miss, evict |-> evi, pct |-> Percent(miss, acc), mpki |-> mpki]
            BY <1>2, <1>3, <1>4, <1>5, <1>6, <2>2 DEF LevelMetric
        <3> HIDE DEF mpki
        <3> QED BY <2>2, <3>1
    <2> QED BY <2>1, <2>2
<1> QED BY <1>1, <1>3, <1>4, <1>5, <1>6, <1>7, Zenon

\* What is shown, of which threads.
LEMMA ShownFacts ==
    ASSUME ProcessInv, shown # None
    PROVE  /\ rows \in [Threads -> [Pmus -> Readings]]
           /\ \E whole, isoB, shrB :
                 /\ whole = SumsOver(rows, Threads) /\ shown.levels = LevelMetrics(whole)
                 /\ isoB = SumsOver(rows, Classed("iso")) /\ shown.levelsIso = LevelMetrics(isoB)
                 /\ shrB = SumsOver(rows, Classed("shr")) /\ shown.levelsShr = LevelMetrics(shrB)
<1>1. /\ screen = "process" /\ todo = {}
      /\ shown.levels = LevelMetrics(all) /\ shown.levelsIso = LevelMetrics(iso)
      /\ shown.levelsShr = LevelMetrics(shr)
    BY DEF ProcessInv, ShownInv
<1>2. Threads \ todo = Threads
    BY <1>1
<1>3. /\ DOMAIN rows = Threads /\ rows \in [DOMAIN rows -> [Pmus -> Readings]]
      /\ all = SumsOver(rows, Threads)
      /\ iso = SumsOver(rows, Classed("iso")) /\ shr = SumsOver(rows, Classed("shr"))
    BY <1>1, <1>2 DEF ProcessInv, BucketSums, BucketsOK
<1> QED BY <1>1, <1>3

\* The shown levels are derived of the sums of their threads.
LEMMA SumsFollow == ProcessInv => SumsOfThreads
<1> SUFFICES ASSUME ProcessInv, shown # None, NEW level \in Levels,
                    NEW b \in { <<shown.levels, Threads>>,
                                <<shown.levelsIso, {t \in Threads : class[t] = "iso"}>>,
                                <<shown.levelsShr, {t \in Threads : class[t] = "shr"}>> }
             PROVE  LET acc == Reference(b[2], <<level, "access">>)
                        miss == Reference(b[2], <<level, "miss">>)
                        evi == Reference(b[2], <<level, "evict">>)
                    IN  IF {acc, miss, evi} = {None} THEN b[1][level] = None
                        ELSE /\ b[1][level].access = acc
                             /\ b[1][level].miss = miss
                             /\ b[1][level].evict = evi
    BY DEF SumsOfThreads
<1>1. /\ rows \in [Threads -> [Pmus -> Readings]]
      /\ shown.levels = LevelMetrics(SumsOver(rows, Threads))
      /\ shown.levelsIso = LevelMetrics(SumsOver(rows, Classed("iso")))
      /\ shown.levelsShr = LevelMetrics(SumsOver(rows, Classed("shr")))
    BY ShownFacts
<1>2. PICK ts : ts = b[2]
    OBVIOUS
<1>3. ts \in SUBSET Threads /\ b[1] = LevelMetrics(SumsOver(rows, ts))
    <2>1. Classed("iso") \in SUBSET Threads /\ Classed("shr") \in SUBSET Threads
        BY DEF Classed
    <2>2. b \in { <<shown.levels, Threads>>, <<shown.levelsIso, Classed("iso")>>,
                  <<shown.levelsShr, Classed("shr")>> }
        BY DEF Classed
    <2> HIDE DEF Classed
    <2> QED BY <1>1, <1>2, <2>1, <2>2
<1>4. PICK bucket : bucket = SumsOver(rows, ts)
    OBVIOUS
<1>5. LET acc == Reference(ts, <<level, "access">>)
          miss == Reference(ts, <<level, "miss">>)
          evi == Reference(ts, <<level, "evict">>)
          shows == LevelMetrics(bucket)[level]
      IN  IF {acc, miss, evi} = {None} THEN shows = None
          ELSE shows.access = acc /\ shows.miss = miss /\ shows.evict = evi
    BY <1>1, <1>3, <1>4, LevelOfSums
<1> QED BY <1>2, <1>3, <1>4, <1>5, Zenon

\* Whatever order the threads come in and whatever each of them and each PMU
\* lacks, a level shows the sums over just its threads and PMUs, and nothing
\* when nobody counted (_aggregate, _accum and _sum, procmon.py:239-283).
THEOREM SumsAreOfTheThreads == Spec => []SumsOfThreads
BY SpecInv, SumsFollow, PTL

\* The points of a cell are shares when its lookups and misses are counted together.
LEMMA PointShares ==
    ASSUME SystemInv, NEW c \in Cells, \A j \in 1 .. Len(frames) : Together(frames[j], c[1]),
           NEW i \in 1 .. Len(missHist[c])
    PROVE  missHist[c][i] \in Percentages
<1>1. PICK j \in 1 .. Len(frames) :
          LET cell == LevelMetric(frames[j], {c[2]}, c[1]) IN
          cell # None /\ missHist[c][i] = Num(cell["pct"])
    BY DEF SystemInv, PointsOfFrames
<1>2. PICK counts : counts = frames[j]
    OBVIOUS
<1>3. counts \in [Pmus -> Readings] /\ Together(counts, c[1])
    BY <1>2 DEF SystemInv, SystemTypeOK
<1>4. PICK cell : cell = LevelMetric(counts, {c[2]}, c[1])
    OBVIOUS
<1>5. PICK pct : pct = cell["pct"]
    OBVIOUS
<1>6. pct \in (0 .. 100) \cup {None}
    BY <1>1, <1>2, <1>3, <1>4, <1>5, CellFacts DEF Percentages
<1>7. Num(pct) \in 0 .. 100
    BY <1>6 DEF Num
<1> QED BY <1>1, <1>2, <1>4, <1>5, <1>7 DEF Percentages

\* Percentages of misses, shown or in a history.
LEMMA ShareFollows == ProcessInv /\ SystemInv => ShareOfLookups
<1> SUFFICES ASSUME ProcessInv, SystemInv, NEW level \in Levels
             PROVE  /\ shown # None /\ (\A t \in Threads : Together(rows[t], level)) =>
                          \A b \in {shown.levels, shown.levelsIso, shown.levelsShr} :
                              b[level] = None \/ b[level].pct \in Percentages
                    /\ \A p \in Pmus : (\A i \in 1 .. Len(frames) : Together(frames[i], level)) =>
                          \A i \in 1 .. Len(missHist[level, p]) : missHist[level, p][i] \in Percentages
    BY DEF ShareOfLookups
<1>1. ASSUME shown # None, \A t \in Threads : Together(rows[t], level),
             NEW b \in {shown.levels, shown.levelsIso, shown.levelsShr}
      PROVE  b[level] = None \/ b[level].pct \in Percentages
    <2>1. PICK ts \in SUBSET Threads : b = LevelMetrics(SumsOver(rows, ts))
        <3>1. Threads \in SUBSET Threads /\ Classed("iso") \in SUBSET Threads /\ Classed("shr") \in SUBSET Threads
            BY DEF Classed
        <3> QED BY <1>1, <3>1, ShownFacts
    <2>2. PICK bucket : bucket = SumsOver(rows, ts)
        OBVIOUS
    <2>3. rows \in [Threads -> [Pmus -> Readings]]
        BY <1>1, ShownFacts
    <2>4. bucket \in Counts
        BY <2>2, <2>3, SumsOverType
    <2>5. Together(bucket, level)
        BY <1>1, <2>2, <2>3, SumsOverTogether
    <2>6. b[level] = LevelMetric(bucket, Pmus, level)
        BY <2>1, <2>2 DEF LevelMetrics
    <2>7. Pmus \in SUBSET Pmus
        OBVIOUS
    <2> QED BY <2>4, <2>5, <2>6, <2>7, LevelMetricFacts
<1>2. ASSUME NEW p \in Pmus, \A i \in 1 .. Len(frames) : Together(frames[i], level)
      PROVE  \A i \in 1 .. Len(missHist[level, p]) : missHist[level, p][i] \in Percentages
    <2>1. PICK c : c = <<level, p>>
        OBVIOUS
    <2>2. c \in Cells /\ c[1] = level
        BY <2>1 DEF Cells
    <2>3. \A i \in 1 .. Len(missHist[c]) : missHist[c][i] \in Percentages
        BY <1>2, <2>2, PointShares
    <2> QED BY <2>1, <2>3, Zenon
<1> QED BY <1>1, <1>2

\* miss% of a process and of a cell, now and in the history, is within 0..100
\* as long as lookups and misses are counted together (_level_metrics,
\* procmon.py:309-335; MetricsState.update, metrics.py:57-80).
THEOREM MissesAreAShare == Spec => []ShareOfLookups
BY SpecInv, ShareFollows, PTL

\* The two histories of a cell are those of the same last frames
\* (MetricsState.update, metrics.py:75-80).
THEOREM HistoriesInStep == Spec => []HistoriesTogether
<1>1. SystemInv => HistoriesTogether
    BY DEF SystemInv
<1> QED BY SpecInv, <1>1, PTL

\* A finite set of numbers has a least and a greatest.
LEMMA MinMax ==
    ASSUME NEW S, IsFiniteSet(S), S \subseteq Nat, S # {}
    PROVE  /\ Min(S) \in S /\ \A y \in S : Min(S) <= y
           /\ Max(S) \in S /\ \A y \in S : Max(S) >= y
<1> DEFINE Good == {T \in SUBSET S : T = {} \/ ( (\E x \in T : \A y \in T : x <= y)
                                             /\ (\E x \in T : \A y \in T : x >= y) )}
<1>1. {} \in Good
    OBVIOUS
<1>2. ASSUME NEW T \in SUBSET S, NEW x \in S \ T, T \in Good PROVE T \cup {x} \in Good
    <2>1. CASE T = {}
        <3>1. T \cup {x} = {x} /\ x \in Nat
            BY <2>1
        <3> QED BY <3>1
    <2>2. CASE T # {}
        <3>1. PICK lo \in T : \A y \in T : lo <= y
            BY <1>2, <2>2
        <3>2. PICK hi \in T : \A y \in T : hi >= y
            BY <1>2, <2>2
        <3>3. \A y \in T \cup {x} : y \in Nat
            OBVIOUS
        <3>4. \E z \in T \cup {x} : \A y \in T \cup {x} : z <= y
            <4>1. CASE lo <= x
                BY <3>1, <4>1
            <4>2. CASE ~(lo <= x)
                <5>1. \A y \in T \cup {x} : x <= y
                    BY <3>1, <3>3, <4>2
                <5> QED BY <5>1
            <4> QED BY <4>1, <4>2
        <3>5. \E z \in T \cup {x} : \A y \in T \cup {x} : z >= y
            <4>1. CASE hi >= x
                BY <3>2, <4>1
            <4>2. CASE ~(hi >= x)
                <5>1. \A y \in T \cup {x} : x >= y
                    BY <3>2, <3>3, <4>2
                <5> QED BY <5>1
            <4> QED BY <4>1, <4>2
        <3> QED BY <3>4, <3>5
    <2> QED BY <2>1, <2>2
<1>3. S \in Good
    <2> HIDE DEF Good
    <2> QED BY <1>1, <1>2, SetInduction
<1>4. (\E x \in S : \A y \in S : x <= y) /\ (\E x \in S : \A y \in S : x >= y)
    BY <1>3
<1> QED BY <1>4 DEF Min, Max

\* The rounded index of a value, out of the span of the values.
LEMMA IndexFacts ==
    ASSUME NEW span \in Nat \ {0}, NEW d \in 0 .. span
    PROVE  LET i == (14 * d + span) \div (2 * span) IN
           i \in 0 .. 7 /\ (d = 0 => i = 0) /\ (d = span => i = 7)
<1> DEFINE i == (14 * d + span) \div (2 * span)
           w == 2 * span
           n == 14 * d + span
<1>1. /\ w \in Nat \ {0} /\ n \in Nat /\ n < 8 * w /\ w = 2 * span
      /\ (d = 0 => n < w) /\ (d = span => 7 * w <= n)
    OBVIOUS
<1>2. i = n \div w
    OBVIOUS
<1> HIDE DEF i, n, w
<1>3. i \in Int /\ w * i <= n /\ n < w * i + w
    BY <1>1, <1>2
<1>4. 0 <= i
    BY <1>1, <1>3
<1>5. i < 8
    BY <1>1, <1>3, <1>4
<1>6. d = 0 => i < 1
    BY <1>1, <1>3, <1>4
<1>7. d = span => 6 < i
    BY <1>1, <1>3, <1>4
<1> QED BY <1>3, <1>4, <1>5, <1>6, <1>7 DEF i

\* A greater value gets no lower an index.
LEMMA IndexOrder ==
    ASSUME NEW span \in Nat \ {0}, NEW d \in Nat, NEW e \in Nat, d <= e
    PROVE  (14 * d + span) \div (2 * span) <= (14 * e + span) \div (2 * span)
<1>1. 14 * d + span <= 14 * e + span /\ 2 * span \in Nat \ {0}
    OBVIOUS
<1>2. \A m, n \in Nat, w \in Nat \ {0} : m <= n => m \div w <= n \div w
    OBVIOUS
<1> QED BY <1>1, <1>2

\* The indices of a history span the blocks.
LEMMA SparkFollows == SystemInv => SparkSpans
<1> SUFFICES ASSUME SystemInv, NEW c \in Cells, missHist[c] # <<>>
             PROVE  LET vals == missHist[c]
                        lo == Min({vals[i] : i \in DOMAIN vals})
                        hi == Max({vals[i] : i \in DOMAIN vals})
                        idx == Spark(vals, lo, hi)
                    IN  /\ \A i \in DOMAIN vals : idx[i] \in 0 .. 7
                        /\ \A i, j \in DOMAIN vals : vals[i] <= vals[j] => idx[i] <= idx[j]
                        /\ lo < hi => \A i \in DOMAIN vals :
                              (vals[i] = lo => idx[i] = 0) /\ (vals[i] = hi => idx[i] = 7)
    BY DEF SparkSpans
<1>1. PICK vals : vals = missHist[c]
    OBVIOUS
<1>2. vals \in Seq(Nat) /\ vals # <<>>
    BY <1>1 DEF SystemInv, SystemTypeOK
<1>3. PICK S : S = {vals[i] : i \in DOMAIN vals}
    OBVIOUS
<1>4. IsFiniteSet(S) /\ S \subseteq Nat /\ S # {}
    <2>1. DOMAIN vals = 1 .. Len(vals) /\ Len(vals) \in Nat /\ 1 \in DOMAIN vals
        BY <1>2
    <2>2. IsFiniteSet(DOMAIN vals)
        BY <2>1, FS_Interval
    <2>3. IsFiniteSet(S)
        <3>1. vals \in Surjection(DOMAIN vals, S)
            BY <1>2, <1>3, <2>1 DEF Surjection
        <3> QED BY <2>2, <3>1, FS_Surjection
    <2> QED BY <1>2, <1>3, <2>1, <2>3
<1>5. PICK lo : lo = Min(S)
    OBVIOUS
<1>6. PICK hi : hi = Max(S)
    OBVIOUS
<1>7. lo \in Nat /\ hi \in Nat /\ \A i \in DOMAIN vals : vals[i] \in Nat /\ lo <= vals[i] /\ vals[i] <= hi
    BY <1>3, <1>4, <1>5, <1>6, MinMax
<1>8. PICK idx : idx = Spark(vals, lo, hi)
    OBVIOUS
<1>9. \A i \in DOMAIN vals :
          idx[i] = IF lo = hi THEN 0 ELSE (14 * (vals[i] - lo) + (hi - lo)) \div (2 * (hi - lo))
    BY <1>8 DEF Spark
<1>10. /\ \A i \in DOMAIN vals : idx[i] \in 0 .. 7
       /\ \A i, j \in DOMAIN vals : vals[i] <= vals[j] => idx[i] <= idx[j]
       /\ lo < hi => \A i \in DOMAIN vals :
             (vals[i] = lo => idx[i] = 0) /\ (vals[i] = hi => idx[i] = 7)
    <2>1. CASE lo = hi
        BY <1>7, <1>9, <2>1
    <2>2. CASE lo # hi
        <3>1. PICK span : span = hi - lo
            OBVIOUS
        <3>2. span \in Nat \ {0} /\ \A i \in DOMAIN vals : vals[i] - lo \in 0 .. span
            <4>1. \E i \in DOMAIN vals : vals[i] = lo
                BY <1>3, <1>4, <1>5, MinMax
            <4> QED BY <1>7, <2>2, <3>1, <4>1
        <3>3. \A i \in DOMAIN vals : idx[i] = (14 * (vals[i] - lo) + span) \div (2 * span)
            BY <1>9, <2>2, <3>1
        <3>4. ASSUME NEW i \in DOMAIN vals
              PROVE  idx[i] \in 0 .. 7 /\ (vals[i] = lo => idx[i] = 0) /\ (vals[i] = hi => idx[i] = 7)
            <4>1. PICK d : d = vals[i] - lo
                OBVIOUS
            <4>2. d \in 0 .. span /\ idx[i] = (14 * d + span) \div (2 * span)
                BY <3>2, <3>3, <4>1
            <4>3. idx[i] \in 0 .. 7 /\ (d = 0 => idx[i] = 0) /\ (d = span => idx[i] = 7)
                BY <3>2, <4>2, IndexFacts
            <4> QED BY <1>7, <3>1, <4>1, <4>3
        <3>5. ASSUME NEW i \in DOMAIN vals, NEW j \in DOMAIN vals, vals[i] <= vals[j]
              PROVE  idx[i] <= idx[j]
            <4>1. PICK d : d = vals[i] - lo
                OBVIOUS
            <4>2. PICK e : e = vals[j] - lo
                OBVIOUS
            <4>3. d \in Nat /\ e \in Nat /\ d <= e
                BY <1>7, <3>2, <3>5, <4>1, <4>2
            <4>4. idx[i] = (14 * d + span) \div (2 * span) /\ idx[j] = (14 * e + span) \div (2 * span)
                BY <3>3, <4>1, <4>2
            <4> QED BY <3>2, <4>3, <4>4, IndexOrder
        <3> QED BY <3>4, <3>5
    <2> QED BY <2>1, <2>2
<1> QED BY <1>1, <1>3, <1>5, <1>6, <1>8, <1>10

\* sparkline (ui.py:12-24) uses its eight blocks in full, and in order.
THEOREM SparklinesSpan == Spec => []SparkSpans
BY SpecInv, SparkFollows, PTL
============================================================================
