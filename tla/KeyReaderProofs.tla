-------------------------- MODULE KeyReaderProofs --------------------------
(***************************************************************************)
(* For any keyboard and any number of keys: the reader thread, left       *)
(* running by KeyReader.__exit__, takes at most three bytes of what is    *)
(* typed afterwards; and what it queued before is what was typed.         *)
(*                                                                        *)
(* The second is by CalmInv: what the keys are to give is what has been   *)
(* handled, what is queued, and what the bytes still pending decode to,   *)
(* whether they are in the input queue or, an Esc, in the reader's hands. *)
(* That rests on what FlattenSeq gives (FlattenAppend), on the first      *)
(* token of some bytes (DecodeFirst), and on decoding the bytes of two    *)
(* keys that run together as those of each (DecodeConcat).                *)
(***************************************************************************)
EXTENDS KeyReader, SequenceTheorems, WellFoundedInduction, TLAPS

\* Once a byte was read late, the reader comes to its check before select, and
\* at most two more before that.
LateInv ==
    /\ ~stop => late = 0
    /\ reader = "select" => late = 0
    /\ reader = "esc" => late <= 1
    /\ late <= 3

IInv == TypeOK /\ LateInv

\* What a key is made of.
LEMMA KeyFacts ==
    ASSUME NEW key \in Keyboard, NEW n \in 1 .. Len(key.bytes)
    PROVE  /\ SubSeq(key.bytes, 1, n) \in Seq(Text)
           /\ SubSeq(key.bytes, n + 1, Len(key.bytes)) \in Seq(Text)
<1>1. key.bytes \in Seq(Text) /\ Len(key.bytes) \in Nat
    BY KeyboardAssumption, LenProperties
<1>2. \A i \in 1 .. Len(key.bytes) : key.bytes[i] \in Text
    BY <1>1, ElementOfSeq
<1> QED BY <1>1, <1>2, SubSeqProperties

\* Tokens are text.
LEMMA TokenFacts ==
    /\ \A b \in Text : Classify(b) \in Text
    /\ \A s : Arrow(s) \in Text
BY TextAssumption DEF Classify, Arrow

LEMMA InitIInv == Init => IInv
<1> SUFFICES ASSUME Init PROVE IInv
    OBVIOUS
<1>1. /\ rest \in Seq(Text) /\ input \in Seq(Text) /\ queue \in Seq(Text)
      /\ handled \in Seq(Text) /\ typed \in Seq(Keyboard)
    BY EmptySeq DEF Init
<1>2. Len(typed) <= MaxKeys
    BY EmptySeq, MaxKeysAssumption DEF Init
<1>3. reader \in {"check", "select", "esc", "done"} /\ main \in {"live", "leave", "left"}
    BY DEF Init
<1>4. stop \in BOOLEAN /\ calm \in BOOLEAN /\ late = 0
    BY DEF Init
<1>5. LateInv
    BY <1>4 DEF LateInv
<1> QED BY <1>1, <1>2, <1>3, <1>4, <1>5 DEF IInv, TypeOK

\* The user and the line leave the reader alone.
LEMMA UserIInv ==
    ASSUME IInv, Arrive \/ \E key \in Keyboard : \E n \in 1 .. Len(key.bytes) : Press(key, n)
    PROVE  IInv'
<1> USE DEF IInv
<1>1. ASSUME NEW key \in Keyboard, NEW n \in 1 .. Len(key.bytes), Press(key, n)
      PROVE  IInv'
    <2>1. typed' \in Seq(Keyboard) /\ Len(typed') <= MaxKeys
        BY <1>1, MaxKeysAssumption DEF Press, TypeOK
    <2>2. input' \in Seq(Text) /\ rest' \in Seq(Text)
        BY <1>1, KeyFacts, ConcatProperties DEF Press, TypeOK
    <2>3. calm' \in BOOLEAN
        BY <1>1 DEF Press
    <2> QED BY <1>1, <2>1, <2>2, <2>3 DEF Press, TypeOK, LateInv, readerVars
<1>2. CASE Arrive
    BY <1>2, ConcatProperties DEF Arrive, TypeOK, LateInv, readerVars
<1> QED BY <1>1, <1>2

\* A step of the reader; only ReadKey takes a key, and only from select.
LEMMA ReaderIInv == IInv /\ Reader => IInv'
<1> SUFFICES ASSUME IInv, Reader PROVE IInv'
    OBVIOUS
<1> USE DEF IInv, userVars
<1>1. CASE CheckStop \/ Nothing
    BY <1>1 DEF CheckStop, Nothing, TypeOK, LateInv
<1>4. CASE EscAlone
    <2>1. "esc" \in Text /\ queue \in Seq(Text)
        BY TextAssumption DEF TypeOK
    <2>2. queue' \in Seq(Text)
        BY <2>1, <1>4, AppendProperties DEF EscAlone
    <2> QED BY <2>2, <1>4 DEF EscAlone, TypeOK, LateInv
<1>2. CASE ReadKey
    <2>1. input \in Seq(Text) /\ input # <<>> /\ queue \in Seq(Text)
        BY <1>2 DEF ReadKey, TypeOK
    <2>2. Head(input) \in Text /\ input' \in Seq(Text)
        BY <2>1, <1>2, HeadTailProperties DEF ReadKey
    <2>3. queue' \in Seq(Text) /\ reader' \in {"check", "esc"}
        <3>1. Classify(Head(input)) \in Text
            BY <2>2, TokenFacts
        <3>2. Append(queue, Classify(Head(input))) \in Seq(Text)
            BY <2>1, <3>1, AppendProperties
        <3> QED BY <2>1, <3>2, <1>2 DEF ReadKey
    <2>4. TypeOK'
        BY <2>2, <2>3, <1>2 DEF ReadKey, TypeOK
    <2>5. LateInv'
        BY <2>3, <1>2 DEF ReadKey, LateInv, TypeOK
    <2> QED BY <2>4, <2>5
<1>3. CASE EscRest
    <2> DEFINE n == IF Len(input) < 2 THEN 1 ELSE 2
    <2>1. input \in Seq(Text) /\ input # <<>> /\ queue \in Seq(Text)
        BY <1>3 DEF EscRest, TypeOK
    <2>2. Len(input) \in Nat /\ Len(input) > 0 /\ n \in 1 .. Len(input)
        BY <2>1, LenProperties, EmptySeq
    <2>3. \A i \in 1 .. Len(input) : input[i] \in Text
        BY <2>1, ElementOfSeq
    <2>4. SubSeq(input, n + 1, Len(input)) \in Seq(Text)
        BY <2>1, <2>2, <2>3, SubSeqProperties
    <2>5. input' \in Seq(Text) /\ queue' \in Seq(Text)
        BY <2>1, <2>4, <1>3, TokenFacts DEF EscRest
    <2>6. late \in Nat /\ late' = (IF stop THEN late + n ELSE late) /\ n \in {1, 2}
        BY <1>3 DEF EscRest, TypeOK
    <2>7. LateInv' /\ late' \in Nat
        BY <2>6, <1>3 DEF EscRest, LateInv
    <2> QED BY <2>5, <2>7, <1>3 DEF EscRest, TypeOK
<1> QED BY <1>1, <1>2, <1>3, <1>4 DEF Reader

\* The loop empties the queue and, on its way out, sets stop.
LEMMA LoopIInv == IInv /\ (Drain \/ Interrupt \/ Exit) => IInv'
<1> SUFFICES ASSUME IInv, Drain \/ Interrupt \/ Exit PROVE IInv'
    OBVIOUS
<1> USE DEF IInv, userVars, readerVars
<1>1. CASE Interrupt \/ Exit
    BY <1>1 DEF Interrupt, Exit, TypeOK, LateInv
<1>2. CASE Drain
    <2>1. handled' \in Seq(Text) /\ main' \in {"live", "leave"}
        <3>1. queue \in Seq(Text) /\ handled \in Seq(Text) /\ main = "live"
            BY <1>2 DEF Drain, TypeOK
        <3>2. \A i \in 1 .. Len(queue) : SubSeq(queue, 1, i) \in Seq(Text)
            BY <3>1, SubSeqProperties, ElementOfSeq, LenProperties
        <3>3. \A s \in Seq(Text) : handled \o s \in Seq(Text)
            BY <3>1, ConcatProperties
        <3> QED BY <3>1, <3>2, <3>3, <1>2 DEF Drain
    <2> QED BY <2>1, <1>2 DEF Drain, TypeOK, LateInv
<1> QED BY <1>1, <1>2

LEMMA NextIInv == IInv /\ [Next]_vars => IInv'
<1> SUFFICES ASSUME IInv, [Next]_vars PROVE IInv'
    OBVIOUS
<1>1. CASE UNCHANGED vars
    BY <1>1 DEF vars, IInv, TypeOK, LateInv
<1> QED BY <1>1, UserIInv, ReaderIInv, LoopIInv DEF Next

THEOREM Inductive == Spec => []IInv
BY InitIInv, NextIInv, PTL DEF Spec

----------------------------------------------------------------------------

\* The reader's and the loop's state keep their types, whatever is typed.
THEOREM TypeCorrect == Spec => []TypeOK
<1>1. IInv => TypeOK
    BY DEF IInv
<1> QED BY <1>1, Inductive, PTL

\* KeyReader's thread takes three of the shell's bytes at most.
THEOREM LateBytesBounded == Spec => []LittleTakenLate
<1>1. IInv => LittleTakenLate
    BY DEF IInv, LateInv, LittleTakenLate
<1> QED BY <1>1, Inductive, PTL

\* A sequence that is not empty, its head first.
LEMMA HeadAndTail == ASSUME NEW s \in Seq(Text), s # <<>> PROVE s = <<Head(s)>> \o Tail(s)
<1>1. s[1] = Head(s) /\ 1 \in 1 .. Len(s) /\ Len(s) \in 1 .. Len(s)
    BY LenProperties, EmptySeq
<1>2. SubSeq(s, 1, Len(s)) = <<s[1]>> \o SubSeq(s, 1 + 1, Len(s))
    BY <1>1, SubSeqRecursiveFirst
<1> QED BY <1>1, <1>2, SubSeqFull, TailIsSubSeq

----------------------------------------------------------------------------
(* What the keys typed are to give. *)

\* Of some numbers one is least.
LEMMA Least ==
    ASSUME NEW T, T \subseteq Nat, T # {}
    PROVE  \E n \in T : \A m \in T : n <= m
<1>1. IsWellFoundedOn(OpToRel(<, Nat), Nat)
    BY NatLessThanWellFounded
<1>2. PICK n \in T : \A m \in T : ~(<<m, n>> \in OpToRel(<, Nat))
    BY <1>1, WFMin
<1>3. \A m \in T : ~(m < n)
    BY <1>2 DEF OpToRel
<1> QED BY <1>3

\* f flattens ss one after the other, as FlattenSeq does.
Flattens(f, ss) == f = [i \in 1 .. Len(ss) |-> IF i = 1 THEN ss[i] ELSE f[i - 1] \o ss[i]]

\* There is one such f.
LEMMA FlattensOnce ==
    ASSUME NEW ss, Len(ss) \in Nat, NEW f, NEW g, Flattens(f, ss), Flattens(g, ss)
    PROVE  f = g
<1> DEFINE T == {i \in 1 .. Len(ss) : f[i] # g[i]}
<1>1. /\ \A i \in 1 .. Len(ss) : f[i] = IF i = 1 THEN ss[i] ELSE f[i - 1] \o ss[i]
      /\ \A i \in 1 .. Len(ss) : g[i] = IF i = 1 THEN ss[i] ELSE g[i - 1] \o ss[i]
    BY DEF Flattens
<1>2. ASSUME T # {} PROVE FALSE
    <2>1. PICK n \in T : \A m \in T : n <= m
        <3>1. T \subseteq Nat /\ T # {}
            BY <1>2
        <3> HIDE DEF T
        <3> QED BY <3>1, Least
    <2>2. CASE n = 1
        BY <1>1, <2>2
    <2>3. CASE n # 1
        <3>1. n - 1 \in 1 .. Len(ss) /\ n - 1 \notin T
            BY <2>1, <2>3
        <3>2. f[n - 1] = g[n - 1]
            BY <3>1
        <3> QED BY <1>1, <2>3, <3>2
    <2> QED BY <2>2, <2>3
<1>3. \A i \in 1 .. Len(ss) : f[i] = g[i]
    BY <1>2
<1>4. /\ f = [i \in 1 .. Len(ss) |-> f[i]] /\ g = [i \in 1 .. Len(ss) |-> g[i]]
    BY DEF Flattens
<1> QED BY <1>3, <1>4

\* A sequence more extends it.
LEMMA FlattensMore ==
    ASSUME NEW ss \in Seq(Seq(Text)), NEW s \in Seq(Text), NEW f, Flattens(f, ss)
    PROVE  \E g : /\ Flattens(g, Append(ss, s))
                  /\ g[Len(ss) + 1] = IF Len(ss) = 0 THEN s ELSE f[Len(ss)] \o s
<1> DEFINE n == Len(ss)
           more == Append(ss, s)
           g == [i \in 1 .. n + 1 |-> IF i = n + 1 THEN IF n = 0 THEN s ELSE f[n] \o s ELSE f[i]]
<1>1. n \in Nat /\ Len(more) = n + 1 /\ more[n + 1] = s /\ \A i \in 1 .. n : more[i] = ss[i]
    BY AppendProperties, LenProperties
<1>2. \A i \in 1 .. n : f[i] = IF i = 1 THEN ss[i] ELSE f[i - 1] \o ss[i]
    BY DEF Flattens
<1> HIDE DEF n, more
<1>3. \A i \in 1 .. n + 1 : g[i] = IF i = 1 THEN more[i] ELSE g[i - 1] \o more[i]
    <2> TAKE i \in 1 .. n + 1
    <2>1. CASE i = n + 1 /\ n = 0
        BY <1>1, <2>1
    <2>2. CASE i = n + 1 /\ n # 0
        <3>1. i - 1 \in 1 .. n /\ i - 1 = n
            BY <1>1, <2>2
        <3>2. g[i] = f[n] \o s /\ g[i - 1] = f[n]
            BY <1>1, <2>2, <3>1
        <3>3. i # 1 /\ more[i] = s
            BY <1>1, <2>2
        <3> HIDE DEF g
        <3> QED BY <3>2, <3>3
    <2>3. CASE i \in 1 .. n
        <3>1. i # 1 => i - 1 \in 1 .. n
            BY <1>1, <2>3
        <3>2. g[i] = f[i] /\ (i # 1 => g[i - 1] = f[i - 1])
            BY <1>1, <2>3, <3>1
        <3> QED BY <1>1, <1>2, <2>3, <3>2
    <2> QED BY <1>1, <2>1, <2>2, <2>3
<1>4. g = [i \in 1 .. n + 1 |-> IF i = 1 THEN more[i] ELSE g[i - 1] \o more[i]]
    BY <1>3
<1>5. Flattens(g, more) /\ g[n + 1] = IF n = 0 THEN s ELSE f[n] \o s
    <2>1. g[n + 1] = IF n = 0 THEN s ELSE f[n] \o s
        BY <1>1
    <2> HIDE DEF g
    <2> QED BY <1>1, <1>4, <2>1 DEF Flattens
<1> HIDE DEF g
<1> QED BY <1>5 DEF n, more

\* There always is one.
LEMMA FlattensSome == \A ss \in Seq(Seq(Text)) : \E f : Flattens(f, ss)
<1> DEFINE T == {Len(ss) : ss \in {ss \in Seq(Seq(Text)) : ~\E f : Flattens(f, ss)}}
<1> SUFFICES ASSUME T # {} PROVE FALSE
    OBVIOUS
<1>1. T \subseteq Nat
    BY LenProperties
<1>2. PICK n \in T : \A m \in T : n <= m
    BY <1>1, Least
<1>3. PICK ss \in Seq(Seq(Text)) : n = Len(ss) /\ ~\E f : Flattens(f, ss)
    OBVIOUS
<1>4. CASE ss = <<>>
    <2>1. Flattens(<<>>, <<>>)
        BY DEF Flattens
    <2> QED BY <1>3, <1>4, <2>1
<1>5. CASE ss # <<>>
    <2>1. PICK front \in Seq(Seq(Text)), s \in Seq(Text) : ss = Append(front, s)
        BY <1>5, SequenceEmptyOrAppend
    <2>2. Len(front) \in Nat /\ n = Len(front) + 1
        BY <1>3, <2>1, AppendProperties, LenProperties
    <2>3. PICK f : Flattens(f, front)
        <3>1. Len(front) \notin T
            <4> HIDE DEF T
            <4> QED BY <1>2, <2>2
        <3> QED BY <3>1
    <2> QED BY <1>3, <2>1, <2>3, FlattensMore
<1> QED BY <1>4, <1>5

\* FlattenSeq of a sequence more.
LEMMA FlattenAppend ==
    ASSUME NEW ss \in Seq(Seq(Text)), NEW s \in Seq(Text)
    PROVE  FlattenSeq(Append(ss, s)) = FlattenSeq(ss) \o s
<1>1. PICK f : Flattens(f, ss)
    BY FlattensSome
<1>2. PICK g : Flattens(g, Append(ss, s)) /\ g[Len(ss) + 1] = IF Len(ss) = 0 THEN s ELSE f[Len(ss)] \o s
    BY <1>1, FlattensMore
<1>3. Len(Append(ss, s)) = Len(ss) + 1 /\ Len(ss) \in Nat
    BY AppendProperties, LenProperties
<1>4. ASSUME NEW tt, Len(tt) \in Nat \ {0}, NEW h, Flattens(h, tt)
      PROVE  FlattenSeq(tt) = h[Len(tt)]
    <2> DEFINE Is(e) == e = [i \in 1 .. Len(tt) |-> IF i = 1 THEN tt[i] ELSE e[i - 1] \o tt[i]]
               it == CHOOSE e : Is(e)
    <2>1. FlattenSeq(tt) = it[Len(tt)]
        BY <1>4 DEF FlattenSeq
    <2>2. Is(h)
        BY <1>4 DEF Flattens
    <2> HIDE DEF Is
    <2>3. Is(it)
        BY <2>2, Zenon
    <2> HIDE DEF it
    <2>4. Flattens(it, tt)
        BY <2>3 DEF Is, Flattens
    <2> QED BY <1>4, <2>1, <2>4, FlattensOnce
<1>5. FlattenSeq(Append(ss, s)) = g[Len(ss) + 1]
    <2>1. PICK tt : tt = Append(ss, s)
        OBVIOUS
    <2>2. Len(tt) \in Nat \ {0} /\ Flattens(g, tt) /\ Len(tt) = Len(ss) + 1
        BY <1>2, <1>3, <2>1
    <2>3. FlattenSeq(tt) = g[Len(tt)]
        BY <2>2, <1>4
    <2> QED BY <2>1, <2>2, <2>3
<1>6. CASE Len(ss) = 0
    <2>1. FlattenSeq(ss) = ss /\ ss = <<>>
        BY <1>6, EmptySeq DEF FlattenSeq
    <2> QED BY <1>2, <1>5, <1>6, <2>1, ConcatEmptySeq
<1>7. CASE Len(ss) # 0
    <2>1. FlattenSeq(ss) = f[Len(ss)]
        BY <1>1, <1>3, <1>4, <1>7
    <2> QED BY <1>2, <1>5, <1>7, <2>1
<1> QED BY <1>6, <1>7

\* The tokens of some keys, key by key.
LEMMA KeyTokens ==
    ASSUME NEW keys \in Seq(Keyboard)
    PROVE  /\ [i \in 1 .. Len(keys) |-> keys[i].tokens] \in Seq(Seq(Text))
           /\ Len(keys) \in Nat /\ \A i \in 1 .. Len(keys) : keys[i] \in Keyboard
<1>1. Len(keys) \in Nat /\ \A i \in 1 .. Len(keys) : keys[i] \in Keyboard
    BY LenProperties, ElementOfSeq
<1>2. \A i \in 1 .. Len(keys) : keys[i].tokens \in Seq(Text)
    BY <1>1, KeyboardAssumption
<1> QED BY <1>1, <1>2

\* No keys, no tokens.
LEMMA WantedNone == Wanted(<<>>) = <<>>
<1> DEFINE ss == [i \in 1 .. Len(<<>>) |-> <<>>[i].tokens]
<1>1. Len(ss) = 0 /\ ss = <<>>
    OBVIOUS
<1> QED BY <1>1 DEF Wanted, FlattenSeq

\* A key more is to give its tokens after those of the keys before it.
LEMMA WantedAppend ==
    ASSUME NEW keys \in Seq(Keyboard), NEW key \in Keyboard
    PROVE  Wanted(Append(keys, key)) = Wanted(keys) \o key.tokens
<1> DEFINE ss == [i \in 1 .. Len(keys) |-> keys[i].tokens]
           more == Append(keys, key)
           tt == [i \in 1 .. Len(more) |-> more[i].tokens]
<1>1. ss \in Seq(Seq(Text)) /\ key.tokens \in Seq(Text) /\ Len(keys) \in Nat
    BY KeyTokens, KeyboardAssumption
<1>2. /\ Len(more) = Len(keys) + 1 /\ more[Len(keys) + 1] = key
      /\ \A i \in 1 .. Len(keys) : more[i] = keys[i]
    BY AppendProperties
<1>3. tt = Append(ss, key.tokens)
    <2>1. more \in Seq(Keyboard)
        BY AppendProperties
    <2>2. tt \in Seq(Seq(Text))
        BY <2>1, KeyTokens
    <2>3. /\ Append(ss, key.tokens) \in Seq(Seq(Text)) /\ Len(Append(ss, key.tokens)) = Len(ss) + 1
          /\ \A i \in 1 .. Len(ss) : Append(ss, key.tokens)[i] = ss[i]
          /\ Append(ss, key.tokens)[Len(ss) + 1] = key.tokens
        BY <1>1, AppendProperties
    <2>4. Len(ss) = Len(keys) /\ Len(tt) = Len(keys) + 1
        BY <1>1, <1>2
    <2>5. /\ \A i \in 1 .. Len(keys) : tt[i] = ss[i]
          /\ tt[Len(keys) + 1] = key.tokens
        BY <1>1, <1>2
    <2> HIDE DEF ss, tt, more
    <2>6. \A i \in 1 .. Len(tt) : tt[i] = Append(ss, key.tokens)[i]
        BY <1>1, <2>3, <2>4, <2>5
    <2> QED BY <2>2, <2>3, <2>4, <2>6, SeqEqual
<1>4. Wanted(more) = FlattenSeq(tt) /\ Wanted(keys) = FlattenSeq(ss)
    BY DEF Wanted
<1> HIDE DEF ss, tt, more
<1> QED BY <1>1, <1>3, <1>4, FlattenAppend DEF more

----------------------------------------------------------------------------
(* What some bytes decode to. *)

\* The same bytes, elsewhere, give the same token.
LEMMA GivesAt ==
    ASSUME NEW b, NEW c, NEW from \in Int, NEW to \in Int, NEW d \in Int, NEW token,
           Gives(b, from, to, token), \A i \in from + 1 .. to : c[i + d] = b[i],
           to = Len(b) /\ b[to] = "esc" => to + d = Len(c)
    PROVE  Gives(c, from + d, to + d, token)
<1>1. CASE to = from + 1 /\ b[from + 1] # "esc" /\ token = Classify(b[from + 1])
    <2>1. c[(from + d) + 1] = b[from + 1]
        BY <1>1
    <2> QED BY <1>1, <2>1 DEF Gives
<1>2. CASE /\ to = (from + 1) + 2 /\ b[from + 1] = "esc"
           /\ token = Arrow(<<b[(from + 1) + 1], b[(from + 1) + 2]>>)
    <2>1. /\ c[(from + d) + 1] = b[from + 1]
          /\ c[((from + d) + 1) + 1] = b[(from + 1) + 1]
          /\ c[((from + d) + 1) + 2] = b[(from + 1) + 2]
        BY <1>2
    <2>2. to + d = ((from + d) + 1) + 2
        BY <1>2
    <2> QED BY <1>2, <2>1, <2>2 DEF Gives
<1>3. CASE to = from + 1 /\ to = Len(b) /\ b[from + 1] = "esc" /\ token = "esc"
    <2>1. c[(from + d) + 1] = b[from + 1] /\ to + d = Len(c)
        BY <1>3
    <2> QED BY <1>3, <2>1 DEF Gives
<1> QED BY <1>1, <1>2, <1>3 DEF Gives

\* at cuts bytes into the tokens.
Cuts(at, bytes, tokens) ==
    /\ at \in [0 .. Len(tokens) -> 0 .. Len(bytes)]
    /\ at[0] = 0 /\ at[Len(tokens)] = Len(bytes)
    /\ \A k \in 1 .. Len(tokens) : Gives(bytes, at[k - 1], at[k], tokens[k])

\* Decodes, with its cuts at hand.
LEMMA CutsDecode == \A bytes, tokens : Decodes(bytes, tokens) <=> \E at : Cuts(at, bytes, tokens)
BY DEF Decodes, Cuts

\* Every token takes some bytes.
LEMMA CutsAscend ==
    ASSUME NEW bytes \in Seq(Text), NEW tokens \in Seq(Text), NEW at, Cuts(at, bytes, tokens),
           NEW k \in 1 .. Len(tokens)
    PROVE  at[1] <= at[k] /\ at[k - 1] < at[k]
<1>1. Len(bytes) \in Nat /\ Len(tokens) \in Nat /\ \A j \in 0 .. Len(tokens) : at[j] \in Nat
    <2>1. Len(bytes) \in Nat /\ Len(tokens) \in Nat
        BY LenProperties
    <2>2. at \in [0 .. Len(tokens) -> 0 .. Len(bytes)]
        BY DEF Cuts
    <2> QED BY <2>1, <2>2
<1>2. ASSUME NEW j \in 1 .. Len(tokens) PROVE at[j - 1] < at[j]
    <2>1. PICK u : u = at[j - 1]
        OBVIOUS
    <2>2. PICK v : v = at[j]
        OBVIOUS
    <2>3. u \in Nat /\ Gives(bytes, u, v, tokens[j])
        BY <1>1, <2>1, <2>2 DEF Cuts
    <2>4. v = u + 1 \/ v = (u + 1) + 2
        BY <2>3 DEF Gives
    <2> QED BY <2>1, <2>2, <2>3, <2>4
<1>3. ASSUME at[k] < at[1] PROVE FALSE
    <2> DEFINE T == {j \in 1 .. Len(tokens) : at[j] < at[1]}
    <2>1. T \subseteq Nat /\ T # {}
        BY <1>1, <1>3
    <2>2. PICK n \in T : \A m \in T : n <= m
        <3> HIDE DEF T
        <3> QED BY <2>1, Least
    <2>3. n # 1 /\ n - 1 \in 1 .. Len(tokens) /\ at[n - 1] < at[n]
        BY <1>1, <1>2, <2>2
    <2>4. n - 1 \in T
        BY <1>1, <2>2, <2>3
    <2> HIDE DEF T
    <2> QED BY <2>1, <2>2, <2>4
<1> QED BY <1>1, <1>2, <1>3

\* The first of the tokens, and the others.
LEMMA DecodeFirst ==
    ASSUME NEW bytes \in Seq(Text), NEW tokens \in Seq(Text), Decodes(bytes, tokens), bytes # <<>>
    PROVE  /\ tokens # <<>>
           /\ \E d \in 1 .. Len(bytes) :
                 /\ Gives(bytes, 0, d, Head(tokens))
                 /\ Decodes(SubSeq(bytes, d + 1, Len(bytes)), Tail(tokens))
<1>1. PICK at : Cuts(at, bytes, tokens)
    BY CutsDecode
<1>2. /\ Len(bytes) \in Nat \ {0} /\ Len(tokens) \in Nat
      /\ \A i \in 1 .. Len(bytes) : bytes[i] \in Text
    BY LenProperties, ElementOfSeq, EmptySeq
<1>3. Len(tokens) # 0
    BY <1>1, <1>2 DEF Cuts
<1>4. PICK n : n = Len(tokens) /\ n \in Nat \ {0}
    BY <1>2, <1>3
<1>5. PICK d : d = at[1]
    OBVIOUS
<1>6. /\ \A k \in 0 .. n : at[k] \in 0 .. Len(bytes)
      /\ \A k \in 1 .. n : d <= at[k] /\ at[k - 1] < at[k]
      /\ at[0] = 0 /\ at[n] = Len(bytes)
    BY <1>1, <1>4, <1>5, CutsAscend DEF Cuts
<1>7. d \in 1 .. Len(bytes)
    BY <1>2, <1>4, <1>5, <1>6
<1>8. Gives(bytes, 0, d, tokens[1])
    BY <1>1, <1>4, <1>5 DEF Cuts
<1>9. PICK left : left = SubSeq(bytes, d + 1, Len(bytes))
    OBVIOUS
<1>10. Len(left) = Len(bytes) - d /\ \A i \in 1 .. Len(bytes) - d : left[i] = bytes[d + i]
    <2>1. \A i \in d + 1 .. Len(bytes) : bytes[i] \in Text
        BY <1>2, <1>7
    <2>2. d + 1 \in Int /\ Len(bytes) \in Int
        BY <1>2, <1>7
    <2>3. /\ Len(left) = IF d + 1 <= Len(bytes) THEN Len(bytes) - (d + 1) + 1 ELSE 0
          /\ \A i \in 1 .. Len(bytes) - (d + 1) + 1 : left[i] = bytes[(d + 1) + i - 1]
        BY <1>9, <2>1, <2>2, SubSeqProperties
    <2> QED BY <1>2, <1>7, <2>3
<1>11. /\ Head(tokens) = tokens[1] /\ Len(Tail(tokens)) = n - 1
       /\ \A k \in 1 .. n - 1 : Tail(tokens)[k] = tokens[k + 1]
    <2>1. tokens # <<>>
        BY <1>3, EmptySeq
    <2> QED BY <1>4, <2>1, HeadTailProperties
<1>12. PICK rst : rst = Tail(tokens)
    OBVIOUS
<1>13. PICK from : from = [k \in 0 .. n - 1 |-> at[k + 1] - d]
    OBVIOUS
<1>14. /\ \A k \in 0 .. n - 1 : from[k] = at[k + 1] - d /\ k + 1 \in 1 .. n
       /\ from \in [0 .. n - 1 -> 0 .. Len(bytes) - d]
    BY <1>2, <1>4, <1>6, <1>7, <1>13
<1>15. ASSUME NEW k \in 1 .. n - 1 PROVE Gives(left, from[k - 1], from[k], rst[k])
    <2>1. PICK u : u = at[k]
        OBVIOUS
    <2>2. PICK v : v = at[k + 1]
        OBVIOUS
    <2>3. /\ k \in 1 .. n /\ k + 1 \in 1 .. n /\ (k + 1) - 1 = k
          /\ u \in Nat /\ v \in Nat /\ d <= u /\ u < v /\ v <= Len(bytes)
        BY <1>4, <1>6, <2>1, <2>2
    <2>4. Gives(bytes, u, v, rst[k])
        BY <1>1, <1>4, <1>11, <1>12, <2>1, <2>2, <2>3 DEF Cuts
    <2>5. \A i \in u + 1 .. v : left[i + (-d)] = bytes[i]
        BY <1>2, <1>7, <1>10, <2>3
    <2>6. v = Len(bytes) => v + (-d) = Len(left)
        BY <1>7, <1>10, <2>3
    <2>7. -d \in Int /\ u \in Int /\ v \in Int
        BY <1>7, <2>3
    <2>8. Gives(left, u + (-d), v + (-d), rst[k])
        BY <2>4, <2>5, <2>6, <2>7, GivesAt
    <2>9. from[k - 1] = u + (-d) /\ from[k] = v + (-d)
        <3>1. k - 1 \in 0 .. n - 1 /\ k \in 0 .. n - 1 /\ (k - 1) + 1 = k
            BY <1>4
        <3> QED BY <1>7, <1>14, <2>1, <2>2, <2>3, <3>1
    <2> QED BY <2>8, <2>9
<1>16. from[0] = 0 /\ from[n - 1] = Len(left)
    <2>1. 0 \in 0 .. n - 1 /\ n - 1 \in 0 .. n - 1 /\ 0 + 1 = 1 /\ (n - 1) + 1 = n
        BY <1>4
    <2>2. from[0] = at[1] - d /\ from[n - 1] = at[n] - d
        BY <1>14, <2>1
    <2> QED BY <1>5, <1>6, <1>7, <1>10, <2>2
<1>17. Cuts(from, left, rst)
    BY <1>10, <1>11, <1>12, <1>14, <1>15, <1>16 DEF Cuts
<1>18. Decodes(left, rst)
    BY <1>17, CutsDecode
<1> QED BY <1>3, <1>7, <1>8, <1>9, <1>11, <1>12, <1>18, EmptySeq

\* Bytes that leave no Esc open decode apart from what comes after them.
LEMMA DecodeConcat ==
    ASSUME NEW b \in Seq(Text), NEW s \in Seq(Text), Decodes(b, s), b = <<>> \/ b[Len(b)] # "esc",
           NEW c \in Seq(Text), NEW t \in Seq(Text), Decodes(c, t)
    PROVE  Decodes(b \o c, s \o t)
<1>1. PICK at : Cuts(at, b, s)
    BY CutsDecode
<1>2. PICK on : Cuts(on, c, t)
    BY CutsDecode
<1>3. /\ Len(b) \in Nat /\ Len(c) \in Nat /\ Len(s) \in Nat /\ Len(t) \in Nat
    BY LenProperties
<1>4. PICK n : n = Len(s)
    OBVIOUS
<1>5. PICK m : m = Len(t)
    OBVIOUS
<1>6. PICK l : l = Len(b)
    OBVIOUS
<1>7. PICK bytes : bytes = b \o c
    OBVIOUS
<1>8. PICK tokens : tokens = s \o t
    OBVIOUS
<1>9. /\ Len(bytes) = l + Len(c) /\ Len(tokens) = n + m
      /\ \A i \in 1 .. l : bytes[i] = b[i]
      /\ \A i \in 1 .. Len(c) : bytes[i + l] = c[i]
      /\ \A i \in 1 .. n : tokens[i] = s[i]
      /\ \A i \in 1 .. m : tokens[i + n] = t[i]
    <2>1. /\ Len(bytes) = l + Len(c)
          /\ \A i \in 1 .. l + Len(c) : bytes[i] = IF i <= l THEN b[i] ELSE c[i - l]
        BY <1>6, <1>7, ConcatProperties
    <2>2. /\ Len(tokens) = n + m
          /\ \A i \in 1 .. n + m : tokens[i] = IF i <= n THEN s[i] ELSE t[i - n]
        BY <1>4, <1>5, <1>8, ConcatProperties
    <2>3. (\A i \in 1 .. l : bytes[i] = b[i]) /\ \A i \in 1 .. Len(c) : bytes[i + l] = c[i]
        <3>1. l \in Nat /\ Len(c) \in Nat
            BY <1>3, <1>6
        <3>2. ASSUME NEW i \in 1 .. l PROVE bytes[i] = b[i]
            BY <2>1, <3>1
        <3>3. ASSUME NEW i \in 1 .. Len(c) PROVE bytes[i + l] = c[i]
            <4>1. i + l \in 1 .. l + Len(c) /\ ~(i + l <= l) /\ (i + l) - l = i
                BY <3>1
            <4> QED BY <2>1, <4>1
        <3> QED BY <3>2, <3>3
    <2>4. (\A i \in 1 .. n : tokens[i] = s[i]) /\ \A i \in 1 .. m : tokens[i + n] = t[i]
        <3>1. n \in Nat /\ m \in Nat
            BY <1>3, <1>4, <1>5
        <3>2. ASSUME NEW i \in 1 .. n PROVE tokens[i] = s[i]
            BY <2>2, <3>1
        <3>3. ASSUME NEW i \in 1 .. m PROVE tokens[i + n] = t[i]
            <4>1. i + n \in 1 .. n + m /\ ~(i + n <= n) /\ (i + n) - n = i
                BY <3>1
            <4> QED BY <2>2, <4>1
        <3> QED BY <3>2, <3>3
    <2> QED BY <2>1, <2>2, <2>3, <2>4
<1>10. /\ \A k \in 0 .. n : at[k] \in 0 .. l
       /\ \A k \in 0 .. m : on[k] \in 0 .. Len(c)
       /\ at[0] = 0 /\ at[n] = l /\ on[0] = 0 /\ on[m] = Len(c)
       /\ \A k \in 1 .. n : Gives(b, at[k - 1], at[k], s[k])
       /\ \A k \in 1 .. m : Gives(c, on[k - 1], on[k], t[k])
    BY <1>1, <1>2, <1>4, <1>5, <1>6 DEF Cuts
<1>11. PICK cut : cut = [k \in 0 .. n + m |-> IF k <= n THEN at[k] ELSE on[k - n] + l]
    OBVIOUS
<1>12. /\ \A k \in 0 .. n : cut[k] = at[k]
       /\ \A k \in 0 .. m : cut[k + n] = on[k] + l
    <2>1. n \in Nat /\ m \in Nat /\ l \in Nat
        BY <1>3, <1>4, <1>5, <1>6
    <2>2. \A k \in 0 .. n + m : cut[k] = IF k <= n THEN at[k] ELSE on[k - n] + l
        BY <1>11
    <2>3. \A k \in 0 .. n : k \in 0 .. n + m /\ k <= n
        BY <2>1
    <2>4. ASSUME NEW k \in 0 .. m PROVE cut[k + n] = on[k] + l
        <3>1. k + n \in 0 .. n + m /\ (k + n) - n = k
            BY <2>1
        <3>2. CASE k = 0
            BY <1>10, <2>1, <2>2, <2>3, <3>2
        <3>3. CASE k # 0
            BY <2>1, <2>2, <3>1, <3>3
        <3> QED BY <3>2, <3>3
    <2> QED BY <2>2, <2>3, <2>4
<1>13. cut \in [0 .. n + m -> 0 .. Len(bytes)]
    <2>1. n \in Nat /\ m \in Nat /\ l \in Nat /\ Len(bytes) = l + Len(c)
        BY <1>3, <1>4, <1>5, <1>6, <1>9
    <2>2. \A k \in 0 .. n + m : (k <= n => k \in 0 .. n) /\ (~(k <= n) => k - n \in 0 .. m)
        BY <2>1
    <2>3. \A k \in 0 .. n : at[k] \in 0 .. Len(bytes)
        BY <1>3, <1>10, <2>1
    <2>4. ASSUME NEW k \in 0 .. m PROVE on[k] + l \in 0 .. Len(bytes)
        <3>1. on[k] \in 0 .. Len(c)
            BY <1>10
        <3> QED BY <1>3, <2>1, <3>1
    <2> QED BY <1>11, <2>2, <2>3, <2>4
<1>14. cut[0] = 0 /\ cut[n + m] = Len(bytes)
    <2>1. 0 \in 0 .. n /\ m \in 0 .. m /\ m + n = n + m
        BY <1>3, <1>4, <1>5
    <2>2. cut[0] = at[0] /\ cut[m + n] = on[m] + l
        BY <1>12, <2>1
    <2>3. on[m] + l = Len(bytes)
        BY <1>3, <1>6, <1>9, <1>10
    <2> QED BY <1>10, <2>1, <2>2, <2>3
<1>15. ASSUME NEW k \in 1 .. n PROVE Gives(bytes, cut[k - 1], cut[k], tokens[k])
    <2>1. PICK u : u = at[k - 1]
        OBVIOUS
    <2>2. PICK v : v = at[k]
        OBVIOUS
    <2>3. u \in 0 .. l /\ v \in 0 .. l /\ cut[k - 1] = u /\ cut[k] = v
        BY <1>3, <1>4, <1>10, <1>12, <2>1, <2>2
    <2>4. Gives(b, u, v, s[k])
        BY <1>10, <2>1, <2>2
    <2>5. \A i \in u + 1 .. v : bytes[i + 0] = b[i]
        BY <1>3, <1>6, <1>9, <2>3
    <2>6. ~(v = Len(b) /\ b[v] = "esc")
        <3>1. v # 0
            BY <1>3, <1>6, <2>3, <2>4 DEF Gives
        <3>2. Len(<<>>) = 0
            BY EmptySeq
        <3> QED BY <3>1, <3>2
    <2>7. u \in Int /\ v \in Int /\ 0 \in Int
        BY <1>3, <1>6, <2>3
    <2>8. Gives(bytes, u + 0, v + 0, s[k])
        BY <2>4, <2>5, <2>6, <2>7, GivesAt
    <2> QED BY <1>9, <2>3, <2>7, <2>8
<1>16. ASSUME NEW k \in 1 .. m PROVE Gives(bytes, cut[(k + n) - 1], cut[k + n], tokens[k + n])
    <2>1. PICK u : u = on[k - 1]
        OBVIOUS
    <2>2. PICK v : v = on[k]
        OBVIOUS
    <2>3. k - 1 \in 0 .. m /\ k \in 0 .. m /\ (k + n) - 1 = (k - 1) + n
        BY <1>3, <1>4, <1>5
    <2>4. u \in 0 .. Len(c) /\ v \in 0 .. Len(c) /\ cut[(k + n) - 1] = u + l /\ cut[k + n] = v + l
        BY <1>10, <1>12, <2>1, <2>2, <2>3
    <2>5. Gives(c, u, v, t[k])
        BY <1>10, <2>1, <2>2
    <2>6. \A i \in u + 1 .. v : bytes[i + l] = c[i]
        BY <1>3, <1>9, <2>4
    <2>7. v = Len(c) => v + l = Len(bytes)
        BY <1>3, <1>6, <1>9
    <2>8. u \in Int /\ v \in Int /\ l \in Int
        BY <1>3, <1>6, <2>4
    <2>9. Gives(bytes, u + l, v + l, t[k])
        BY <2>5, <2>6, <2>7, <2>8, GivesAt
    <2> QED BY <1>9, <2>4, <2>9
<1>17. ASSUME NEW k \in 1 .. n + m PROVE Gives(bytes, cut[k - 1], cut[k], tokens[k])
    <2>1. CASE k \in 1 .. n
        BY <1>15, <2>1
    <2>2. CASE ~(k \in 1 .. n)
        <3>1. k - n \in 1 .. m /\ k = (k - n) + n
            BY <1>3, <1>4, <1>5, <2>2
        <3> QED BY <1>16, <3>1
    <2> QED BY <2>1, <2>2
<1>18. Cuts(cut, bytes, tokens)
    BY <1>9, <1>13, <1>14, <1>17 DEF Cuts
<1> QED BY <1>7, <1>8, <1>18, CutsDecode

----------------------------------------------------------------------------
(* What has been decoded, and what is still to be. *)

\* The bytes in the reader's hands and in the input queue.
Pending == (IF reader = "esc" THEN <<"esc">> ELSE <<>>) \o input

\* What the keys are to give begins with h; the rest of it is more.
Ahead(h, keys) == \E more \in Seq(Text) : Wanted(keys) = h \o more

\* The rest of it is what these bytes decode to.
Owed(h, bytes, keys) == \E todo \in Seq(Text) : Decodes(bytes, todo) /\ Wanted(keys) = h \o todo

\* As long as the typing was calm, what was queued goes with what is pending.
CalmInv ==
    calm => /\ rest = <<>> /\ Ahead(handled, typed)
            /\ main = "live" => Owed(handled \o queue, Pending, typed)

\* Concatenation, of texts.
Associates(s, t, u) == (s \o t) \o u = s \o (t \o u)

LEMMA Associative == \A s, t, u \in Seq(Text) : Associates(s, t, u)
BY ConcatAssociative DEF Associates

\* A key more leaves what was ahead ahead.
LEMMA AheadMore ==
    ASSUME NEW h \in Seq(Text), NEW keys \in Seq(Keyboard), NEW key \in Keyboard, Ahead(h, keys)
    PROVE  Ahead(h, Append(keys, key))
<1>1. PICK more \in Seq(Text) : Wanted(keys) = h \o more
    BY DEF Ahead
<1>2. key.tokens \in Seq(Text)
    BY KeyboardAssumption
<1>3. Wanted(Append(keys, key)) = h \o (more \o key.tokens)
    <2>1. Wanted(Append(keys, key)) = Wanted(keys) \o key.tokens
        BY WantedAppend
    <2>2. (h \o more) \o key.tokens = h \o (more \o key.tokens)
        BY <1>1, <1>2, Associative DEF Associates
    <2> QED BY <1>1, <2>1, <2>2
<1>4. more \o key.tokens \in Seq(Text)
    BY <1>2, ConcatProperties
<1> QED BY <1>3, <1>4 DEF Ahead

\* A part of what is ahead has been handled.
LEMMA AheadPart ==
    ASSUME NEW h \in Seq(Text), NEW s \in Seq(Text), NEW keys, Ahead(h \o s, keys),
           NEW i \in 1 .. Len(s)
    PROVE  Ahead(h \o SubSeq(s, 1, i), keys)
<1>1. PICK more \in Seq(Text) : Wanted(keys) = (h \o s) \o more
    BY DEF Ahead
<1>2. PICK a : a = SubSeq(s, 1, i)
    OBVIOUS
<1>3. PICK b : b = SubSeq(s, i + 1, Len(s))
    OBVIOUS
<1>4. Len(s) \in Nat /\ \A j \in 1 .. Len(s) : s[j] \in Text
    BY LenProperties, ElementOfSeq
<1>5. a \in Seq(Text) /\ b \in Seq(Text)
    <2>1. \A j \in 1 .. i : s[j] \in Text
        BY <1>4
    <2>2. \A j \in i + 1 .. Len(s) : s[j] \in Text
        BY <1>4
    <2>3. 1 \in Int /\ i \in Int /\ i + 1 \in Int /\ Len(s) \in Int
        BY <1>4
    <2> QED BY <1>2, <1>3, <2>1, <2>2, <2>3, SubSeqProperties
<1>6. s = a \o b
    <2>1. 1 \in 1 .. Len(s) + 1 /\ i \in 1 - 1 .. Len(s) /\ Len(s) \in i .. Len(s)
        BY <1>4
    <2>2. a \o b = SubSeq(s, 1, Len(s))
        BY <1>2, <1>3, <2>1, ConcatAdjacentSubSeq
    <2> QED BY <2>2, SubSeqFull
<1>7. b \o more \in Seq(Text) /\ h \o a \in Seq(Text)
    BY <1>5, ConcatProperties
<1>8. (h \o s) \o more = (h \o a) \o (b \o more)
    <2>1. h \o s = (h \o a) \o b
        <3>1. Associates(h, a, b)
            BY <1>5, Associative
        <3> QED BY <1>6, <3>1 DEF Associates
    <2>2. PICK ha : ha = h \o a
        OBVIOUS
    <2>3. (ha \o b) \o more = ha \o (b \o more)
        <3>1. ha \in Seq(Text) /\ b \in Seq(Text) /\ more \in Seq(Text)
            BY <1>5, <1>7, <2>2
        <3>2. Associates(ha, b, more)
            BY <3>1, Associative
        <3> QED BY <3>2 DEF Associates
    <2> QED BY <2>1, <2>2, <2>3
<1> QED BY <1>1, <1>2, <1>7, <1>8 DEF Ahead

\* What is owed is ahead.
LEMMA OwedIsAhead == \A h, bytes, keys : Owed(h, bytes, keys) => Ahead(h, keys)
BY DEF Owed, Ahead

\* A key is typed when no Esc is open.
LEMMA OwedMore ==
    ASSUME NEW h \in Seq(Text), NEW bytes \in Seq(Text), NEW keys \in Seq(Keyboard), NEW key \in Keyboard,
           Owed(h, bytes, keys), bytes = <<>> \/ bytes[Len(bytes)] # "esc"
    PROVE  Owed(h, bytes \o key.bytes, Append(keys, key))
<1>1. PICK todo \in Seq(Text) : Decodes(bytes, todo) /\ Wanted(keys) = h \o todo
    BY DEF Owed
<1>2. key.tokens \in Seq(Text) /\ key.bytes \in Seq(Text) /\ Decodes(key.bytes, key.tokens)
    BY KeyboardAssumption, DecodesAssumption
<1>3. Decodes(bytes \o key.bytes, todo \o key.tokens)
    BY <1>1, <1>2, DecodeConcat
<1>4. Wanted(Append(keys, key)) = h \o (todo \o key.tokens)
    <2>1. Wanted(Append(keys, key)) = Wanted(keys) \o key.tokens
        BY WantedAppend
    <2>2. (h \o todo) \o key.tokens = h \o (todo \o key.tokens)
        BY <1>1, <1>2, Associative DEF Associates
    <2> QED BY <1>1, <2>1, <2>2
<1>5. todo \o key.tokens \in Seq(Text)
    BY <1>2, ConcatProperties
<1> QED BY <1>3, <1>4, <1>5 DEF Owed

\* A token is decoded.
LEMMA OwedLess ==
    ASSUME NEW h \in Seq(Text), NEW bytes \in Seq(Text), NEW keys, Owed(h, bytes, keys), bytes # <<>>
    PROVE  \E d \in 1 .. Len(bytes) : \E token \in Text :
               /\ Gives(bytes, 0, d, token)
               /\ Owed(Append(h, token), SubSeq(bytes, d + 1, Len(bytes)), keys)
<1>1. PICK todo \in Seq(Text) : Decodes(bytes, todo) /\ Wanted(keys) = h \o todo
    BY DEF Owed
<1>2. PICK d \in 1 .. Len(bytes) :
          /\ Gives(bytes, 0, d, Head(todo))
          /\ Decodes(SubSeq(bytes, d + 1, Len(bytes)), Tail(todo))
    BY <1>1, DecodeFirst
<1>3. todo # <<>>
    BY <1>1, DecodeFirst
<1>4. PICK token : token = Head(todo)
    OBVIOUS
<1>5. PICK others : others = Tail(todo)
    OBVIOUS
<1>6. token \in Text /\ others \in Seq(Text) /\ Len(others) = Len(todo) - 1
      /\ \A i \in 1 .. Len(others) : others[i] = todo[i + 1]
    BY <1>3, <1>4, <1>5, HeadTailProperties
<1>7. Append(h, token) \o others = h \o todo
    <2>1. Append(h, token) = h \o <<token>> /\ <<token>> \in Seq(Text)
        BY <1>6, AppendIsConcat
    <2>2. todo = <<token>> \o others
        <3>1. <<token>> \o others \in Seq(Text) /\ Len(<<token>> \o others) = 1 + Len(others)
              /\ \A i \in 1 .. 1 + Len(others) :
                    (<<token>> \o others)[i] = IF i <= 1 THEN <<token>>[i] ELSE others[i - 1]
            BY <1>6, <2>1, ConcatProperties
        <3>2. Len(todo) \in Nat \ {0} /\ token = todo[1]
            BY <1>3, <1>4, LenProperties, EmptySeq
        <3>3. PICK whole : whole = <<token>> \o others
            OBVIOUS
        <3>4. whole \in Seq(Text) /\ Len(whole) = Len(todo)
            BY <1>6, <3>1, <3>2, <3>3
        <3>5. ASSUME NEW i \in 1 .. Len(todo) PROVE todo[i] = whole[i]
            <4>1. CASE i = 1
                BY <1>6, <3>1, <3>2, <3>3, <4>1
            <4>2. CASE i # 1
                <5>1. i - 1 \in 1 .. Len(others) /\ i \in 1 .. 1 + Len(others) /\ ~(i <= 1)
                    BY <1>6, <3>2, <4>2
                <5> QED BY <1>6, <3>1, <3>3, <5>1
            <4> QED BY <4>1, <4>2
        <3> QED BY <3>3, <3>4, <3>5, SeqEqual
    <2>3. (h \o <<token>>) \o others = h \o (<<token>> \o others)
        BY <1>6, <2>1, Associative DEF Associates
    <2> QED BY <2>1, <2>2, <2>3
<1>8. Owed(Append(h, token), SubSeq(bytes, d + 1, Len(bytes)), keys)
    BY <1>1, <1>2, <1>5, <1>6, <1>7 DEF Owed
<1> QED BY <1>2, <1>4, <1>6, <1>8

\* Nothing is typed yet.
LEMMA InitCalmInv == Init => CalmInv
<1> SUFFICES ASSUME Init PROVE CalmInv
    OBVIOUS
<1>1. Wanted(<<>>) = <<>> /\ <<>> \in Seq(Text)
    BY WantedNone, EmptySeq
<1>2. <<>> \o <<>> = <<>>
    BY <1>1, ConcatEmptySeq
<1>3. Pending = <<>> /\ handled \o queue = <<>>
    BY <1>2 DEF Init, Pending
<1>4. Decodes(<<>>, <<>>)
    <2>1. Cuts([k \in 0 .. 0 |-> 0], <<>>, <<>>)
        BY DEF Cuts
    <2> QED BY <2>1, CutsDecode
<1>5. Ahead(<<>>, <<>>) /\ Owed(<<>>, <<>>, <<>>)
    BY <1>1, <1>2, <1>4 DEF Ahead, Owed
<1> QED BY <1>3, <1>5 DEF Init, CalmInv

\* What is pending is bytes.
LEMMA PendingType == TypeOK => Pending \in Seq(Text)
<1> SUFFICES ASSUME TypeOK PROVE Pending \in Seq(Text)
    OBVIOUS
<1>1. <<"esc">> \in Seq(Text) /\ <<>> \in Seq(Text) /\ input \in Seq(Text)
    <2>1. "esc" \in Text
        BY TextAssumption
    <2> QED BY <2>1 DEF TypeOK
<1>2. (IF reader = "esc" THEN <<"esc">> ELSE <<>>) \in Seq(Text)
    BY <1>1
<1> QED BY <1>1, <1>2, ConcatProperties DEF Pending

\* A key that is not torn joins what is pending, behind no open Esc.
LEMMA PressCalmInv ==
    ASSUME TypeOK, CalmInv, NEW key \in Keyboard, NEW n \in 1 .. Len(key.bytes), Press(key, n)
    PROVE  CalmInv'
<1> SUFFICES ASSUME calm'
             PROVE  /\ rest' = <<>> /\ Ahead(handled', typed')
                    /\ main' = "live" => Owed(handled' \o queue', Pending', typed')
    BY DEF CalmInv
<1>1. /\ calm /\ n = Len(key.bytes) /\ ~EscOpen
      /\ typed' = Append(typed, key) /\ UNCHANGED <<handled, queue, reader, main>>
      /\ input' = input \o SubSeq(key.bytes, 1, n)
      /\ rest' = SubSeq(key.bytes, n + 1, Len(key.bytes))
    BY DEF Press, readerVars
<1>2. key.bytes \in Seq(Text) /\ Len(key.bytes) \in Nat
    BY KeyboardAssumption, LenProperties
<1>3. rest' = <<>> /\ input' = input \o key.bytes
    BY <1>1, <1>2, SubSeqFull, SubSeqEmpty
<1>4. typed \in Seq(Keyboard) /\ handled \in Seq(Text) /\ queue \in Seq(Text) /\ input \in Seq(Text)
    BY DEF TypeOK
<1>5. Ahead(handled', typed')
    BY <1>1, <1>4, AheadMore DEF CalmInv
<1>6. ASSUME main' = "live" PROVE Owed(handled' \o queue', Pending', typed')
    <2>1. PICK h : h = handled \o queue
        OBVIOUS
    <2>2. PICK bytes : bytes = Pending
        OBVIOUS
    <2>3. h \in Seq(Text) /\ bytes \in Seq(Text) /\ Owed(h, bytes, typed)
        BY <1>1, <1>4, <1>6, <2>1, <2>2, ConcatProperties, PendingType DEF CalmInv
    <2>4. PICK esc : esc = IF reader = "esc" THEN <<"esc">> ELSE <<>>
        OBVIOUS
    <2>5. esc \in Seq(Text) /\ bytes = esc \o input
        <3>1. "esc" \in Text
            BY TextAssumption
        <3> QED BY <2>2, <2>4, <3>1 DEF Pending
    <2>6. bytes = <<>> \/ bytes[Len(bytes)] # "esc"
        <3>1. CASE input = <<>>
            <4>1. reader # "esc"
                BY <1>1, <3>1 DEF EscOpen
            <4> QED BY <2>4, <2>5, <3>1, <4>1, ConcatEmptySeq
        <3>2. CASE input # <<>>
            <4>1. input[Len(input)] # "esc"
                BY <1>1, <3>2 DEF EscOpen, Last
            <4>2. Len(input) \in Nat \ {0} /\ Len(esc) \in Nat
                BY <1>4, <2>5, <3>2, LenProperties, EmptySeq
            <4>3. /\ Len(bytes) = Len(esc) + Len(input)
                  /\ \A i \in 1 .. Len(esc) + Len(input) :
                        bytes[i] = IF i <= Len(esc) THEN esc[i] ELSE input[i - Len(esc)]
                BY <1>4, <2>5, ConcatProperties
            <4>4. bytes[Len(bytes)] = input[Len(input)]
                <5>1. Len(bytes) \in 1 .. Len(esc) + Len(input) /\ ~(Len(bytes) <= Len(esc))
                      /\ Len(bytes) - Len(esc) = Len(input)
                    BY <4>2, <4>3
                <5> QED BY <4>3, <5>1
            <4> QED BY <4>1, <4>4
        <3> QED BY <3>1, <3>2
    <2>7. Owed(h, bytes \o key.bytes, Append(typed, key))
        BY <1>4, <2>3, <2>6, OwedMore
    <2>8. Pending' = bytes \o key.bytes
        <3>1. Pending' = esc \o (input \o key.bytes)
            BY <1>1, <1>3, <2>4 DEF Pending
        <3> QED BY <1>2, <1>4, <2>5, <3>1, Associative DEF Associates
    <2> QED BY <1>1, <2>1, <2>7, <2>8
<1> QED BY <1>3, <1>5, <1>6

\* What is pending begins with the d bytes that give token, and with no others.
Gives1(d, token) ==
    /\ Pending # <<>>
    /\ \A e \in 1 .. Len(Pending) : \A u \in Text : Gives(Pending, 0, e, u) => e = d /\ u = token

\* The reader queues the token of the first of what is pending.
TakesFirst(d, token) ==
    /\ UNCHANGED <<userVars, main, handled>>
    /\ queue' = Append(queue, token) /\ Gives1(d, token)
    /\ Pending' = SubSeq(Pending, d + 1, Len(Pending))

\* It is the token that was owed next.
LEMMA TakenCalmInv ==
    ASSUME TypeOK, CalmInv, NEW d, NEW token, TakesFirst(d, token)
    PROVE  CalmInv'
<1>0. PICK bytes : bytes = Pending
    OBVIOUS
<1>1. /\ calm' = calm /\ rest' = rest /\ typed' = typed /\ handled' = handled /\ main' = main
      /\ queue' = Append(queue, token) /\ Pending' = SubSeq(bytes, d + 1, Len(bytes))
      /\ bytes # <<>>
      /\ \A e \in 1 .. Len(bytes) : \A u \in Text : Gives(bytes, 0, e, u) => e = d /\ u = token
    BY <1>0 DEF userVars, TakesFirst, Gives1
<1>2. ASSUME calm, main = "live" PROVE Owed(handled \o queue', Pending', typed)
    <2>1. handled \in Seq(Text) /\ queue \in Seq(Text) /\ bytes \in Seq(Text)
        BY <1>0, PendingType DEF TypeOK
    <2>2. PICK h : h = handled \o queue
        OBVIOUS
    <2>3. h \in Seq(Text) /\ Owed(h, bytes, typed)
        BY <1>0, <1>2, <2>1, <2>2, ConcatProperties DEF CalmInv
    <2>4. PICK e \in 1 .. Len(bytes), u \in Text :
              Gives(bytes, 0, e, u) /\ Owed(Append(h, u), SubSeq(bytes, e + 1, Len(bytes)), typed)
        BY <1>1, <2>1, <2>3, OwedLess
    <2>5. e = d /\ u = token
        BY <1>1, <2>4
    <2>6. handled \o Append(queue, u) = Append(h, u)
        <3>1. Append(queue, u) = queue \o <<u>> /\ Append(h, u) = h \o <<u>> /\ <<u>> \in Seq(Text)
            BY <2>1, <2>3, AppendIsConcat
        <3>2. (handled \o queue) \o <<u>> = handled \o (queue \o <<u>>)
            BY <2>1, <3>1, Associative DEF Associates
        <3> QED BY <2>2, <3>1, <3>2
    <2> QED BY <1>1, <2>4, <2>5, <2>6
<1> QED BY <1>1, <1>2 DEF CalmInv

\* The reader passes bytes on, or decodes the first of them.
LEMMA ReaderCalmInv == TypeOK /\ CalmInv /\ Reader => CalmInv'
<1> SUFFICES ASSUME TypeOK, CalmInv, Reader PROVE CalmInv'
    OBVIOUS
<1>1. UNCHANGED <<userVars, main, handled>>
    BY DEF Reader, CheckStop, Nothing, ReadKey, EscAlone, EscRest
<1>2. ASSUME queue' = queue, Pending' = Pending PROVE CalmInv'
    <2>1. calm' = calm /\ rest' = rest /\ typed' = typed /\ handled' = handled /\ main' = main
        BY <1>1 DEF userVars
    <2>2. Owed(handled' \o queue', Pending', typed') <=> Owed(handled \o queue, Pending, typed)
        BY <1>2, <2>1
    <2> QED BY <2>1, <2>2 DEF CalmInv
<1>3. input \in Seq(Text) /\ queue \in Seq(Text) /\ Len(input) \in Nat
    BY LenProperties DEF TypeOK
<1>4. \A s \in Seq(Text) : <<>> \o s = s
    BY ConcatEmptySeq
<1>5. CASE CheckStop \/ Nothing
    <2>1. reader # "esc" /\ reader' # "esc" /\ UNCHANGED <<input, queue>>
        BY <1>5 DEF CheckStop, Nothing
    <2> QED BY <1>2, <2>1 DEF Pending
<1>6. CASE ReadKey /\ Head(input) = "esc"
    <2>1. /\ reader # "esc" /\ reader' = "esc" /\ queue' = queue /\ input' = Tail(input)
          /\ input # <<>>
        BY <1>6 DEF ReadKey
    <2>2. Pending = <<>> \o input /\ Pending' = <<"esc">> \o Tail(input)
        BY <2>1 DEF Pending
    <2>3. input = <<Head(input)>> \o Tail(input)
        BY <1>3, <2>1, HeadAndTail
    <2> QED BY <1>2, <1>3, <1>4, <1>6, <2>1, <2>2, <2>3
<1>7. CASE ReadKey /\ Head(input) # "esc"
    <2>1. /\ reader # "esc" /\ reader' # "esc" /\ input' = Tail(input) /\ input # <<>>
          /\ queue' = Append(queue, Classify(Head(input)))
        BY <1>7 DEF ReadKey
    <2>2. Tail(input) \in Seq(Text) /\ Tail(input) = SubSeq(input, 2, Len(input))
        BY <1>3, <2>1, HeadTailProperties, TailIsSubSeq
    <2>3. Pending = input /\ Pending' = SubSeq(input, 1 + 1, Len(input))
        BY <1>3, <1>4, <2>1, <2>2 DEF Pending
    <2>4. PICK bytes : bytes = input
        OBVIOUS
    <2>5. bytes = Pending /\ bytes # <<>> /\ Pending' = SubSeq(bytes, 1 + 1, Len(bytes))
        BY <2>1, <2>3, <2>4
    <2>6. PICK token : token = Classify(Head(input))
        OBVIOUS
    <2>7. ASSUME NEW e \in 1 .. Len(bytes), NEW u \in Text, Gives(bytes, 0, e, u)
          PROVE  e = 1 /\ u = token
        <3>1. bytes[1] = Head(input) /\ bytes[1] # "esc" /\ 0 + 1 = 1
            BY <1>3, <1>7, <2>1, <2>4
        <3> QED BY <2>6, <2>7, <3>1 DEF Gives
    <2>8. TakesFirst(1, token)
        BY <1>1, <2>1, <2>5, <2>6, <2>7 DEF TakesFirst, Gives1
    <2> QED BY <2>8, TakenCalmInv
<1>8. CASE EscAlone
    <2>1. /\ reader = "esc" /\ input = <<>> /\ reader' # "esc" /\ input' = <<>>
          /\ queue' = Append(queue, "esc")
        BY <1>8 DEF EscAlone
    <2>2. Pending = <<"esc">> /\ Pending' = <<>>
        BY <2>1 DEF Pending
    <2>3. PICK bytes : bytes = <<"esc">>
        OBVIOUS
    <2>4. Len(bytes) = 1 /\ bytes[1] = "esc" /\ bytes # <<>> /\ SubSeq(bytes, 1 + 1, Len(bytes)) = <<>>
        BY <2>3, SubSeqEmpty
    <2>5. ASSUME NEW e \in 1 .. Len(bytes), NEW u \in Text, Gives(bytes, 0, e, u)
          PROVE  e = 1 /\ u = "esc"
        BY <2>4, <2>5 DEF Gives
    <2>6. TakesFirst(1, "esc")
        BY <1>1, <2>1, <2>2, <2>3, <2>4, <2>5 DEF TakesFirst, Gives1
    <2> QED BY <2>6, TakenCalmInv
<1>9. CASE EscRest
    <2>1. PICK n : n = IF Len(input) < 2 THEN 1 ELSE 2
        OBVIOUS
    <2>2. /\ reader = "esc" /\ input # <<>> /\ reader' # "esc"
          /\ queue' = Append(queue, Arrow(SubSeq(input, 1, n)))
          /\ input' = SubSeq(input, n + 1, Len(input))
        BY <1>9, <2>1 DEF EscRest
    <2>3. PICK bytes : bytes = Pending
        OBVIOUS
    <2>4. bytes = <<"esc">> \o input
        BY <2>2, <2>3 DEF Pending
    <2>5. "esc" \in Text /\ <<"esc">> \in Seq(Text) /\ Len(input) # 0
        <3>1. "esc" \in Text
            BY TextAssumption
        <3>2. Len(input) # 0
            BY <1>3, <2>2, EmptySeq
        <3> QED BY <3>1, <3>2
    <2>6. /\ bytes \in Seq(Text) /\ Len(bytes) = 1 + Len(input) /\ bytes[1] = "esc"
          /\ \A i \in 1 .. Len(input) : bytes[i + 1] = input[i]
        <3>1. /\ bytes \in Seq(Text) /\ Len(bytes) = 1 + Len(input)
              /\ \A i \in 1 .. 1 + Len(input) : bytes[i] = IF i <= 1 THEN <<"esc">>[i] ELSE input[i - 1]
            BY <1>3, <2>4, <2>5, ConcatProperties
        <3> QED BY <1>3, <3>1
    <2>7. bytes # <<>>
        BY <1>3, <2>6, EmptySeq
    <2>8. PICK token : token = Arrow(SubSeq(input, 1, n))
        OBVIOUS
    <2>9. ASSUME NEW e \in 1 .. Len(bytes), NEW u \in Text, Gives(bytes, 0, e, u)
          PROVE  e = 3 /\ u = token /\ n = 2 /\ Len(input) >= 2
        <3>1. ~(1 = Len(bytes)) /\ 0 + 1 = 1
            BY <1>3, <2>5, <2>6
        <3>2. e = 3 /\ u = Arrow(<<bytes[1 + 1], bytes[1 + 2]>>)
            BY <2>6, <2>9, <3>1 DEF Gives
        <3>3. Len(input) >= 2 /\ n = 2
            BY <1>3, <2>1, <2>6, <3>2
        <3>4. bytes[1 + 1] = input[1] /\ bytes[1 + 2] = input[2]
            BY <1>3, <2>6, <3>3
        <3>5. SubSeq(input, 1, 2) = <<input[1], input[2]>>
            <4>1. input[1] \in Text /\ input[2] \in Text
                BY <1>3, <3>3, ElementOfSeq
            <4>2. \A i \in 1 .. 2 : input[i] \in Text
                BY <4>1
            <4>3. PICK s : s = SubSeq(input, 1, 2)
                OBVIOUS
            <4>4. s \in Seq(Text) /\ Len(s) = 2 /\ \A i \in 1 .. 2 : s[i] = input[i]
                BY <4>2, <4>3, SubSeqProperties
            <4>5. PICK t : t = <<input[1], input[2]>>
                OBVIOUS
            <4>6. t \in Seq(Text) /\ Len(t) = 2 /\ t[1] = input[1] /\ t[2] = input[2]
                BY <4>1, <4>5
            <4>7. \A i \in 1 .. Len(s) : s[i] = t[i]
                BY <4>4, <4>6
            <4> QED BY <4>3, <4>4, <4>5, <4>6, <4>7, SeqEqual
        <3> QED BY <2>8, <3>2, <3>3, <3>4, <3>5
    <2>10. ASSUME n = 2 PROVE Pending' = SubSeq(bytes, 3 + 1, Len(bytes))
        <3>1. Pending' = SubSeq(input, 3, Len(input))
            <4>1. SubSeq(input, 3, Len(input)) \in Seq(Text)
                BY <1>3
            <4> QED BY <1>4, <2>2, <2>10, <4>1 DEF Pending
        <3>2. SubSeq(input, 3, Len(input)) = SubSeq(bytes, 4, Len(bytes))
            BY <1>3, <2>6
        <3> QED BY <3>1, <3>2
    <2>11. CASE n = 2
        <3>1. TakesFirst(3, token)
            BY <1>1, <2>2, <2>3, <2>7, <2>8, <2>9, <2>10, <2>11 DEF TakesFirst, Gives1
        <3> QED BY <3>1, TakenCalmInv
    <2>12. CASE n # 2
        <3>1. \A e \in 1 .. Len(bytes) : \A u \in Text : ~Gives(bytes, 0, e, u)
            BY <2>9, <2>12
        <3>2. ~Owed(handled \o queue, bytes, typed)
            <4>1. handled \o queue \in Seq(Text)
                BY <1>3, ConcatProperties DEF TypeOK
            <4> QED BY <2>6, <2>7, <3>1, <4>1, OwedLess
        <3>3. ~(calm /\ main = "live")
            BY <2>3, <3>2 DEF CalmInv
        <3> QED BY <1>1, <3>3 DEF CalmInv, userVars
    <2> QED BY <2>11, <2>12
<1> QED BY <1>5, <1>6, <1>7, <1>8, <1>9 DEF Reader

\* What is handled was queued; a 'q' drops what came after it.
LEMMA LoopCalmInv == TypeOK /\ CalmInv /\ (Drain \/ Interrupt \/ Exit) => CalmInv'
<1> SUFFICES ASSUME TypeOK, CalmInv, Drain \/ Interrupt \/ Exit PROVE CalmInv'
    OBVIOUS
<1>1. calm' = calm /\ rest' = rest /\ typed' = typed
    BY DEF Drain, Interrupt, Exit, userVars
<1>2. CASE Interrupt \/ Exit
    <2>1. handled' = handled /\ main' # "live"
        BY <1>2 DEF Interrupt, Exit
    <2> QED BY <1>1, <2>1 DEF CalmInv
<1>3. CASE Drain
    <2>1. main = "live" /\ queue' = <<>> /\ Pending' = Pending
        BY <1>3 DEF Drain, Pending
    <2>2. handled \in Seq(Text) /\ queue \in Seq(Text)
        BY DEF TypeOK
    <2>3. ASSUME calm PROVE /\ Owed(handled \o queue, Pending, typed)
                            /\ Ahead(handled \o queue, typed)
        BY <2>1, <2>3, OwedIsAhead DEF CalmInv
    <2>4. CASE handled' = handled \o queue /\ main' = main
        <3>1. handled \o queue \in Seq(Text)
            BY <2>2, ConcatProperties
        <3>2. handled' \o queue' = handled \o queue
            BY <2>1, <2>4, <3>1, ConcatEmptySeq
        <3> QED BY <1>1, <2>1, <2>3, <2>4, <3>2 DEF CalmInv
    <2>5. CASE \E i \in 1 .. Len(queue) : handled' = handled \o SubSeq(queue, 1, i) /\ main' = "leave"
        <3>1. ASSUME calm PROVE Ahead(handled', typed)
            BY <2>2, <2>3, <2>5, <3>1, AheadPart
        <3> QED BY <1>1, <2>5, <3>1 DEF CalmInv
    <2> QED BY <1>3, <2>4, <2>5 DEF Drain
<1> QED BY <1>2, <1>3

\* Every step keeps it.
LEMMA NextCalmInv == TypeOK /\ CalmInv /\ [Next]_vars => CalmInv'
<1> SUFFICES ASSUME TypeOK, CalmInv, [Next]_vars PROVE CalmInv'
    OBVIOUS
<1>1. CASE Arrive
    BY <1>1 DEF Arrive, CalmInv
<1>2. CASE UNCHANGED vars
    <2>1. Pending' = Pending
        BY <1>2 DEF vars, Pending
    <2> QED BY <1>2, <2>1 DEF vars, CalmInv
<1> QED BY <1>1, <1>2, PressCalmInv, ReaderCalmInv, LoopCalmInv DEF Next

\* Something is ahead of a prefix.
LEMMA AheadPrefix ==
    ASSUME NEW h \in Seq(Text), NEW keys, Ahead(h, keys)
    PROVE  IsPrefix(h, Wanted(keys))
<1>1. PICK more \in Seq(Text) : Wanted(keys) = h \o more
    BY DEF Ahead
<1>2. Len(h) \in Nat /\ Len(more) \in Nat /\ Len(h \o more) = Len(h) + Len(more)
    BY LenProperties, ConcatProperties
<1>3. SubSeq(h, 1, Len(h)) = SubSeq(h \o more, 1, Len(h))
    <2>1. CASE Len(h) = 0
        BY <2>1, SubSeqEmpty
    <2>2. CASE Len(h) # 0
        <3>1. 1 \in 1 .. Len(h) /\ Len(h) \in 1 .. Len(h)
            BY <1>2, <2>2
        <3> QED BY <3>1, SubSeqOfConcat1
    <2> QED BY <2>1, <2>2
<1> QED BY <1>1, <1>2, <1>3 DEF IsPrefix

\* drain() gives the loop the tokens of the keys typed, each key's own, in order
\* and nothing else, in whatever chunks the reader finds their bytes
\* (keyboard.py:54-88), as long as no key was torn or came too soon after an Esc.
THEOREM Decoded == Spec => []DecodedAsTyped
<1>1. TypeOK /\ CalmInv => DecodedAsTyped
    <2> SUFFICES ASSUME TypeOK, CalmInv, calm
                 PROVE  /\ IsPrefix(handled, Wanted(typed))
                        /\ main = "live" => IsPrefix(handled \o queue, Wanted(typed))
        BY DEF DecodedAsTyped
    <2>1. handled \in Seq(Text) /\ handled \o queue \in Seq(Text)
        BY ConcatProperties DEF TypeOK
    <2> QED BY <2>1, AheadPrefix, OwedIsAhead DEF CalmInv
<1> QED BY <1>1, TypeCorrect, InitCalmInv, NextCalmInv, PTL DEF Spec
============================================================================
