----------------------------- MODULE KeyReader -----------------------------
(***************************************************************************)
(* Keys: what a terminal sends for a key, the reader thread that turns    *)
(* bytes into tokens, and the render loop that drains them.  Esc is a key *)
(* of its own and the first byte of the keys that send several, so the    *)
(* reader waits 60 ms for the rest and takes what is there by then, two   *)
(* bytes at most.                                                         *)
(*                                                                        *)
(* Time is abstract: a timeout may expire whenever nothing has arrived.   *)
(***************************************************************************)
EXTENDS Naturals, Sequences, SequencesExt

CONSTANTS
    Text,       \* bytes and tokens
    Keyboard,   \* a record per key: the bytes it sends, the tokens it is to give
    MaxKeys     \* bound: keys typed

ASSUME TextAssumption ==
    {"esc", "enter", "back", "up", "down", "left", "right", ""} \subseteq Text
ASSUME KeyboardAssumption ==
    \A key \in Keyboard : key.bytes \in Seq(Text) \ {<<>>} /\ key.tokens \in Seq(Text)
ASSUME MaxKeysAssumption == MaxKeys \in Nat

VARIABLES
    typed,      \* history: the keys typed
    rest,       \* bytes of the last of them that are still under way
    input,      \* the terminal's input queue
    reader,     \* "check", "select", "esc" (an Esc was read) or "done"
    stop,       \* KeyReader._stop
    queue,      \* KeyReader._q
    main,       \* "live", "leave" (on the way out) or "left"
    handled,    \* history: the tokens _handle_key was called with
    calm,       \* history: no key was torn, none came too soon after an Esc
    late        \* history: the bytes read once stop was set

readerVars == <<reader, queue, late>>
userVars == <<typed, rest, calm>>
vars == <<typed, rest, input, reader, stop, queue, main, handled, calm, late>>

Init ==
    /\ typed = <<>> /\ rest = <<>> /\ input = <<>>
    /\ reader = "check" /\ stop = FALSE /\ queue = <<>>
    /\ main = "live" /\ handled = <<>>
    /\ calm = TRUE /\ late = 0

----------------------------------------------------------------------------
(* The user and the line. *)

\* The reader could still take an Esc and what comes now for one key.
EscOpen == IF input = <<>> THEN reader = "esc" ELSE Last(input) = "esc"

\* A key is pressed.  Its bytes mostly arrive together; a slow line tears them.
Press(key, n) ==
    /\ Len(typed) < MaxKeys /\ rest = <<>>
    /\ typed' = Append(typed, key)
    /\ input' = input \o SubSeq(key.bytes, 1, n)
    /\ rest' = SubSeq(key.bytes, n + 1, Len(key.bytes))
    /\ calm' = (calm /\ n = Len(key.bytes) /\ ~EscOpen)
    /\ UNCHANGED <<readerVars, stop, main, handled>>

Arrive ==
    /\ rest # <<>>
    /\ input' = input \o rest /\ rest' = <<>>
    /\ UNCHANGED <<typed, calm, readerVars, stop, main, handled>>

----------------------------------------------------------------------------
(* The reader thread: KeyReader._run and _classify. *)

\* The token of a key that is one byte; a byte of a longer character decodes to
\* no text.
Classify(b) ==
    CASE b \in {"cr", "lf"}  -> "enter"
      [] b \in {"del", "bs"} -> "back"
      [] b = "utf8"          -> ""
      [] OTHER               -> b

\* _ARROWS.get(seq, ESC)
Arrow(seq) ==
    CASE seq \in {<<"[", "A">>, <<"O", "A">>} -> "up"
      [] seq \in {<<"[", "B">>, <<"O", "B">>} -> "down"
      [] seq \in {<<"[", "C">>, <<"O", "C">>} -> "right"
      [] seq \in {<<"[", "D">>, <<"O", "D">>} -> "left"
      [] OTHER                                -> "esc"

\* The bytes after `from`, up to `to`, are a single byte, Esc and the two bytes
\* after it, or an Esc at the end, and give this token.
Gives(bytes, from, to, token) ==
    LET first == from + 1 IN
    \/ to = first /\ bytes[first] # "esc" /\ token = Classify(bytes[first])
    \/ /\ to = first + 2 /\ bytes[first] = "esc"
       /\ token = Arrow(<<bytes[first + 1], bytes[first + 2]>>)
    \/ to = first /\ to = Len(bytes) /\ bytes[first] = "esc" /\ token = "esc"

\* at[k] is how many bytes the first k tokens take.
Decodes(bytes, tokens) ==
    \E at \in [0 .. Len(tokens) -> 0 .. Len(bytes)] :
        /\ at[0] = 0 /\ at[Len(tokens)] = Len(bytes)
        /\ \A k \in 1 .. Len(tokens) : Gives(bytes, at[k - 1], at[k], tokens[k])

\* The tokens a key is to give are those of its bytes, taken alone.
ASSUME DecodesAssumption == \A key \in Keyboard : Decodes(key.bytes, key.tokens)

\* Mutant of CheckStop: `while True`.
CheckStopNever ==
    /\ reader = "check" /\ reader' = "select"
    /\ UNCHANGED <<userVars, input, stop, queue, main, handled, late>>

\* `while not self._stop.is_set()`
CheckStop ==
    /\ reader = "check"
    /\ reader' = IF stop THEN "done" ELSE "select"
    /\ UNCHANGED <<userVars, input, stop, queue, main, handled, late>>

\* select() expires after 0.1 s.
Nothing ==
    /\ reader = "select" /\ input = <<>>
    /\ reader' = "check"
    /\ UNCHANGED <<userVars, input, stop, queue, main, handled, late>>

\* One byte; an Esc is not queued yet.
ReadKey ==
    /\ reader = "select" /\ input # <<>>
    /\ input' = Tail(input)
    /\ late' = IF stop THEN late + 1 ELSE late
    /\ \/ Head(input) = "esc" /\ reader' = "esc" /\ queue' = queue
       \/ Head(input) # "esc" /\ reader' = "check"
          /\ queue' = Append(queue, Classify(Head(input)))
    /\ UNCHANGED <<userVars, stop, main, handled>>

\* Mutant of EscAlone: the rest of the sequence is waited for without a timeout.
EscAloneNever == FALSE

\* Nothing came within 60 ms: the Esc key.
EscAlone ==
    /\ reader = "esc" /\ input = <<>>
    /\ reader' = "check" /\ queue' = Append(queue, "esc")
    /\ UNCHANGED <<userVars, input, stop, main, handled, late>>

\* Mutant of EscRest: _ARROWS.get(seq), which is None for an unknown sequence.
EscRestNoDefault ==
    /\ reader = "esc" /\ input # <<>>
    /\ LET n == IF Len(input) < 2 THEN 1 ELSE 2
           token == Arrow(SubSeq(input, 1, n))
       IN  /\ queue' = Append(queue, IF token = "esc" THEN "none" ELSE token)
           /\ input' = SubSeq(input, n + 1, Len(input))
           /\ late' = IF stop THEN late + n ELSE late
    /\ reader' = "check"
    /\ UNCHANGED <<userVars, stop, main, handled>>

\* Mutant of EscRest: os.read(fd, 3), in which the next key may begin.
EscRestThree ==
    /\ reader = "esc" /\ input # <<>>
    /\ LET n == IF Len(input) < 3 THEN Len(input) ELSE 3 IN
          /\ queue' = Append(queue, Arrow(SubSeq(input, 1, n)))
          /\ input' = SubSeq(input, n + 1, Len(input))
          /\ late' = IF stop THEN late + n ELSE late
    /\ reader' = "check"
    /\ UNCHANGED <<userVars, stop, main, handled>>

\* Two bytes, or the one that is there, are the rest of a sequence, whatever
\* they are.
EscRest ==
    /\ reader = "esc" /\ input # <<>>
    /\ LET n == IF Len(input) < 2 THEN 1 ELSE 2 IN
          /\ queue' = Append(queue, Arrow(SubSeq(input, 1, n)))
          /\ input' = SubSeq(input, n + 1, Len(input))
          /\ late' = IF stop THEN late + n ELSE late
    /\ reader' = "check"
    /\ UNCHANGED <<userVars, stop, main, handled>>

Reader == CheckStop \/ Nothing \/ ReadKey \/ EscAlone \/ EscRest

----------------------------------------------------------------------------
(* The render loop. *)

\* drain() empties the queue; a 'q' ends the loop over what it returned, and
\* what came after it is dropped.
Drain ==
    /\ main = "live"
    /\ \/ ~Contains(queue, "q") /\ handled' = handled \o queue /\ main' = main
       \/ \E i \in 1 .. Len(queue) :
             /\ queue[i] = "q" /\ ~Contains(SubSeq(queue, 1, i - 1), "q")
             /\ handled' = handled \o SubSeq(queue, 1, i)
             /\ main' = "leave"
    /\ queue' = <<>>
    /\ UNCHANGED <<userVars, input, reader, stop, late>>

\* Ctrl-C ends the loop as well.
Interrupt ==
    /\ main = "live" /\ main' = "leave"
    /\ UNCHANGED <<userVars, input, readerVars, stop, handled>>

\* KeyReader.__exit__, once Live is through.
Exit ==
    /\ main = "leave" /\ main' = "left"
    /\ stop' = TRUE
    /\ UNCHANGED <<userVars, input, readerVars, handled>>

Next ==
    \/ \E key \in Keyboard : \E n \in 1 .. Len(key.bytes) : Press(key, n)
    \/ Arrive
    \/ Reader
    \/ Drain \/ Interrupt \/ Exit

\* The reader is a thread of its own, and the loop comes round every 80 ms.
Spec == Init /\ [][Next]_vars /\ WF_vars(Reader) /\ WF_vars(Drain) /\ WF_vars(Exit)

----------------------------------------------------------------------------
(* Properties. *)

\* What the keys typed are to give, in order.
Wanted(keys) == FlattenSeq([i \in 1 .. Len(keys) |-> keys[i].tokens])

\* The values the reader's and the loop's state take.
TypeOK ==
    /\ typed \in Seq(Keyboard) /\ Len(typed) <= MaxKeys
    /\ rest \in Seq(Text) /\ input \in Seq(Text)
    /\ reader \in {"check", "select", "esc", "done"}
    /\ stop \in BOOLEAN /\ queue \in Seq(Text)
    /\ main \in {"live", "leave", "left"}
    /\ handled \in Seq(Text)
    /\ calm \in BOOLEAN /\ late \in Nat

\* As long as nobody types on within 60 ms of an Esc and the line does not tear
\* a key, the loop is given the keys that were typed: each arrow key is one
\* token, however the bytes of several keys run together in the input queue, and
\* nothing is lost, doubled or out of order.
DecodedAsTyped ==
    calm => /\ IsPrefix(handled, Wanted(typed))
            /\ main = "live" => IsPrefix(handled \o queue, Wanted(typed))

\* What is typed after the exit is the shell's: KeyReader.__exit__ does not wait
\* for its thread, which may still take a byte, or an Esc and the two after it,
\* but then sees the flag.
LittleTakenLate == late <= 3

\* A key typed is handled: an Esc too, for which nothing more may ever arrive,
\* and 'q' ends the loop.
KeyObeyed ==
    \A n \in 1 .. MaxKeys :
        Len(typed) = n ~> \/ main # "live" \/ ~calm
                          \/ Len(typed) > n
                          \/ handled = Wanted(typed)
============================================================================
