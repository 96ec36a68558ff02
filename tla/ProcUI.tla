------------------------------- MODULE ProcUI -------------------------------
(***************************************************************************)
(* The live per-process screen: the worker thread turns thread frames     *)
(* into snapshots and publishes each in shared["snap"]; the main thread   *)
(* handles keys, takes the published snapshot over unless frozen, puts    *)
(* the selection right and renders.  The sort key is shared: the main     *)
(* thread changes it while the worker is in the middle of a frame.        *)
(*                                                                        *)
(* Metrics are numbered by their place in SORT_KEYS, and a frame gives    *)
(* each of its processes the values of all of them.  state.sort_key and   *)
(* mon.sort_key are always assigned together: one variable.               *)
(***************************************************************************)
EXTENDS Integers, FiniteSets, Sequences

CONSTANTS
    Pids,       \* process ids, numbers
    NKeys,      \* Len(SORT_KEYS)
    Frames,     \* frames perf may deliver: functions from pids to metrics
    NoPid,      \* selected_pid is None
    NoSnap,     \* no snapshot yet
    TopN,       \* --top
    HISTORY,    \* points of a trend
    MaxFrames   \* bound: frames delivered

Keys == 0 .. NKeys - 1

ASSUME PidsAssumption == Pids \subseteq Nat /\ NoPid \notin Pids
ASSUME KeysAssumption == NKeys \in Nat \ {0}
ASSUME FramesAssumption ==
    \A f \in Frames : /\ DOMAIN f \subseteq Pids /\ IsFiniteSet(DOMAIN f)
                      /\ f \in [DOMAIN f -> [Keys -> Nat]]
ASSUME NoSnapAssumption ==
    NoSnap \notin [val : Frames, place : UNION {[DOMAIN f -> Nat] : f \in Frames}]
ASSUME BoundsAssumption == TopN \in Nat \ {0} /\ HISTORY \in Nat \ {0} /\ MaxFrames \in Nat

VARIABLES
    sortKey,    \* state.sort_key and mon.sort_key
    view,       \* state.view
    selected,   \* state.selected_pid
    frozen,     \* state.frozen
    displayed,  \* the snapshot on display
    main,       \* main thread: "keys", "render", "done"
    screen,     \* what was rendered last: snapshot and sort key
    shared,     \* shared["snap"]
    worker,     \* worker thread: "perf", "derive", "sort"
    frame,      \* the frame being aggregated
    todo,       \* its processes still to derive or to rank
    ranked,     \* the values the sort has read
    hist,       \* _mpki_hist, each point with the metric it is of
    nframes     \* frames delivered, at most MaxFrames

state == <<sortKey, view, selected, frozen>>
mainVars == <<state, displayed, main, screen>>
workerVars == <<shared, worker, frame, todo, ranked, hist, nframes>>
vars == <<mainVars, workerVars>>

NoFrame == [p \in {} |-> 0]

Init ==
    /\ sortKey \in Keys /\ view = "list" /\ selected = NoPid /\ frozen = FALSE
    /\ displayed = NoSnap /\ main = "keys" /\ screen = [snap |-> NoSnap, key |-> sortKey]
    /\ shared = NoSnap /\ worker = "perf" /\ frame = NoFrame
    /\ todo = {} /\ ranked = NoFrame
    /\ hist = [p \in Pids |-> <<>>] /\ nframes = 0

----------------------------------------------------------------------------
(* The rows of a snapshot.  A snapshot has the metrics of its processes and *)
(* the place of each in snap.procs.                                         *)

\* sorted() with reverse=True is stable.
Above(snap, key, p, q) ==
    \/ snap.val[p][key] > snap.val[q][key]
    \/ snap.val[p][key] = snap.val[q][key] /\ snap.place[p] < snap.place[q]

\* p's row, from 1, when all are shown.
Row(snap, key, p) ==
    1 + Cardinality({q \in DOMAIN snap.val : Above(snap, key, q, p)})

\* _displayed_pids: sorted_procs(snap, sort_key)[: top_n]
Displayed(snap, key) ==
    IF snap = NoSnap THEN {}
    ELSE {p \in DOMAIN snap.val : Row(snap, key, p) <= TopN}

First(snap, key) ==
    IF Displayed(snap, key) = {} THEN NoPid
    ELSE CHOOSE p \in Displayed(snap, key) : Row(snap, key, p) = 1

----------------------------------------------------------------------------
(* Keys: _handle_key, on the snapshot on display. *)

\* Mutant of Pointed: the newest snapshot, not the one the user sees.
PointedNewest == shared

\* The snapshot a key is about.
Pointed == displayed

Clamped(n, last) == IF n < 1 THEN 1 ELSE IF n > last THEN last ELSE n

\* UP, k, DOWN, j: from the selected row, or the first if it is not there.
Move(step) ==
    /\ main = "keys"
    /\ LET rows == Displayed(Pointed, sortKey)
           cur == IF selected \in rows THEN Row(Pointed, sortKey, selected) ELSE 1
           new == Clamped(cur + step, Cardinality(rows))
       IN  selected' = IF rows = {} THEN selected
                       ELSE CHOOSE p \in rows : Row(Pointed, sortKey, p) = new
    /\ UNCHANGED <<sortKey, view, frozen, displayed, main, screen, workerVars>>

\* ENTER, RIGHT, l
DrillIn ==
    /\ main = "keys" /\ view' = "detail"
    /\ selected' = IF selected = NoPid THEN First(Pointed, sortKey) ELSE selected
    /\ UNCHANGED <<sortKey, frozen, displayed, main, screen, workerVars>>

\* ESC, BACK, LEFT, h
GoBack ==
    /\ main = "keys" /\ view' = "list"
    /\ UNCHANGED <<sortKey, selected, frozen, displayed, main, screen, workerVars>>

\* Mutant of Cycled: no wrap.
CycledPast(i) == i

\* SORT_KEYS[i % len(SORT_KEYS)]
Cycled(i) == i % NKeys

\* s, S
CycleSort(step) ==
    /\ main = "keys" /\ sortKey' = Cycled(sortKey + step)
    /\ UNCHANGED <<view, selected, frozen, displayed, main, screen, workerVars>>

\* f
ToggleFreeze ==
    /\ main = "keys" /\ frozen' = ~frozen
    /\ UNCHANGED <<sortKey, view, selected, displayed, main, screen, workerVars>>

\* q.  The refresh and the render that still follow are in LiveSession.
Quit ==
    /\ main = "keys" /\ main' = "done"
    /\ UNCHANGED <<state, displayed, screen, workerVars>>

----------------------------------------------------------------------------
(* The render loop. *)

\* Mutants of Reselected: the row is kept, not the process; nothing is done.
ReselectedByRow(snap) ==
    IF selected \in Displayed(displayed, sortKey) /\ Displayed(snap, sortKey) # {}
    THEN CHOOSE p \in Displayed(snap, sortKey) :
            Row(snap, sortKey, p) = Clamped(Row(displayed, sortKey, selected),
                                            Cardinality(Displayed(snap, sortKey)))
    ELSE First(snap, sortKey)
ReselectedNever(snap) == selected

\* The selection stays with its process while that is displayed.
Reselected(snap) ==
    IF selected \in Displayed(snap, sortKey) THEN selected ELSE First(snap, sortKey)

\* The keys are drained: the published snapshot, and a selection within it.
Refresh ==
    /\ main = "keys" /\ main' = "render"
    /\ displayed' = IF frozen THEN displayed ELSE shared
    /\ selected' = IF displayed' = NoSnap THEN selected ELSE Reselected(displayed')
    /\ UNCHANGED <<sortKey, view, frozen, screen, workerVars>>

\* live.update(..., refresh=True) and the sleep.
Render ==
    /\ main = "render" /\ main' = "keys"
    /\ screen' = [snap |-> displayed, key |-> sortKey]
    /\ UNCHANGED <<state, displayed, workerVars>>

----------------------------------------------------------------------------
(* The worker: _aggregate and the publication of its snapshot. *)

NextTodo == CHOOSE p \in todo : \A q \in todo : p <= q

FrameArrives ==
    /\ worker = "perf" /\ nframes < MaxFrames /\ nframes' = nframes + 1
    /\ \E f \in Frames : frame' = f /\ todo' = DOMAIN f
    /\ worker' = "derive"
    /\ UNCHANGED <<mainVars, shared, ranked, hist>>

\* deque(maxlen=HISTORY).append
Pushed(q, e) ==
    LET longer == Append(q, e)
    IN  IF Len(longer) > HISTORY THEN Tail(longer) ELSE longer

\* _derive: a point of the trend, of the metric that is the sort key now.
Derive ==
    /\ worker = "derive" /\ todo # {}
    /\ hist' = [hist EXCEPT ![NextTodo] = Pushed(@, [key |-> sortKey, value |-> frame[NextTodo][sortKey]])]
    /\ todo' = todo \ {NextTodo}
    /\ UNCHANGED <<mainVars, shared, worker, frame, ranked, nframes>>

StartSort ==
    /\ worker = "derive" /\ todo = {}
    /\ worker' = "sort" /\ todo' = DOMAIN frame /\ ranked' = NoFrame
    /\ UNCHANGED <<mainVars, shared, frame, hist, nframes>>

\* metrics.sort asks for the sort key once for each process.
SortRank ==
    /\ worker = "sort" /\ todo # {}
    /\ ranked' = [p \in DOMAIN ranked \cup {NextTodo} |->
                     IF p = NextTodo THEN frame[p][sortKey] ELSE ranked[p]]
    /\ todo' = todo \ {NextTodo}
    /\ UNCHANGED <<mainVars, shared, worker, frame, hist, nframes>>

\* The place of p in snap.procs.
Place(p) ==
    1 + Cardinality({q \in DOMAIN ranked :
                        ranked[q] > ranked[p] \/ (ranked[q] = ranked[p] /\ q < p)})

\* shared["snap"] = snap
Publish ==
    /\ worker = "sort" /\ todo = {}
    /\ shared' = [val |-> frame, place |-> [p \in DOMAIN frame |-> Place(p)]]
    /\ worker' = "perf" /\ frame' = NoFrame /\ ranked' = NoFrame
    /\ UNCHANGED <<mainVars, todo, hist, nframes>>

Key ==
    \/ \E step \in {-1, 1} : Move(step)
    \/ DrillIn
    \/ GoBack
    \/ \E step \in {-1, 1} : CycleSort(step)
    \/ ToggleFreeze
    \/ Quit

Next ==
    \/ Key
    \/ Refresh
    \/ Render
    \/ FrameArrives
    \/ Derive
    \/ StartSort
    \/ SortRank
    \/ Publish

Spec == Init /\ [][Next]_vars

----------------------------------------------------------------------------
(* Properties. *)

IsSnap(s) ==
    /\ s.val \in Frames
    /\ DOMAIN s.place = DOMAIN s.val
    /\ \A p \in DOMAIN s.val : s.place[p] \in 1 .. Cardinality(DOMAIN s.val)
    /\ \A p, q \in DOMAIN s.val : p # q => s.place[p] # s.place[q]

\* Types; a snapshot has every process of its frame at a place of its own,
\* although the sort may have read one key for some and another for the rest.
TypeOK ==
    /\ sortKey \in Keys /\ view \in {"list", "detail"}
    /\ selected \in Pids \cup {NoPid} /\ frozen \in BOOLEAN
    /\ main \in {"keys", "render", "done"}
    /\ \A s \in {shared, displayed, screen.snap} : s = NoSnap \/ IsSnap(s)
    /\ screen.key \in Keys
    /\ worker \in {"perf", "derive", "sort"}
    /\ frame \in Frames \cup {NoFrame} /\ todo \subseteq DOMAIN frame
    /\ DOMAIN ranked \subseteq DOMAIN frame
    /\ \A p \in DOMAIN ranked : ranked[p] \in Nat
    /\ hist \in [Pids -> Seq([key : Keys, value : Nat])]
    /\ \A p \in Pids : Len(hist[p]) <= HISTORY
    /\ nframes \in 0 .. MaxFrames

\* Whatever is rendered has exactly one row highlighted, and the detail panel
\* is about that process: the selection is one of the rows, whenever the sort
\* key, the set of processes or --top have just taken it away.
SelectionOnScreen ==
    main = "render" /\ displayed # NoSnap =>
        \/ selected \in Displayed(displayed, sortKey)
        \/ selected = NoPid /\ Displayed(displayed, sortKey) = {}

\* README.md:236: "The selected process is highlighted".  Between two keys the
\* selection stays with its process, wherever its row goes, until the process
\* is no longer among the rows.
SelectionFollowsProcess ==
    [][ main = "keys" /\ main' = "render" /\ selected' # selected =>
            selected \notin Displayed(displayed', sortKey) ]_vars

\* A key moves the selection to the next row of what the user sees: whatever
\* the worker has published meanwhile, and frozen or not (README.md:231,
\* "selection still navigable").
MovesOnScreen ==
    [][ /\ main = "keys" /\ main' = "keys" /\ selected' # selected
        /\ screen.snap # NoSnap /\ screen.key = sortKey
        => /\ selected' \in Displayed(screen.snap, screen.key)
           /\ selected \in Displayed(screen.snap, screen.key) =>
                Row(screen.snap, screen.key, selected')
                    - Row(screen.snap, screen.key, selected) \in {-1, 1} ]_vars

\* The displayed pids as the list they are.
Rows(snap, key) ==
    LET pids == Displayed(snap, key)
    IN  [i \in 1 .. Cardinality(pids) |-> CHOOSE p \in pids : Row(snap, key, p) = i]

\* The rows a key is about: those on the screen, in the order of the sort key;
\* while the next screen is made, those it will have.
Listing == Rows(IF main = "render" THEN displayed ELSE screen.snap, sortKey)

Turn == CASE main = "keys" -> "user" [] main = "render" -> "screen" [] OTHER -> "over"

\* The screen as its user has it: a highlight on a list.
List == INSTANCE SelectedRow
        WITH Items <- Pids, NoItem <- NoPid, rows <- Listing, at <- selected, turn <- Turn

\* The two threads implement the highlight on a list: whatever the worker is at,
\* and whatever it has published, a key moves the highlight by a row of what is
\* on the screen, a refresh leaves it with its process or puts it on the first
\* row, and nothing else moves it.
ListSpec == List!Spec

\* procmon.py:304: "sparkline history of the sort metric": the trend drawn
\* next to a process is of the metric in the header.
TrendIsSortMetric ==
    main = "render" /\ displayed # NoSnap =>
        \A p \in Displayed(displayed, sortKey) :
            \A i \in 1 .. Len(hist[p]) : hist[p][i].key = sortKey
============================================================================
