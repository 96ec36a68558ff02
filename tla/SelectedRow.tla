---------------------------- MODULE SelectedRow ----------------------------
(***************************************************************************)
(* What the user of a live list is promised: one item is highlighted, the *)
(* user moves the highlight along the rows that are on the screen, and    *)
(* however the list is replaced under it, the highlight stays with its    *)
(* item, or goes to the top when that is gone.  There is no worker here,  *)
(* no snapshot, no ranking and no freezing: the list is any list.         *)
(***************************************************************************)
EXTENDS Naturals, Sequences

CONSTANTS
    Items,      \* what may be in a row
    NoItem      \* nothing is highlighted

VARIABLES
    rows,       \* the items listed, from the top
    at,         \* the highlighted item
    turn        \* whose turn it is: "user", "screen", or "over"

vars == <<turn, at, rows>>

\* A list has no item twice.
Lists == {r \in Seq(Items) : \A i, j \in DOMAIN r : r[i] = r[j] => i = j}

Listed(item) == \E i \in DOMAIN rows : rows[i] = item

Init == rows = <<>> /\ at = NoItem /\ turn = "user"

\* To a neighbour; with no highlight in the list, to one of the first two rows.
Move ==
    /\ turn = "user" /\ UNCHANGED <<turn, rows>>
    /\ \E j \in DOMAIN rows :
          /\ at' = rows[j]
          /\ \/ \E i \in DOMAIN rows : rows[i] = at /\ (j = i + 1 \/ i = j + 1)
             \/ ~Listed(at) /\ j <= 2

\* Another order, which may show other items: the highlight is not touched yet.
Reorder ==
    /\ turn = "user" /\ UNCHANGED <<turn, at>>
    /\ rows' \in Lists

\* The list is replaced by the newest, and the highlight put right.
Replace ==
    /\ turn = "user" /\ turn' = "screen"
    /\ rows' \in Lists
    /\ \/ Listed(at)' /\ at' = at
       \/ /\ \A i \in DOMAIN rows' : rows'[i] # at
          /\ at' = IF rows' = <<>> THEN NoItem ELSE Head(rows')

Draw ==
    /\ turn = "screen" /\ turn' = "user"
    /\ UNCHANGED <<at, rows>>

Leave ==
    /\ turn = "user" /\ turn' = "over"
    /\ UNCHANGED <<at, rows>>

Next == Reorder \/ Move \/ Replace \/ Draw \/ Leave

Spec == Init /\ [][Next]_vars
=============================================================================
