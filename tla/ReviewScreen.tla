------------------------------ MODULE ReviewScreen ------------------------------
(***************************************************************************)
(* Moving about in a review (tui/internal/review/reducer.go, ui/review.go):*)
(* the filter, the cursor, the first item of the list, the size of the     *)
(* window and the mode.  The model moves the cursor by items and pages of  *)
(* Height - 4 items; the view wraps a title and a line of values for each  *)
(* item into a pane it sizes by itself and cuts at the window.             *)
(*                                                                         *)
(* A filter text is represented by the items it matches, the text of an    *)
(* item by the rows it takes.  What the decision keys act on is            *)
(* SelectedItem.                                                           *)
(***************************************************************************)
EXTENDS Integers, Sequences, FiniteSetsExt

CONSTANTS
  Items,    \* number of change items
  Heights,  \* bound: window heights
  Widths,   \* bound: window widths
  MaxRows,  \* bound: rows of an item
  Rows      \* wrapContent: rows of an item in the list of a window, at least a title
            \* and a line of values; what inverts the selected one counts when cut

ASSUME ScreenAssumption ==
  /\ Items \in Nat /\ Heights \subseteq Nat /\ Widths \subseteq Nat /\ MaxRows \in Nat
  /\ Rows \in [Widths \cup {80} -> [(1 .. Items) \X BOOLEAN -> 2 .. MaxRows]]

Mode == {"list", "detail", "diff", "help"}

VARIABLES
  running,   \* the program has not been quit
  matched,   \* the items that match State.Filter
  editing,   \* State.EditingFilter
  selected,  \* State.Selected, from 0
  offset,    \* State.Offset, from 0
  width, height, mode,
  strayed    \* history: the filter has changed since the cursor was last moved

vars == <<running, matched, editing, selected, offset, width, height, mode, strayed>>

\* NewState
Init ==
  /\ running = TRUE
  /\ matched = 1 .. Items /\ editing = FALSE
  /\ selected = 0 /\ offset = 0
  /\ width = 80 /\ height = 24 /\ mode = "list"
  /\ strayed = FALSE

-------------------------------------------------------------------------------
\* VisibleItems keeps the order of the proposal: the item at a position from 0.
VisibleItem(position) ==
  CHOOSE item \in matched : Cardinality({other \in matched : other < item}) = position

LastOf(some) == Cardinality(some) - 1

\* SelectedItem, also what renderDetail shows; 0 when nothing is visible.
SelectedItem ==
  IF matched = {} THEN 0 ELSE VisibleItem(Min({selected, LastOf(matched)}))

Page(h) == Max({1, h - 4})

ClampedToAll(position) == Max({0, Min({position, Items - 1})})

ClampedBelow(position) == Max({0, position})

\* Move clamps the cursor to the visible items and then moves the window.
Clamped(position) == Max({0, Min({position, LastOf(matched)})})

Scrolled(position, h) ==
  IF position < offset THEN position
  ELSE IF position >= offset + Page(h) THEN position - Page(h) + 1
  ELSE offset

MoveWithoutScroll(delta, h) ==
  IF matched = {}
    THEN selected' = 0 /\ offset' = 0
    ELSE selected' = Clamped(selected + delta) /\ UNCHANGED offset

Move(delta, h) ==
  IF matched = {}
    THEN selected' = 0 /\ offset' = 0
    ELSE /\ selected' = Clamped(selected + delta)
         /\ offset' = Scrolled(selected', h)

Resize ==
  /\ running
  /\ width' \in Widths /\ height' \in Heights
  /\ Move(0, height')
  /\ strayed' = FALSE
  /\ UNCHANGED <<running, matched, editing, mode>>

PressDown ==
  /\ running /\ ~editing
  /\ Move(1, height)
  /\ strayed' = FALSE
  /\ UNCHANGED <<running, matched, editing, width, height, mode>>

PressUp ==
  /\ running /\ ~editing
  /\ Move(-1, height)
  /\ strayed' = FALSE
  /\ UNCHANGED <<running, matched, editing, width, height, mode>>

PressMode ==
  /\ running /\ ~editing
  /\ mode' \in Mode
  /\ UNCHANGED <<running, matched, editing, selected, offset, width, height, strayed>>

-------------------------------------------------------------------------------
\* "/" starts with an empty filter.
StartFilter ==
  /\ running /\ ~editing
  /\ matched' = 1 .. Items
  /\ editing' = TRUE
  /\ strayed' = TRUE
  /\ UNCHANGED <<running, selected, offset, width, height, mode>>

\* A longer text matches fewer items, a shorter one more.
EditFilter ==
  /\ running /\ editing
  /\ matched' \in {some \in SUBSET (1 .. Items) :
                     some \subseteq matched \/ matched \subseteq some}
  /\ strayed' = TRUE
  /\ UNCHANGED <<running, editing, selected, offset, width, height, mode>>

\* Enter goes to the first item.
AcceptFilter ==
  /\ running /\ editing
  /\ editing' = FALSE
  /\ selected' = 0 /\ offset' = 0
  /\ strayed' = FALSE
  /\ UNCHANGED <<running, matched, width, height, mode>>

LeaveFilterAtTop ==
  /\ running /\ editing
  /\ editing' = FALSE
  /\ selected' = 0 /\ offset' = 0
  /\ UNCHANGED <<running, matched, width, height, mode, strayed>>

\* Escape keeps the filter and the cursor as they are.
LeaveFilter ==
  /\ running /\ editing
  /\ editing' = FALSE
  /\ UNCHANGED <<running, matched, selected, offset, width, height, mode, strayed>>

Quit ==
  /\ running /\ ~editing
  /\ running' = FALSE
  /\ UNCHANGED <<matched, editing, selected, offset, width, height, mode, strayed>>

Next ==
  \/ Resize \/ PressDown \/ PressUp \/ PressMode
  \/ StartFilter \/ EditFilter \/ AcceptFilter \/ LeaveFilter
  \/ Quit

Spec == Init /\ [][Next]_vars

-------------------------------------------------------------------------------
\* render: the rows of the list pane, between its borders.
BodyHeight == Max({6, Max({6, height}) - 6})
ListHeight == IF Max({12, width}) < 72 THEN Max({4, BodyHeight \div 2}) ELSE BodyHeight
ListRows == ListHeight - 2

\* renderList begins at the offset and allows for two rows per item.
First == Min({offset, LastOf(matched)})
Visible == Max({1, ListRows \div 2})

RowsOf(position) == Rows[width][<<VisibleItem(position), position = selected>>]

RowsBefore(position) ==
  {row \in (First .. position - 1) \X (1 .. MaxRows) : row[2] <= RowsOf(row[1])}

\* An item is drawn when its title is above the end of the pane, and of the window:
\* the pane begins on the fifth line.
Drawn ==
  {position \in First .. LastOf(matched) :
     /\ position < First + Visible
     /\ Cardinality(RowsBefore(position)) < Min({ListRows, Max({6, height}) - 4})}

\* The item with the marker, if one is drawn.
Marked == {VisibleItem(position) : position \in Drawn \cap {selected}}

-------------------------------------------------------------------------------
\* What each variable holds.
TypeOK ==
  /\ running \in BOOLEAN /\ editing \in BOOLEAN /\ strayed \in BOOLEAN
  /\ matched \subseteq 1 .. Items
  /\ selected \in 0 .. Max({0, Items - 1}) /\ offset \in 0 .. Max({0, Items - 1})
  /\ width \in Widths \cup {80} /\ height \in Heights \cup {24}
  /\ mode \in Mode

EndOfPage == Min({First + Page(height) - 1, LastOf(matched)})

After == {item \in matched : item > SelectedItem}
Before == {item \in matched : item < SelectedItem}

\* The marked line of the list is the item the decision keys act on and the detail
\* pane describes, through any filter, scrolling and resizing; and unless the
\* filter changed since the last move, that item is drawn and marked wherever the
\* page of Move is drawn to its end (reducer.go:110).  It need not be otherwise: a
\* page is twice what the view allows for, and items that wrap take more.
MarkIsSelection ==
  /\ Marked \subseteq {SelectedItem}
  /\ ~strayed /\ matched # {} /\ EndOfPage \in Drawn => Marked = {SelectedItem}

\* A key moves to the next or the previous visible item, and at the end of the list
\* nowhere: no item is skipped and none hidden by the filter is reached, whatever
\* scrolling, resizing and filtering went before.  Only a cursor that a new filter
\* left behind the end of its list first has to come back.
MoveSkipsNothing ==
  [][/\ PressDown => SelectedItem' =
          IF After = {} THEN SelectedItem ELSE Min(After)
     /\ PressUp =>
          \/ SelectedItem' = IF Before = {} THEN SelectedItem ELSE Max(Before)
          \/ strayed /\ SelectedItem' = SelectedItem]_vars

\* The item decisions act on changes only by a move or by the filter: not by the
\* size of the window, which may hide it, or by looking at details, the diff or
\* the help.
SelectionIsStable ==
  [][Resize \/ PressMode \/ LeaveFilter => SelectedItem' = SelectedItem]_vars
===============================================================================
