------------------------------- MODULE Show -------------------------------
(***************************************************************************)
(* The display state of netproc's UI (src/src/show.c).                     *)
(*                                                                         *)
(* show.c keeps the selection and the scroll position in file globals:     *)
(* sort_by, scroll_x, scroll_y, selected, tot_rows and line_original, the  *)
(* saved attributes of the selected row before it was painted.  Two        *)
(* entries change them, interleaved by the main loop in any order:         *)
(*   - show_process, once per tick: redraws every row of the pad, sets     *)
(*     tot_rows, clamps selected, saves and paints the selected row;       *)
(*   - running_input, on each key: moves the selection or the horizontal   *)
(*     scroll, or changes the sort column.                                 *)
(* Row contents are abstracted to the frame they were drawn in, so a       *)
(* saved line is [row, frame].  view_y is the pad row the body of the      *)
(* screen (rows 1..LINES-1) shows at its top, as the latest refresh of it  *)
(* left it: pnoutrefresh(pad, scroll_y, ...) from pad row scroll_y, the    *)
(* prefresh(pad, 0, ...) of the horizontal scroll from pad row 0, whose    *)
(* row 0 is the header.                                                    *)
(***************************************************************************)
EXTENDS Integers

CONSTANTS
    LINES,         \* terminal height
    COLS,          \* terminal width
    COLS_PAD,      \* pad width
    COLS_TO_SORT,  \* number of sortable columns
    RATE_RX,       \* the default sort column
    MaxRows        \* most rows one show_process draws (model bound)

ASSUME LINES >= 3 /\ COLS_PAD > COLS /\ RATE_RX \in 0..COLS_TO_SORT - 1

VARIABLES
    sort_by, scroll_x, scroll_y, selected, tot_rows, line_original,
    frame,    \* parity of the show_process call that drew the pad rows
    view_y,   \* the pad row shown on the first body row of the screen
    running   \* running_input has not exited

vars == <<sort_by, scroll_x, scroll_y, selected, tot_rows, line_original,
          frame, view_y, running>>

Line == [row : Nat, frame : 0..1]

TypeOK ==
    /\ sort_by \in 0..COLS_TO_SORT - 1
    /\ scroll_x \in 0..COLS_PAD - COLS
    /\ scroll_y \in Nat \ {0}
    /\ selected \in Nat
    /\ tot_rows \in 0..MaxRows
    /\ line_original \in Line
    /\ frame \in 0..1
    /\ view_y \in Nat \ {0}
    /\ running \in BOOLEAN

\* mvwinchnstr(pad, row, 0, line_original, ...): save a row as drawn now
Save(row) == [row |-> row, frame |-> frame]

Init ==
    /\ sort_by = RATE_RX
    /\ scroll_x = 0
    /\ scroll_y = 1
    /\ selected = 1
    /\ tot_rows = 0
    /\ line_original = [row |-> 0, frame |-> 0]
    /\ frame = 0
    /\ view_y = 1
    /\ running = TRUE

(***************************************************************************)
(* show_process: n rows drawn (processes with traffic, their connections   *)
(* and the blank line after them, as counted in tot_rows).                 *)
(***************************************************************************)
\* mutant: selected is not clamped to the new tot_rows
show_process_NoClamp(n) ==
    /\ running
    /\ tot_rows' = n
    /\ frame' = 1 - frame
    /\ IF n > 0
       THEN /\ line_original' = [row |-> selected, frame |-> 1 - frame]
            /\ UNCHANGED selected
       ELSE UNCHANGED <<selected, line_original>>
    /\ view_y' = scroll_y
    /\ UNCHANGED <<sort_by, scroll_x, scroll_y, running>>

show_process(n) ==
    /\ running
    /\ tot_rows' = n
    /\ frame' = 1 - frame
    /\ IF n > 0
       THEN LET sel == IF selected > n THEN n ELSE selected IN
            /\ selected' = sel
            /\ line_original' = [row |-> sel, frame |-> 1 - frame]
       ELSE UNCHANGED <<selected, line_original>>
    /\ view_y' = scroll_y
    /\ UNCHANGED <<sort_by, scroll_x, scroll_y, running>>

(***************************************************************************)
(* running_input: one key.                                                 *)
(***************************************************************************)

\* KEY_RIGHT: scroll 5 columns right, prefresh(pad, 0, scroll_x, 0, 0, ...)
\* shows the pad from row 0
KeyRight ==
    /\ running
    /\ scroll_x + 5 < COLS_PAD - COLS
    /\ scroll_x' = IF scroll_x + 5 <= COLS_PAD - COLS
                   THEN scroll_x + 5 ELSE COLS_PAD - COLS
    /\ view_y' = 1
    /\ UNCHANGED <<sort_by, scroll_y, selected, tot_rows, line_original,
                   frame, running>>

\* KEY_LEFT: scroll 5 columns left, prefresh(pad, 0, scroll_x, 0, 0, ...)
KeyLeft ==
    /\ running
    /\ scroll_x > 0
    /\ scroll_x' = IF scroll_x - 5 >= 0 THEN scroll_x - 5 ELSE 0
    /\ view_y' = 1
    /\ UNCHANGED <<sort_by, scroll_y, selected, tot_rows, line_original,
                   frame, running>>

\* mutant: KEY_DOWN saves the line before moving the selection
KeyDown_SaveBeforeMove ==
    /\ running
    /\ selected + 1 <= tot_rows
    /\ selected' = selected + 1
    /\ scroll_y' = IF selected' >= LINES THEN scroll_y + 1 ELSE scroll_y
    /\ line_original' = Save(selected)
    /\ view_y' = scroll_y'
    /\ UNCHANGED <<sort_by, scroll_x, tot_rows, frame, running>>

\* KEY_DOWN: select the next row, restore the old one, save and paint the
\* new one, pnoutrefresh(pad, scroll_y, ...)
KeyDown ==
    /\ running
    /\ selected + 1 <= tot_rows
    /\ selected' = selected + 1
    /\ scroll_y' = IF selected' >= LINES THEN scroll_y + 1 ELSE scroll_y
    /\ line_original' = Save(selected')
    /\ view_y' = scroll_y'
    /\ UNCHANGED <<sort_by, scroll_x, tot_rows, frame, running>>

\* KEY_UP: select the previous row, restore, save, paint, refresh
KeyUp ==
    /\ running
    /\ selected - 1 >= 1
    /\ selected' = selected - 1
    /\ scroll_y' = IF scroll_y > 1 /\ selected' <= LINES
                   THEN scroll_y - 1 ELSE scroll_y
    /\ line_original' = Save(selected')
    /\ view_y' = scroll_y'
    /\ UNCHANGED <<sort_by, scroll_x, tot_rows, frame, running>>

\* mutant: the sort column wraps one too late
KeySort_OffByOne ==
    /\ running
    /\ sort_by' = IF sort_by + 1 <= COLS_TO_SORT THEN sort_by + 1 ELSE 0
    /\ UNCHANGED <<scroll_x, scroll_y, selected, tot_rows, line_original,
                   frame, view_y, running>>

\* 's' / 'S': next sort column, show_header
KeySort ==
    /\ running
    /\ sort_by' = IF sort_by + 1 < COLS_TO_SORT THEN sort_by + 1 ELSE 0
    /\ UNCHANGED <<scroll_x, scroll_y, selected, tot_rows, line_original,
                   frame, view_y, running>>

\* 'q' / 'Q': exit(EXIT_SUCCESS)
KeyQuit ==
    /\ running
    /\ running' = FALSE
    /\ UNCHANGED <<sort_by, scroll_x, scroll_y, selected, tot_rows,
                   line_original, frame, view_y>>

Next ==
    \/ \E n \in 0..MaxRows : show_process(n)
    \/ KeyRight \/ KeyLeft \/ KeyDown \/ KeyUp \/ KeySort \/ KeyQuit

Spec == Init /\ [][Next]_vars


(***************************************************************************)
(* Properties                                                              *)
(***************************************************************************)

\* While rows are shown, the selection is one of them: show_process clamps
\* it when the list shrinks and KEY_UP/KEY_DOWN stop at the ends.
SelectionInRange == tot_rows > 0 => selected \in 1..tot_rows

\* While rows are shown, line_original holds the selected row as drawn by
\* the latest show_process, so the next KEY_UP/KEY_DOWN restores that row
\* with its own content.
SavedIsSelectedRow == tot_rows > 0 => line_original = Save(selected)

\* While rows are shown, the selected row is on the screen: the body shows
\* pad rows view_y .. view_y + LINES - 2.  KEY_UP and KEY_DOWN move scroll_y
\* one step with the selection and never recompute it, show_process clamps
\* selected but leaves scroll_y, and KEY_LEFT/KEY_RIGHT refresh from pad
\* row 0 whatever scroll_y is.
SelectedVisible == tot_rows > 0 => selected \in view_y .. view_y + LINES - 2

=============================================================================
