------------------------------ MODULE TerminalGrid ------------------------------
(* What the operations of a VT stream do to a screen: grid.rs and terminal.rs. *)
(* Rows and columns count from 1.  A cell is one of a few kinds: which glyph,  *)
(* pen and link it carries makes no difference to where it goes.               *)
EXTENDS Integers, Sequences, FiniteSetsExt

CellKinds == {"blank", "glyph", "marked", "wide", "wide marked", "continuation"}
Smaller(a, b) == IF a <= b THEN a ELSE b
Larger(a, b) == IF a >= b THEN a ELSE b

BlankRow(cols) == [c \in 1 .. cols |-> "blank"]
NewGrid(cols, rows) == [cells |-> [r \in 1 .. rows |-> BlankRow(cols)], dirty |-> 1 .. rows]

NewTerminal(cols, rows) ==
    [cols |-> cols, rows |-> rows, primary |-> NewGrid(cols, rows), alt |-> NewGrid(cols, rows),
     onAlt |-> FALSE, col |-> 1, row |-> 1, saved |-> <<1, 1>>, top |-> 1, bottom |-> rows,
     autowrap |-> TRUE, panicked |-> FALSE]

Grid(t) == IF t.onAlt THEN t.alt ELSE t.primary
WithGrid(t, g) == IF t.onAlt THEN [t EXCEPT !.alt = g] ELSE [t EXCEPT !.primary = g]
MoveTo(t, row, col) == [t EXCEPT !.row = row, !.col = col]

\* csi_dispatch ends with it, whatever the operation.
ClampCursor(t) == MoveTo(t, Smaller(t.row, t.rows), Smaller(t.col, t.cols))

-------------------------------------------------------------------------------
(* grid.rs                                                                     *)

SetCell(t, row, col, kind) ==
    IF row > t.rows \/ col > t.cols THEN t
    ELSE WithGrid(t, [Grid(t) EXCEPT !.cells[row][col] = kind, !.dirty = @ \cup {row}])

\* Rows become what row[r] says and are damaged.
SetRows(t, row) ==
    WithGrid(t, [cells |-> [r \in 1 .. t.rows |-> IF r \in DOMAIN row THEN row[r] ELSE Grid(t).cells[r]],
                 dirty |-> Grid(t).dirty \cup DOMAIN row])

ClearRows(t, rows) == SetRows(t, [r \in rows |-> BlankRow(t.cols)])

ClearRowRange(t, row, from, to) ==
    IF from > Smaller(to, t.cols) THEN t
    ELSE SetRows(t, [r \in {row} |-> [c \in 1 .. t.cols |->
                        IF c \in from .. to THEN "blank" ELSE Grid(t).cells[row][c]]])

\* bottom - count is below zero when everything from the first row on is to go:
\* the subtraction wraps (without overflow checks), rows below the region are
\* copied up, and the copy of the row behind the last one panics.
ScrollUp(t, top, bottom, n) ==
    LET count == Smaller(n, bottom - top + 1)
    IN IF top >= bottom THEN t
       ELSE IF top = 1 /\ count = bottom 
       THEN [SetRows(t, [r \in 1 .. t.rows - bottom |-> Grid(t).cells[r + bottom]]) EXCEPT !.panicked = TRUE]
       ELSE SetRows(t, [r \in top .. bottom |->
                           IF r + count <= bottom THEN Grid(t).cells[r + count] ELSE BlankRow(t.cols)])

ScrollDown(t, top, bottom, n) ==
    LET count == Smaller(n, bottom - top + 1)
    IN IF top >= bottom THEN t
       ELSE SetRows(t, [r \in top .. bottom |->
                           IF r - count >= top THEN Grid(t).cells[r - count] ELSE BlankRow(t.cols)])

ResizeGrid(g, cols, rows) ==
    IF Len(g.cells) = rows /\ Len(g.cells[1]) = cols THEN g
    ELSE [NewGrid(cols, rows) EXCEPT !.cells =
             [r \in 1 .. rows |-> [c \in 1 .. cols |->
                 IF r <= Len(g.cells) /\ c <= Len(g.cells[1]) THEN g.cells[r][c] ELSE "blank"]]]

ClearRowDirty(t, rows) == WithGrid(t, [Grid(t) EXCEPT !.dirty = @ \ rows])

-------------------------------------------------------------------------------
(* terminal.rs                                                                 *)

Resize(t, cols, rows) ==
    [ClampCursor([t EXCEPT !.cols = cols, !.rows = rows, !.top = 1, !.bottom = rows])
        EXCEPT !.primary = ResizeGrid(@, cols, rows), !.alt = ResizeGrid(@, cols, rows)]

LineFeed(t) ==
    IF t.row = t.bottom THEN ScrollUp(t, t.top, t.bottom, 1)
    ELSE MoveTo(t, Smaller(t.row + 1, t.rows), t.col)

ReverseIndex(t) ==
    IF t.row = t.top THEN ScrollDown(t, t.top, t.bottom, 1)
    ELSE MoveTo(t, Larger(t.row - 1, 1), t.col)

CarriageReturn(t) == MoveTo(t, t.row, 1)

\* A mark goes to the glyph before the cursor, past a continuation cell.
Combine(t) ==
    LET before == Larger(t.col - 1, 1)
        col == IF before <= t.cols /\ Grid(t).cells[t.row][before] = "continuation"
               THEN Larger(before - 1, 1) ELSE before
        kind == Grid(t).cells[t.row][col]
    IN IF col > t.cols THEN t
       ELSE SetCell(t, t.row, col, CASE kind = "wide" -> "wide marked"
                                     [] kind \in {"glyph", "blank"} -> "marked"
                                     [] OTHER -> kind)

\* The cursor may stand one or two columns behind the last.
PutChar(t, width) ==
    LET wrapped == IF t.col <= t.cols THEN t
                   ELSE IF t.autowrap THEN LineFeed(CarriageReturn(t)) ELSE MoveTo(t, t.row, t.cols)
        put == SetCell(wrapped, wrapped.row, wrapped.col, IF width = 2 THEN "wide" ELSE "glyph")
        whole == IF width = 2 THEN SetCell(put, put.row, put.col + 1, "continuation") ELSE put
    IN MoveTo(whole, whole.row, whole.col + width)

\* The first screen is as it was drawn last, it seems.
SwitchAltScreenUnmarked(t, enabled, saveCursor) ==
    IF enabled = t.onAlt THEN t
    ELSE IF enabled
    THEN [MoveTo(t, 1, 1) EXCEPT !.alt = NewGrid(t.cols, t.rows), !.onAlt = TRUE,
                                 !.saved = IF saveCursor THEN <<t.row, t.col>> ELSE @]
    ELSE ClampCursor([(IF saveCursor THEN MoveTo(t, t.saved[1], t.saved[2]) ELSE t) EXCEPT !.onAlt = FALSE])

SwitchAltScreen(t, enabled, saveCursor) ==
    IF enabled = t.onAlt THEN t
    ELSE IF enabled
    THEN [MoveTo(t, 1, 1) EXCEPT !.alt = NewGrid(t.cols, t.rows), !.onAlt = TRUE,
                                 !.saved = IF saveCursor THEN <<t.row, t.col>> ELSE @]
    ELSE ClampCursor([(IF saveCursor THEN MoveTo(t, t.saved[1], t.saved[2]) ELSE t)
                         EXCEPT !.onAlt = FALSE, !.primary.dirty = 1 .. t.rows])

\* The characters behind the deleted ones move up; what is cleared counts from
\* the right edge, also when that is left of the cursor.
DeleteChars(t, n) ==
    SetRows(t, [r \in {t.row} |-> [c \in 1 .. t.cols |->
        IF c > t.cols - n THEN "blank"
        ELSE IF c >= t.col THEN Grid(t).cells[r][c + n]
        ELSE Grid(t).cells[r][c]]])

EraseDisplay(t, mode) ==
    CASE mode = 0 -> ClearRows(ClearRowRange(t, t.row, t.col, t.cols), t.row + 1 .. t.rows)
      [] mode = 1 -> ClearRowRange(ClearRows(t, 1 .. t.row - 1), t.row, 1, t.col)
      [] mode = 2 -> ClearRows(t, 1 .. t.rows)

EraseLine(t, mode) ==
    CASE mode = 0 -> ClearRowRange(t, t.row, t.col, t.cols)
      [] mode = 1 -> ClearRowRange(t, t.row, 1, t.col)
      [] mode = 2 -> ClearRows(t, {t.row})

SetScrollRegion(t, top, bottom) ==
    LET b == Smaller(bottom, t.rows)
    IN IF Smaller(top, t.rows) >= b THEN [t EXCEPT !.top = 1, !.bottom = t.rows]
       ELSE [t EXCEPT !.top = top, !.bottom = b]

CursorMoves(t, n) ==
    {MoveTo(t, Larger(t.row - n, 1), t.col), MoveTo(t, t.row + n, t.col),
     MoveTo(t, t.row, t.col + n), MoveTo(t, t.row, Larger(t.col - n, 1)),
     MoveTo(t, t.row + n, 1), MoveTo(t, Larger(t.row - n, 1), 1), MoveTo(t, t.row, n)}

\* n lines or characters from the cursor on, or n lines of the scroll region.
LineMoves(t, n) ==
    {ScrollDown(t, t.row, t.bottom, n), ScrollUp(t, t.row, t.bottom, n), DeleteChars(t, n),
     ScrollUp(t, t.top, t.bottom, n), ScrollDown(t, t.top, t.bottom, n),
     ClearRowRange(t, t.row, t.col, t.col + n - 1)}

Csi(t, counts) ==
    {IF u.panicked THEN u ELSE ClampCursor(u) : u \in
        (UNION {CursorMoves(t, n) \cup LineMoves(t, n) : n \in counts})
        \cup {MoveTo(t, a, b) : a, b \in counts}
        \cup {EraseDisplay(t, mode) : mode \in 0 .. 2} \cup {EraseLine(t, mode) : mode \in 0 .. 2}
        \cup {SetScrollRegion(t, a, b) : a, b \in counts}
        \cup {[t EXCEPT !.autowrap = on] : on \in BOOLEAN}
        \cup {SwitchAltScreen(t, on, save) : on, save \in BOOLEAN}}

Esc(t) ==
    {LineFeed(t), LineFeed(CarriageReturn(t)), ReverseIndex(t), [t EXCEPT !.saved = <<t.row, t.col>>],
     ClampCursor(MoveTo(t, t.saved[1], t.saved[2])), NewTerminal(t.cols, t.rows)}

\* Backspace, tab, line feed, carriage return; tab stops are eight columns apart.
Execute(t) ==
    {MoveTo(t, t.row, Larger(t.col - 1, 1)), LineFeed(t), CarriageReturn(t),
     MoveTo(t, t.row, Smaller(((t.col - 1) \div 8 + 1) * 8 + 1, t.cols))}

\* What a piece of output can make of a terminal.
Written(t, counts) ==
    {PutChar(t, width) : width \in {1, 2}} \cup {Combine(t)} \cup Execute(t) \cup Csi(t, counts) \cup Esc(t)

\* The text of a row as it is shaped: continuation cells draw nothing.
BuildRowRuns(row) == SelectSeq(row, LAMBDA kind : kind # "continuation")

IsGrid(g, cols, rows) ==
    /\ DOMAIN g.cells = 1 .. rows
    /\ \A r \in 1 .. rows : DOMAIN g.cells[r] = 1 .. cols /\ \A c \in 1 .. cols : g.cells[r][c] \in CellKinds
    /\ g.dirty \subseteq 1 .. rows

\* The cursor stands on a row, at most two columns behind the last one (a wide
\* character written to the last column), and the scroll region has rows.
IsTerminal(t) ==
    /\ IsGrid(t.primary, t.cols, t.rows) /\ IsGrid(t.alt, t.cols, t.rows)
    /\ t.row \in 1 .. t.rows /\ t.col \in 1 .. t.cols + 2
    /\ t.top \in 1 .. t.bottom /\ t.bottom \in 1 .. t.rows
    /\ t.onAlt \in BOOLEAN /\ t.autowrap \in BOOLEAN /\ t.panicked \in BOOLEAN
===============================================================================
