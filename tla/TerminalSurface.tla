----------------------------- MODULE TerminalSurface -----------------------------
(* One terminal session of the phone: terminal_jni.rs, terminal_renderer.rs    *)
(* and the surface callbacks of TerminalSurfaceView.kt.  The task of the PTY   *)
(* tunnel writes output to the terminal and draws; every surface that Android  *)
(* creates starts a task of its own, which waits for the GPU.                  *)
EXTENDS TerminalGrid, HostState

CONSTANTS Widths, Heights, CellSize,    \* pixels of a surface, of a cell
          Counts, MaxTerminalSteps, MaxSurfaces,
          Hasty                         \* a surface may go while its task still opens it

ASSUME TerminalSurfaceAssumption ==
    /\ Widths \cup Heights \subseteq Nat \ {0} /\ CellSize \in Nat \ {0} /\ Counts \subseteq Nat \ {0}
    /\ MaxTerminalSteps \in Nat /\ MaxSurfaces \in Nat /\ Hasty \in BOOLEAN
    /\ None \notin Nat \cup (Nat \X Nat)

VARIABLES
    terminal,
    renderer,       \* its surface, configured size, deferred size, row cache
    pendingSize,    \* a size that came before the renderer did
    reader,         \* the task of the PTY tunnel
    ptyOpen,        \* pty_tx is there
    input,          \* messages in the channel of pty_tx
    live, size,     \* Android's surface and its size
    opening,        \* what the task of each surface does
    terminalSteps

openings == <<live, size, opening>>
terminalVars == <<terminal, renderer, pendingSize, reader, ptyOpen, input, openings, terminalSteps>>

Surfaces == 1 .. MaxSurfaces
Pixels == Widths \X Heights
CellsForSize(px) == <<Larger(px[1] \div CellSize, 1), Larger(px[2] \div CellSize, 1)>>

NoRenderer == [on |-> FALSE]
Renderer(formatFits) ==
    [on |-> TRUE, surface |-> None, config |-> None, pending |-> None, rows |-> <<>>, formatFits |-> formatFits]

TerminalInit ==
    /\ terminal = NewTerminal(2, 2)
    /\ renderer = NoRenderer /\ pendingSize = None
    /\ reader = "none" /\ ptyOpen = FALSE /\ input = 0
    /\ live = None /\ size = None
    /\ opening = [s \in Surfaces |-> "idle"]
    /\ terminalSteps = 0

TerminalStep == terminalSteps < MaxTerminalSteps /\ terminalSteps' = terminalSteps + 1
Opens == \E s \in Surfaces : opening[s] \notin {"idle", "done"}

-------------------------------------------------------------------------------
(* Renderer                                                                    *)

NoRuns == <<>>

\* A row that is not in the cache yet brings the ones before it along, empty.
CachedRows(rows, t) ==
    [r \in 1 .. IF Grid(t).dirty = {} THEN Smaller(Len(rows), t.rows)
                ELSE Smaller(Larger(Len(rows), Max(Grid(t).dirty)), t.rows)
        |-> IF r \in Grid(t).dirty THEN BuildRowRuns(Grid(t).cells[r])
            ELSE IF r <= Len(rows) THEN rows[r] ELSE NoRuns]

Draw(r, t) ==
    IF ~r.on THEN renderer' = r /\ terminal' = t
    ELSE /\ renderer' = [r EXCEPT !.rows = CachedRows(@, t)]
         /\ terminal' = ClearRowDirty(t, Grid(t).dirty)

ResizeRenderer(r, px) ==
    IF r.surface = None THEN [r EXCEPT !.pending = px]
    ELSE [r EXCEPT !.config = px, !.rows = <<>>]

\* A surface starts as one pixel; the size that was deferred is applied to it.
SetSurfaceOf(r, s) ==
    LET bare == [r EXCEPT !.surface = s, !.config = <<1, 1>>, !.formatFits = TRUE, !.pending = None,
                          !.rows = IF r.formatFits THEN @ ELSE <<>>]
    IN IF r.pending = None THEN bare ELSE ResizeRenderer(bare, r.pending)

ResizeTerminal(px) == Resize(terminal, CellsForSize(px)[1], CellsForSize(px)[2])

-------------------------------------------------------------------------------
(* Surface callbacks                                                           *)

SurfaceCreated ==
    /\ TerminalStep
    /\ live = None
    /\ Hasty \/ ~Opens
    /\ \E s \in Surfaces :
        /\ opening[s] = "idle" /\ \A o \in 1 .. s - 1 : opening[o] # "idle"
        /\ live' = s /\ opening' = [opening EXCEPT ![s] = "started"]
    /\ UNCHANGED <<terminal, renderer, pendingSize, reader, ptyOpen, input, size>>

\* The size is lost when the renderer is not there yet.
SurfaceChangedEarlyIsLost ==
    /\ TerminalStep
    /\ live # None
    /\ \E px \in Pixels :
        /\ size' = px
        /\ IF renderer.on THEN Draw(ResizeRenderer(renderer, px), ResizeTerminal(px))
           ELSE UNCHANGED <<renderer, terminal>>
    /\ UNCHANGED <<pendingSize, reader, ptyOpen, input, live, opening>>

SurfaceChanged ==
    /\ TerminalStep
    /\ live # None
    /\ \E px \in Pixels :
        /\ size' = px
        /\ IF renderer.on
           THEN pendingSize' = None /\ Draw(ResizeRenderer(renderer, px), ResizeTerminal(px))
           ELSE pendingSize' = px /\ UNCHANGED <<renderer, terminal>>
    /\ UNCHANGED <<reader, ptyOpen, input, live, opening>>

SurfaceDestroyed ==
    /\ TerminalStep
    /\ live # None
    /\ Hasty \/ ~Opens
    /\ live' = None /\ size' = None
    /\ renderer' = IF renderer.on THEN [renderer EXCEPT !.surface = None, !.config = None] ELSE renderer
    /\ UNCHANGED <<terminal, pendingSize, reader, ptyOpen, input, opening>>

\* Whether a renderer is needed is asked first, and answered again by nobody
\* when the GPU is ready.
NeedsInit(s) ==
    /\ opening[s] = "started"
    /\ opening' = [opening EXCEPT ![s] = IF renderer.on THEN "ready" ELSE "waits"]
    /\ UNCHANGED <<terminal, renderer, pendingSize, reader, ptyOpen, input, live, size, terminalSteps>>

InitRenderer(s) ==
    /\ opening[s] = "waits"
    /\ \/ /\ \E fits \in BOOLEAN : renderer' = Renderer(fits)
          /\ opening' = [opening EXCEPT ![s] = "ready"]
       \/ /\ opening' = [opening EXCEPT ![s] = "done"]
          /\ UNCHANGED renderer
    /\ UNCHANGED <<terminal, pendingSize, reader, ptyOpen, input, live, size, terminalSteps>>

\* The surface is set whether or not Android still has it.
SetSurface(s) ==
    /\ opening[s] = "ready"
    /\ opening' = [opening EXCEPT ![s] = "opened"]
    /\ pendingSize' = None
    /\ LET r == SetSurfaceOf(renderer, s)
       IN IF pendingSize = None THEN renderer' = r /\ UNCHANGED terminal
          ELSE renderer' = ResizeRenderer(r, pendingSize) /\ terminal' = ResizeTerminal(pendingSize)
    /\ UNCHANGED <<reader, ptyOpen, input, live, size, terminalSteps>>

Redraw(s) ==
    /\ opening[s] = "opened"
    /\ opening' = [opening EXCEPT ![s] = "done"]
    /\ Draw(renderer, terminal)
    /\ UNCHANGED <<pendingSize, reader, ptyOpen, input, live, size, terminalSteps>>

-------------------------------------------------------------------------------
(* The PTY tunnel                                                              *)

AttachPty ==
    /\ TerminalStep
    /\ reader = "none"
    /\ \/ reader' = "reads" /\ ptyOpen' = TRUE
       \/ UNCHANGED <<reader, ptyOpen>>
    /\ UNCHANGED <<terminal, renderer, pendingSize, input, openings>>

\* A panic ends the task; the lock it poisons is taken all the same, and the
\* channel's sender stays.
WriteOutput ==
    /\ TerminalStep
    /\ reader = "reads"
    /\ \E t \in Written(terminal, Counts) :
        /\ terminal' = [t EXCEPT !.panicked = FALSE]
        /\ reader' = IF t.panicked THEN "panicked" ELSE "draws"
        /\ input' = IF t.panicked THEN 0 ELSE input
    /\ UNCHANGED <<renderer, pendingSize, ptyOpen, openings>>

RedrawOutput ==
    /\ reader = "draws"
    /\ reader' = "reads"
    /\ Draw(renderer, terminal)
    /\ UNCHANGED <<pendingSize, ptyOpen, input, openings, terminalSteps>>

PtyEnds ==
    /\ reader = "reads"
    /\ reader' = "ended" /\ ptyOpen' = FALSE /\ input' = 0
    /\ UNCHANGED <<terminal, renderer, pendingSize, openings, terminalSteps>>

\* Keys, text, pastes and mouse reports go into the channel, if it has a reader.
SendInput ==
    /\ TerminalStep
    /\ input' = IF ptyOpen /\ reader # "panicked" THEN input + 1 ELSE input
    /\ UNCHANGED <<terminal, renderer, pendingSize, reader, ptyOpen, openings>>

WriteInput ==
    /\ reader = "reads" /\ input > 0
    /\ input' = input - 1
    /\ UNCHANGED <<terminal, renderer, pendingSize, reader, ptyOpen, openings, terminalSteps>>

OpenSurface(s) == NeedsInit(s) \/ InitRenderer(s) \/ SetSurface(s) \/ Redraw(s)

TerminalNext ==
    \/ SurfaceCreated \/ SurfaceChanged \/ SurfaceDestroyed
    \/ \E s \in Surfaces : OpenSurface(s)
    \/ AttachPty \/ WriteOutput \/ RedrawOutput \/ PtyEnds \/ SendInput \/ WriteInput

TerminalSpec == TerminalInit /\ [][TerminalNext]_terminalVars
-------------------------------------------------------------------------------
\* The screens fit their size, the cursor and the scroll region the screens, and
\* the renderer has cached no more rows than there are.
TerminalTypeOK ==
    /\ IsTerminal(terminal)
    /\ renderer.on => /\ renderer.surface \in Surfaces \cup {None}
                      /\ renderer.surface = None <=> renderer.config = None
                      /\ renderer.pending \in Pixels \cup {None}
                      /\ Len(renderer.rows) <= terminal.rows
    /\ pendingSize \in Pixels \cup {None}
    /\ reader \in {"none", "reads", "draws", "ended", "panicked"}
    /\ ptyOpen <=> reader \in {"reads", "draws", "panicked"}
    /\ input \in 0 .. MaxTerminalSteps /\ terminalSteps \in 0 .. MaxTerminalSteps
    /\ live \in Surfaces \cup {None} /\ size \in Pixels \cup {None}
    /\ \A s \in Surfaces : opening[s] \in {"idle", "started", "waits", "ready", "opened", "done"}

\* The rows the renderer has cached are those of the screen, except for the ones
\* marked as damaged: scrolling, resizing, clearing and switching to the
\* alternate screen and back never leave an old row that looks current.
CachedRowsAreCurrent ==
    renderer.on =>
        \A r \in 1 .. Smaller(Len(renderer.rows), terminal.rows) :
            \/ r \in Grid(terminal).dirty
            \/ renderer.rows[r] \in {NoRuns, BuildRowRuns(Grid(terminal).cells[r])}

\* When no surface is being opened, the one on the screen has the size Android
\* gave it last, and the terminal the cells that fit in, whether that size came
\* before or after the renderer.
SizeReachesSurface ==
    live # None /\ size # None /\ renderer.on /\ ~Opens =>
        /\ renderer.surface = live /\ renderer.config = size
        /\ <<terminal.cols, terminal.rows>> = CellsForSize(size)

===============================================================================
