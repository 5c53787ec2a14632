-------------------------------- MODULE Console --------------------------------
(***************************************************************************)
(* The framebuffer console of src/impl/kernel/core/main.c (kprint,         *)
(* fb_putc, fb_puts, fb_backspace, fb_cursor_show, fb_cursor_hide,         *)
(* fb_flush) under the line editor of src/init/init.c.                     *)
(*                                                                         *)
(* The screen is counted in character cells.  Drawing a glyph sets pixels  *)
(* and clears none, so a cell is the set of the glyphs drawn on it since   *)
(* it was last cleared, and whether it was inverted to show the cursor.    *)
(* Each fb_ call is one step; the lock keys print from the keyboard        *)
(* handler between any two (inside one is not modelled).                   *)
(*                                                                         *)
(* The height need not be a whole number of cells: 1080 lines are 49 rows  *)
(* of 22 and 2 lines.  Text goes on in that spare row, and the first       *)
(* scroll, still by 22 lines, puts the pen on the last 22 of the screen:   *)
(* from then on rows are counted from the bottom and the spare lines, at   *)
(* the top, are out of reach.  Columns include a spare one, which no text  *)
(* reaches; where there is one, a backspace over a wrap leaves the pen     *)
(* between two columns, and such a screen is modelled up to there.         *)
(***************************************************************************)
EXTENDS Integers, Sequences, SequencesExt

CONSTANTS
  Cols, Rows,   \* columns, whole rows of cells
  BufSize,      \* BUF_SIZE (128)
  Typed,        \* characters a key may give, besides Enter and Backspace
  Prompt,       \* "init> "
  Outputs,      \* what commands print: sequences of characters
  LockText,     \* what a lock key prints ("CAPS ON\n")
  LogText,      \* what kprintf prints for a command
  StrokeCap,    \* bound: keys pressed
  NoiseCap      \* bound: lock messages and log lines

Blank == [ink |-> {}, inverted |-> FALSE]

NL == "\n"

\* The screen holds more than a column.  What a command, a lock key or the
\* kernel prints ends its line; the prompt and the keys of a line do not.
EndsLine(text) == Len(text) > 0 /\ text[Len(text)] = NL

ASSUME ConsoleAssumption ==
  /\ Cols \in Nat /\ Cols >= 2 /\ Rows \in Nat \ {0} /\ BufSize \in Nat \ {0}
  /\ StrokeCap \in Nat /\ NoiseCap \in Nat
  /\ Typed \subseteq STRING /\ NL \notin Typed
  /\ Prompt \in Seq(STRING) /\ \A i \in 1 .. Len(Prompt) : Prompt[i] # NL
  /\ Outputs \cup {LockText, LogText} \subseteq Seq(STRING)
  /\ \A text \in Outputs : text = << >> \/ EndsLine(text)
  /\ EndsLine(LockText) /\ EndsLine(LogText)

VARIABLES
  back,         \* what is drawn: fb_backbuffer, or the screen without one
  vram,         \* what the user sees
  buffered,     \* there is a back buffer
  quiet,        \* suppress_fb
  spare,        \* below the whole rows there is a part of one
  dirty,        \* fb_dirty
  cx, cy,       \* cursor_x, cursor_y
  saved,        \* cursor_saved
  visible,      \* cursor_visible
  buf,          \* buf[0 .. pos - 1]
  step, op,     \* where the editor is, and what it is printing
  blink,        \* cursor_state
  strokes, noise, \* keys pressed; lock messages and log lines so far
  top, torn     \* row of the prompt; the line on the screen is torn (below)

cnVars == << back, vram, buffered, quiet, spare, dirty, cx, cy, saved, visible,
             buf, step, op, blink, strokes, noise, top, torn >>

Row == 0 .. Rows - 1
Band == 0 .. Rows        \* the last is the spare row
Col == 0 .. Cols - 1
BlankRow == [c \in Col |-> Blank]

\* The row after which the screen scrolls: the last that begins on it.
LastRow(partial) == IF partial THEN Rows ELSE Rows - 1

\* What kprint works on: [cells, spare, dirty, x, y]; and the rows to be seen.
Pen == [cells |-> back, spare |-> spare, dirty |-> dirty, x |-> cx, y |-> cy]
InView(p) == 0 .. LastRow(p.spare)

\* put_pixel drops what lies off the screen, in the spare row all but the top
\* of a glyph.
Painted(p, cell) ==
  IF p.x \in Col /\ p.y \in InView(p)
  THEN [p EXCEPT !.cells[p.y][p.x] = cell, !.dirty = TRUE] ELSE p

Drawn(p, ch) ==
  IF p.x \in Col /\ p.y \in InView(p)
  THEN Painted(p, [p.cells[p.y][p.x] EXCEPT !.ink = @ \cup {ch}]) ELSE p

\* A cell that shows parts of two.
Pieces(a, b) == [ink |-> a.ink \cup b.ink, inverted |-> a.inverted \/ b.inverted]

\* All moves up by a row; a row counted from the bottom has parts of two that
\* were counted from the top.
Scrolled(cells, partial) ==
  [r \in Band |->
     IF r >= Rows - 1 THEN BlankRow
     ELSE IF partial THEN [c \in Col |-> Pieces(cells[r + 1][c], cells[r + 2][c])]
     ELSE cells[r + 1]]

NewLine(p) ==
  IF p.y < LastRow(p.spare) THEN [p EXCEPT !.x = 0, !.y = @ + 1]
  ELSE [cells |-> Scrolled(p.cells, p.spare), spare |-> FALSE, dirty |-> TRUE,
        x |-> 0, y |-> Rows - 1]

\* A full line goes on in the next row, which may be below the screen.
Advanced(p) ==
  IF p.x + 1 >= Cols - 1 THEN [p EXCEPT !.x = 0, !.y = @ + 1]
  ELSE [p EXCEPT !.x = @ + 1]

\* kprint of a character, and of a string: the pen after each of its characters.
PutChar(p, ch) == IF ch = NL THEN NewLine(p) ELSE Advanced(Drawn(p, ch))
Pens(p, text) ==
  LET pen[n \in 0 .. Len(text)] == IF n = 0 THEN p ELSE PutChar(pen[n - 1], text[n]) IN pen
Kprint(p, text) == Pens(p, text)[Len(text)]

\* fb_backspace: one cell to the left, or to the last cell of the row above.
Erased(p) ==
  IF p.x > 0 THEN Painted([p EXCEPT !.x = @ - 1], Blank)
  ELSE IF p.y > 0 THEN Painted([p EXCEPT !.x = Cols - 1, !.y = @ - 1], Blank)
  ELSE p

\* The pen is put down, and fb_flush copies what is dirty if asked to.
Finish(p, flush) ==
  /\ back' = p.cells /\ spare' = p.spare /\ cx' = p.x /\ cy' = p.y
  /\ IF ~buffered THEN vram' = p.cells /\ dirty' = p.dirty
     ELSE IF flush /\ p.dirty THEN vram' = p.cells /\ dirty' = FALSE
     ELSE vram' = vram /\ dirty' = p.dirty

\* The cursor's cell.  In the spare row and below the screen the code reaches
\* past the buffer; what is there is not shown and not modelled.
OnScreen == cx \in Col /\ cy \in InView(Pen)
Cell == IF OnScreen THEN back[cy][cx] ELSE Blank

\* back with another cell at the cursor.  fb_flush, called next, does nothing
\* unless something was drawn before: the inversion does not set fb_dirty.
SetCell(cell) ==
  Finish([Pen EXCEPT !.cells = IF OnScreen THEN [back EXCEPT ![cy][cx] = cell] ELSE back],
         TRUE)

\* fb_cursor_show
CursorShow ==
  IF quiet \/ visible THEN UNCHANGED << back, vram, spare, dirty, cx, cy, saved, visible >>
  ELSE /\ saved' = Cell
       /\ SetCell([Cell EXCEPT !.inverted = ~@])
       /\ visible' = TRUE

\* Mutant: the cell is not restored.
CursorHide_Left ==
  /\ UNCHANGED << back, vram, spare, dirty, cx, cy, saved >>
  /\ visible' = FALSE

\* fb_cursor_hide: the saved cell goes to where the cursor is now.
CursorHide ==
  IF quiet \/ ~visible THEN UNCHANGED << back, vram, spare, dirty, cx, cy, saved, visible >>
  ELSE SetCell(saved) /\ visible' = FALSE /\ UNCHANGED saved

CnInit ==
  /\ back = [r \in Band |-> BlankRow] /\ vram = back
  /\ buffered \in BOOLEAN /\ quiet \in BOOLEAN /\ spare \in BOOLEAN
  /\ dirty = FALSE
  /\ cx = 0 /\ cy \in 0 .. LastRow(spare) \* below what the boot messages left
  /\ saved = Blank /\ visible = FALSE
  /\ buf = << >>
  /\ step = "hide" /\ op = [kind |-> "prompt", text |-> Prompt]
  /\ blink = FALSE
  /\ strokes = 0 /\ noise = 0
  /\ top = cy /\ torn = FALSE

-----------------------------------------------------------------------------
(* The line editor.                                                        *)

config == << buffered, quiet >>
still == << config, strokes, noise >>

Stroke == strokes < StrokeCap /\ strokes' = strokes + 1

\* fb_cursor_hide before anything is printed.
Hide ==
  /\ step = "hide"
  /\ CursorHide
  /\ step' = "print"
  /\ UNCHANGED << still, buf, op, blink, top, torn >>

\* Does printing this text take the line below the whole rows?
Falls(p, text) == p.y >= Rows \/ \E n \in 1 .. Len(text) : Pens(p, text)[n].y >= Rows

\* out_puts, out_putchar: puts or putchar prints and flushes.
Emit ==
  /\ step = "print" /\ op.kind # "erase"
  /\ Finish(Kprint(Pen, op.text), TRUE)
  /\ top' = IF op.kind = "prompt" THEN cy ELSE top
  /\ torn' = IF op.kind = "prompt" THEN Falls(Pen, op.text)
             ELSE (torn \/ Falls(Pen, op.text))
  /\ step' = "show"
  /\ UNCHANGED << still, saved, visible, buf, op, blink >>

\* fb_backspace prints and flushes.
Backspace ==
  /\ step = "print" /\ op.kind = "erase"
  /\ Finish(Erased(Pen), TRUE)
  /\ torn' = (torn \/ cx = 0)
  /\ step' = "show"
  /\ UNCHANGED << still, saved, visible, buf, op, blink, top >>

\* fb_cursor_show after it was printed.
Show ==
  /\ step = "show"
  /\ CursorShow
  /\ step' = CASE op.kind \in {"prompt", "key", "erase"} -> "poll"
               [] op.kind = "enter"  -> "command"
               [] op.kind = "output" -> "done"
  /\ UNCHANGED << still, buf, op, blink, top, torn >>

Begin(kind, text) == step' = "hide" /\ op' = [kind |-> kind, text |-> text]

screen == << back, vram, spare, dirty, cx, cy, saved, visible >>

\* Mutant: one more character is taken than there is room for.
HasRoom_Full == Len(buf) < BufSize

\* pos < BUF_SIZE - 1
HasRoom == Len(buf) < BufSize - 1

\* A character; when the buffer is full it is ignored.
Key(ch) ==
  /\ step = "poll" /\ HasRoom
  /\ buf' = Append(buf, ch)
  /\ Stroke /\ Begin("key", << ch >>)
  /\ UNCHANGED << config, noise, screen, blink, top, torn >>

\* '\b' or 127; at the start of the line it is ignored.
Rubout ==
  /\ step = "poll" /\ buf # << >>
  /\ buf' = Front(buf)
  /\ Stroke /\ Begin("erase", << >>)
  /\ UNCHANGED << config, noise, screen, blink, top, torn >>

\* '\r' or '\n' ends the line.
Enter ==
  /\ step = "poll"
  /\ Stroke /\ Begin("enter", << NL >>)
  /\ UNCHANGED << config, noise, screen, buf, blink, top, torn >>

\* No key for a while: the cursor blinks.
Blink ==
  /\ step = "poll"
  /\ blink' = ~blink
  /\ IF blink' THEN CursorShow ELSE CursorHide
  /\ UNCHANGED << still, buf, step, op, top, torn >>

\* The line is looked at, and a command may print.
Command(text) ==
  /\ step = "command" /\ buf # << >>
  /\ Begin("output", text)
  /\ UNCHANGED << still, screen, buf, blink, top, torn >>

\* The next prompt.
NextLine ==
  /\ \/ step = "command" /\ buf = << >>
     \/ step = "done"
  /\ buf' = << >> /\ blink' = FALSE
  /\ Begin("prompt", Prompt)
  /\ UNCHANGED << still, screen, top, torn >>

\* A command makes the kernel log something: kprint alone, without a flush,
\* over a cursor that stays visible.
KernelLog ==
  /\ step \in {"command", "done"} /\ noise < NoiseCap
  /\ ~quiet
  /\ Finish(Kprint(Pen, LogText), FALSE)
  /\ noise' = noise + 1
  /\ UNCHANGED << config, strokes, saved, visible, buf, step, op, blink, top, torn >>

\* A lock key: ps2_handle_interrupt prints wherever the editor is.
LockKey ==
  /\ noise < NoiseCap
  /\ Finish(Kprint(Pen, LockText), TRUE)
  /\ noise' = noise + 1
  /\ torn' = TRUE
  /\ UNCHANGED << config, strokes, saved, visible, buf, step, op, blink, top >>

CnNext ==
  \/ Hide \/ Emit \/ Backspace \/ Show
  \/ \E ch \in Typed : Key(ch)
  \/ Rubout \/ Enter \/ Blink
  \/ \E text \in Outputs : Command(text)
  \/ NextLine \/ KernelLog \/ LockKey

CnSpec == CnInit /\ [][CnNext]_cnVars

-----------------------------------------------------------------------------
(* Properties.                                                             *)

Glyph == Typed \cup { Prompt[i] : i \in DOMAIN Prompt }
         \cup UNION { { t[i] : i \in DOMAIN t } : t \in Outputs \cup {LockText, LogText} }
ScreenCells == [Band -> [Col -> [ink : SUBSET Glyph, inverted : BOOLEAN]]]

CnTypeOK ==
  /\ back \in ScreenCells /\ vram \in ScreenCells
  /\ {buffered, quiet, spare, dirty} \subseteq BOOLEAN
  /\ cx \in Col /\ cy \in Nat
  /\ visible \in BOOLEAN
  /\ buf \in Seq(Typed) /\ Len(buf) < BufSize
  /\ step \in {"hide", "print", "show", "poll", "command", "done"}
  /\ op.kind \in {"prompt", "key", "erase", "enter", "output"}
  /\ blink \in BOOLEAN /\ torn \in BOOLEAN
  /\ top \in Nat /\ strokes \in 0 .. StrokeCap /\ noise \in 0 .. NoiseCap

\* What the user sees is what the editor will run: while it waits for a key,
\* each character of the line stands alone and uninverted in its cell after
\* the prompt, wrapped at the last column but one, nothing follows, and the
\* cursor is on the screen, behind the last.  Not so once the line is torn: by
\* a lock key's message, by a backspace that goes back over a wrap (it erases
\* the last column, which was never written), by a wrap below the bottom row
\* (which does not scroll), or when it begins in the spare row, where hardly
\* any of it is to be seen.
Line == Prompt \o buf
PlaceOf(i) == << top + (i \div (Cols - 1)), i % (Cols - 1) >>
EchoIsLine ==
  step = "poll" /\ ~torn =>
    /\ cy < Rows /\ << cy, cx >> = PlaceOf(Len(Line))
    /\ \A r \in Row, c \in 0 .. Cols - 2 :
         LET i == (r - top) * (Cols - 1) + c + 1
         IN r >= top =>
              IF i <= Len(Line) THEN vram[r][c] = [ink |-> {Line[i]}, inverted |-> FALSE]
              ELSE vram[r][c].ink = {}
=============================================================================
