----------------------------- MODULE FbConsole -----------------------------
(***************************************************************************)
(* FrameBufferSerialPortLib: the debug console drawn into the frame        *)
(* buffer, one glyph of SCALE_FACTOR times 5 x 12 pixels after another.    *)
(* There is no scrolling: past the last line the screen is cleared and the *)
(* character painted again.  Writes run with interrupts disabled, but the  *)
(* branch for a line feed jumps over the initialisation of intstate and    *)
(* tests it afterwards: what the stack held decides whether interrupts are *)
(* enabled in the middle of a write.  From then on a handler may write     *)
(* between two characters, and between two stores of a line feed.          *)
(***************************************************************************)
EXTENDS Integers, Sequences, FiniteSets

CONSTANTS
    Screens,          \* [gWidth, gHeight] of the frame buffer, in pixels
    MaxBytes,         \* bound on the bytes of a write
    MaxDepth,         \* bound on the writes that interrupt each other
    MaxDrawn          \* bound on the glyphs between two clears

SCALE_FACTOR == 2
FONT_WIDTH == 5
FONT_HEIGHT == 12

\* A screen has room for one character and a pixel more: one of 24 lines of
\* pixels would never be cleared (LastLine).
ScreensAssumption ==
    /\ Screens \subseteq [gWidth : Nat, gHeight : Nat] /\ MaxBytes \in Nat
    /\ \A s \in Screens : /\ s.gWidth >= SCALE_FACTOR * (FONT_WIDTH + 1)
                          /\ s.gHeight > SCALE_FACTOR * FONT_HEIGHT

\* A printable character, a space, the two controls it knows and the others.
Characters == {"letter", "space", "newline", "return", "other"}

VARIABLES
    screen,      \* the frame buffer's size
    con,         \* m_Initialized, m_Position, m_Color.Foreground
    irq,         \* whether the processor takes interrupts
    writes,      \* the writes in progress, the innermost first
    drawn,       \* the cells painted since the screen was cleared, with their colour
    glyphs,      \* how many characters were painted since then
    returned,    \* whether a carriage return came since then
    torn         \* whether a write came in the middle of a line feed since then
fvars == <<screen, con, irq, writes, drawn, glyphs, returned, torn>>

\* FbConReset: a cell is a pixel wider than its glyph.
MaxX == screen.gWidth \div (FONT_WIDTH + 1)
MaxY == (screen.gHeight - 1) \div FONT_HEIGHT
\* Mutant: the columns of the unscaled font.
UnscaledColumns == MaxX
Columns == MaxX \div SCALE_FACTOR

Init ==
    /\ screen \in Screens
    /\ con = [initialized |-> FALSE, x |-> 0, y |-> 0, fg |-> "white"]
    /\ irq = TRUE /\ writes = <<>> /\ drawn = {} /\ glyphs = 0 /\ returned = FALSE
    /\ torn = FALSE

SerialPortInitialize ==
    /\ writes = <<>>
    /\ con' = IF con.initialized THEN con
              ELSE [initialized |-> TRUE, x |-> 0, y |-> 0, fg |-> "white"]
    /\ UNCHANGED <<screen, irq, writes, drawn, glyphs, returned, torn>>

Top == writes[1]
\* Between two stores of a line feed.
InLineFeed(w) == w.stage \in {"down", "x", "test", "clear", "zero"}

\* SerialPortWrite and SerialPortWriteCritical, by the program or, while
\* interrupts are taken, by a handler: which runs with them disabled.
Write(critical, bytes) ==
    /\ writes = <<>> \/ (irq /\ Len(writes) < MaxDepth)
    /\ writes' = <<[critical |-> critical, left |-> bytes, char |-> "none",
                    stage |-> "none", y |-> 0, fg |-> con.fg]>> \o writes
    /\ irq' = FALSE
    /\ con' = IF critical THEN [con EXCEPT !.fg = "yellow"] ELSE con
    /\ torn' = (torn \/ (writes # <<>> /\ InLineFeed(Top)))
    /\ UNCHANGED <<screen, drawn, glyphs, returned>>

\* The write goes on with a character, is done with it, or begins it again.
Goes(c, stage, y) ==
    writes' = [writes EXCEPT ![1].char = c, ![1].stage = stage, ![1].y = y]
Again(c) == Goes(c, "none", 0)
Consumed == writes' = [writes EXCEPT ![1].left = @ - 1, ![1].char = "none",
                                     ![1].stage = "none", ![1].y = 0]

Cell == [x |-> con.x, y |-> con.y]
DrawGlyph ==
    /\ drawn' = {d \in drawn : [x |-> d.x, y |-> d.y] # Cell}
                \cup {[x |-> con.x, y |-> con.y, fg |-> con.fg, critical |-> Top.critical]}
    /\ glyphs' = glyphs + 1 /\ UNCHANGED <<returned, torn>>

ClearScreen ==
    /\ drawn' = {} /\ glyphs' = 0 /\ returned' = FALSE
    /\ torn' = \E i \in 2..Len(writes) : InLineFeed(writes[i])

\* The test after y went down: the subtraction is unsigned, and one that
\* wraps is past every line.
LastLine(y) == MaxY >= SCALE_FACTOR /\ y >= MaxY - SCALE_FACTOR

\* A glyph, painted with interrupts disabled, and the newline that follows
\* the last one of a line.
Glyph(c) ==
    LET below == con.y + SCALE_FACTOR IN
    \/ /\ con.x + 1 < Columns /\ DrawGlyph
       /\ con' = [con EXCEPT !.x = @ + 1] /\ Consumed
    \/ /\ con.x + 1 >= Columns /\ ~LastLine(below) /\ DrawGlyph
       /\ con' = [con EXCEPT !.x = 0, !.y = below] /\ Consumed
    \/ /\ con.x + 1 >= Columns /\ LastLine(below) /\ ClearScreen
       /\ con' = [con EXCEPT !.x = 0, !.y = 0] /\ Again(c)

\* A character before interrupts are disabled for its glyph.
Ignored(c) == ~con.initialized \/ c = "other" \/ (c = "space" /\ con.x = 0)
Begin(c) ==
    /\ UNCHANGED <<irq, drawn, glyphs, torn>>
    /\ \/ Ignored(c) /\ Consumed /\ UNCHANGED <<con, returned>>
       \/ /\ ~Ignored(c) /\ c = "return" /\ Consumed
          /\ con' = [con EXCEPT !.x = 0] /\ returned' = TRUE
       \/ ~Ignored(c) /\ c \in {"letter", "space"} /\ Goes(c, "paint", 0) /\ UNCHANGED <<con, returned>>
       \/ ~Ignored(c) /\ c = "newline" /\ Goes(c, "down", con.y) /\ UNCHANGED <<con, returned>>

\* A line feed, store by store, since it disables no interrupts: y was read,
\* y goes down, x goes back, the last line is tested for, the screen cleared
\* and y taken to the top.  It ends on whatever intstate held.
LineFeed(c) ==
    \/ /\ Top.stage = "down" /\ Goes(c, "x", 0) /\ con' = [con EXCEPT !.y = Top.y + SCALE_FACTOR]
       /\ UNCHANGED <<irq, drawn, glyphs, returned, torn>>
    \/ /\ Top.stage = "x" /\ Goes(c, "test", 0) /\ con' = [con EXCEPT !.x = 0]
       /\ UNCHANGED <<irq, drawn, glyphs, returned, torn>>
    \/ /\ Top.stage = "test" /\ LastLine(con.y) /\ Goes(c, "clear", 0)
       /\ UNCHANGED <<con, irq, drawn, glyphs, returned, torn>>
    \/ /\ Top.stage = "test" /\ ~LastLine(con.y) /\ Consumed
       /\ \E intstate \in BOOLEAN : irq' = (irq \/ intstate)
       /\ UNCHANGED <<con, drawn, glyphs, returned, torn>>
    \/ Top.stage = "clear" /\ ClearScreen /\ Goes(c, "zero", 0) /\ UNCHANGED <<con, irq>>
    \/ /\ Top.stage = "zero" /\ con' = [con EXCEPT !.y = 0] /\ Again(c)
       /\ \E intstate \in BOOLEAN : irq' = (irq \/ intstate)
       /\ UNCHANGED <<drawn, glyphs, returned, torn>>

\* FbConPutCharWithFactor of a new character, or of the one begun.
FbConPutCharWithFactor(c) ==
    /\ writes # <<>> /\ Top.left > 0 /\ glyphs < MaxDrawn
    /\ Top.char \in {"none", c} /\ UNCHANGED screen
    /\ \/ Top.stage = "none" /\ Begin(c)
       \/ Top.stage = "paint" /\ Glyph(c) /\ UNCHANGED irq
       \/ LineFeed(c)

\* The end of a write: it is back with interrupts enabled, in the program or
\* in what the handler interrupted.
EndWrite ==
    /\ writes # <<>> /\ Top.left = 0
    /\ con' = IF Top.critical THEN [con EXCEPT !.fg = Top.fg] ELSE con
    /\ irq' = TRUE /\ writes' = Tail(writes)
    /\ UNCHANGED <<screen, drawn, glyphs, returned, torn>>

FbStep ==
    \/ SerialPortInitialize
    \/ \E critical \in BOOLEAN, bytes \in 1..MaxBytes : Write(critical, bytes)
    \/ \E c \in Characters : FbConPutCharWithFactor(c)
    \/ EndWrite

(* Properties *)

Inside(d) ==
    /\ d.x * SCALE_FACTOR * (FONT_WIDTH + 1) + SCALE_FACTOR * FONT_WIDTH <= screen.gWidth
    /\ (d.y + SCALE_FACTOR) * FONT_HEIGHT <= screen.gHeight

\* What was written since the screen was last cleared stands on it, each
\* character in a cell of its own inside the frame buffer unless a carriage
\* return went back over the line, also when handlers write in the middle of
\* each other's writes; a handler that writes between two stores of a line
\* feed may lose its place, until the screen is cleared.  Critical messages
\* always stand out (FrameBufferSerialPortLib.c 93-185, 352-397).
WrittenIsVisible ==
    /\ \A d \in drawn : d.critical => d.fg = "yellow"
    /\ ~torn => /\ \A d \in drawn : Inside(d)
                /\ returned \/ Cardinality(drawn) = glyphs
    /\ writes = <<>> => con.fg = "white"
=============================================================================
