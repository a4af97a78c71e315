------------------------------ MODULE TEScreen ------------------------------
(***************************************************************************)
(* konsole's screen (konsole/src/TEScreen.C): the image, the cursor, the   *)
(* margins, modes and tab stops that VT102 control sequences change, the   *)
(* history of lines that scrolled off, and the selection of the mouse.     *)
(*                                                                         *)
(* Every operation is an operator from a screen to a screen, so that those *)
(* that call others are written as in the code.  The image is one vector,  *)
(* line after line.  A character is what a cell holds: colours, renditions *)
(* and character sets are left out.  An operation that reads or writes a   *)
(* cell outside of the vector ends in wild = TRUE, and nothing is said of  *)
(* the program from there on.                                              *)
(***************************************************************************)
EXTENDS Integers, Sequences, FiniteSets

CONSTANTS
    Glyph,     \* printable characters
    Blank,     \* the space
    Sizes,     \* pairs <<lines, columns>> the window may have
    Count,     \* numbers in control sequences
    Cases,     \* what a behaviour has: the groups of operations it uses, the
               \* first size, and the length of the history buffer
    Drift      \* bound: how far a selection may be scrolled out of the screen

Mode   == {"Wrap", "Origin", "Insert", "NewLine"}
Kept   == {"Wrap", "Origin"}               \* the modes that can be saved
Groups == {"move", "edit", "margins", "modes", "cursor", "tabs", "erase", "resize", "mouse"}
Cell   == Glyph \cup {Blank}

ASSUME SizesAssumption == Sizes \subseteq (Nat \ {0}) \X (Nat \ {0})
ASSUME NumbersAssumption == Count \subseteq Nat /\ Drift \in Nat
ASSUME CasesAssumption == Cases \subseteq [uses : SUBSET Groups, size : Sizes, max : Nat]
ASSUME BlankAssumption == Blank \notin Glyph

VARIABLES
    scr,       \* the screen
    uses       \* the groups of operations the program and the user call

vars == <<scr, uses>>
-----------------------------------------------------------------------------
(* Helpers *)

Lower(a, b)  == IF a < b THEN a ELSE b     \* QMIN
Higher(a, b) == IF a < b THEN b ELSE a     \* QMAX
OrOne(n)     == IF n = 0 THEN 1 ELSE n     \* the default of a number

loc(s, x, y) == y * s.columns + x
Last(s)      == s.columns - 1
Within(s, i) == 0 =< i /\ i < s.lines * s.columns

clearSelection(s) == [s EXCEPT !.sel_BR = -1, !.sel_TL = -1, !.sel_begin = -1]

\* Nothing is written when a > b.  The selection goes if it overlaps.
clearImage(s, a, b, c) ==
    LET scr_TL == loc(s, 0, s.histCursor)
        t == IF s.sel_BR > a + scr_TL /\ s.sel_TL < b + scr_TL
             THEN clearSelection(s) ELSE s
    IN  IF a > b \/ (Within(s, a) /\ Within(s, b))
        THEN [t EXCEPT !.image = [i \in DOMAIN s.image |->
                                     IF a =< i /\ i =< b THEN c ELSE s.image[i]]]
        ELSE [t EXCEPT !.wild = TRUE]

\* memmove: a negative length is a huge one
moveImage(s, dst, a, b) ==
    IF a = b + 1 THEN s
    ELSE IF a =< b /\ Within(s, a) /\ Within(s, b)
            /\ Within(s, dst) /\ Within(s, dst + b - a)
    THEN [s EXCEPT !.image = [i \in DOMAIN s.image |->
                                 IF dst =< i /\ i =< dst + b - a
                                 THEN s.image[i - dst + a] ELSE s.image[i]]]
    ELSE [s EXCEPT !.wild = TRUE]

clearLines(s, from, to) == clearImage(s, loc(s, 0, from), loc(s, Last(s), to), Blank)

\* A selection moves with the text only when the text at the top does.
MoveSelection(s, from, by) ==
    IF from = 0 /\ s.sel_begin >= 0
    THEN [s EXCEPT !.sel_TL = s.sel_TL + by * s.columns, !.sel_BR = s.sel_BR + by * s.columns]
    ELSE clearSelection(s)

\* Mutant: one line too many is cleared.
scrollUpWide(s, from, n) ==
    IF n =< 0 \/ from + n > s.bmargin THEN s
    ELSE LET t == moveImage(s, loc(s, 0, from), loc(s, 0, from + n), loc(s, Last(s), s.bmargin))
         IN  MoveSelection(clearLines(t, s.bmargin - n, s.bmargin), from, from - n)

scrollUp(s, from, n) ==
    IF n =< 0 \/ from + n > s.bmargin THEN s
    ELSE LET t == moveImage(s, loc(s, 0, from), loc(s, 0, from + n), loc(s, Last(s), s.bmargin))
         IN  MoveSelection(clearLines(t, s.bmargin - n + 1, s.bmargin), from, from - n)

\* Mutant: the number of lines is not limited.
scrollDownFar(s, from, k) ==
    IF k =< 0 \/ from > s.bmargin THEN s
    ELSE LET t == moveImage(s, loc(s, 0, from + k), loc(s, 0, from), loc(s, Last(s), s.bmargin - k))
         IN  MoveSelection(clearLines(t, from, from + k - 1), from, k - from)

scrollDown(s, from, k) ==
    IF k =< 0 \/ from > s.bmargin THEN s
    ELSE LET n == Lower(k, s.bmargin - from)
             t == moveImage(s, loc(s, 0, from + n), loc(s, 0, from), loc(s, Last(s), s.bmargin - n))
         IN  MoveSelection(clearLines(t, from, from + n - 1), from, n - from)
-----------------------------------------------------------------------------
(* History *)

\* The first line without the blanks at its end
FirstLine(s) ==
    LET upto == {x \in 0..Last(s) : \E y \in x..Last(s) : s.image[y] # Blank}
    IN  [x \in 1..Cardinality(upto) |-> s.image[x - 1]]

\* Mutant: the view does not follow what it shows when the first line is dropped.
addHistLineMoves(s) ==
    IF s.histMaxLines = 0 THEN s
    ELSE IF Len(s.hist) >= s.histMaxLines
    THEN [s EXCEPT !.hist = Append(Tail(s.hist), FirstLine(s))]
    ELSE [s EXCEPT !.hist = Append(s.hist, FirstLine(s)),
                   !.histCursor = IF s.histCursor = Len(s.hist)
                                  THEN s.histCursor + 1 ELSE s.histCursor]

addHistLine(s) ==
    IF s.histMaxLines = 0 THEN s
    ELSE IF Len(s.hist) >= s.histMaxLines
    THEN LET c == IF s.histCursor = 0 THEN Len(s.hist) ELSE s.histCursor
         IN  [s EXCEPT !.hist = Append(Tail(s.hist), FirstLine(s)),
                       !.histCursor = IF c # Len(s.hist) THEN c - 1 ELSE c]
    ELSE LET t == [s EXCEPT !.hist = Append(s.hist, FirstLine(s)),
                            !.histCursor = IF s.histCursor = Len(s.hist)
                                           THEN s.histCursor + 1 ELSE s.histCursor]
         IN  IF s.sel_TL > 0
             THEN [t EXCEPT !.sel_TL = s.sel_TL + s.columns,
                            !.sel_BR = s.sel_BR + s.columns,
                            !.sel_begin = s.sel_begin + s.columns]
             ELSE t

setHistCursor(s, c) == [s EXCEPT !.histCursor = c]
-----------------------------------------------------------------------------
(* Cursor *)

cursorUp(s, n) ==
    [s EXCEPT !.cuX = Lower(Last(s), s.cuX),
              !.cuY = Higher(IF s.cuY < s.tmargin THEN 0 ELSE s.tmargin, s.cuY - OrOne(n))]

cursorDown(s, n) ==
    [s EXCEPT !.cuX = Lower(Last(s), s.cuX),
              !.cuY = Lower(IF s.cuY > s.bmargin THEN s.lines - 1 ELSE s.bmargin,
                            s.cuY + OrOne(n))]

cursorLeft(s, n)  == [s EXCEPT !.cuX = Higher(0, Lower(Last(s), s.cuX) - OrOne(n))]
cursorRight(s, n) == [s EXCEPT !.cuX = Lower(Last(s), s.cuX + OrOne(n))]

setCursorX(s, x) == [s EXCEPT !.cuX = Higher(0, Lower(Last(s), OrOne(x) - 1))]

setCursorY(s, y) ==
    LET base == IF "Origin" \in s.mode THEN s.tmargin ELSE 0
    IN  [s EXCEPT !.cuY = Higher(0, Lower(s.lines - 1, OrOne(y) - 1 + base))]

setCursorYX(s, y, x) == setCursorX(setCursorY(s, y), x)

home(s)      == [s EXCEPT !.cuX = 0, !.cuY = 0]
Return(s)    == [s EXCEPT !.cuX = 0]
BackSpace(s) == [s EXCEPT !.cuX = Higher(0, s.cuX - 1)]

setMargins(s, t, b) ==
    LET top == OrOne(t) - 1
        bot == (IF b = 0 THEN s.lines ELSE b) - 1
    IN  IF ~(0 =< top /\ top < bot /\ bot < s.lines) THEN s
        ELSE [s EXCEPT !.tmargin = top, !.bmargin = bot, !.cuX = 0,
                       !.cuY = IF "Origin" \in s.mode THEN top ELSE 0]

index(s) ==
    IF s.cuY >= s.bmargin
    THEN scrollUp(IF s.tmargin = 0 /\ s.bmargin = s.lines - 1 THEN addHistLine(s) ELSE s,
                  s.tmargin, 1)
    ELSE [s EXCEPT !.cuY = s.cuY + 1]

reverseIndex(s) ==
    IF s.cuY =< s.tmargin THEN scrollDown(s, s.tmargin, 1)
    ELSE [s EXCEPT !.cuY = s.cuY - 1]

NextLine(s) == index(Return(s))
NewLine(s)  == index(IF "NewLine" \in s.mode THEN Return(s) ELSE s)
-----------------------------------------------------------------------------
(* Editing *)

eraseChars(s, n) ==
    LET p == Higher(0, Lower(s.cuX + OrOne(n) - 1, Last(s)))
    IN  clearImage(s, loc(s, s.cuX, s.cuY), loc(s, p, s.cuY), Blank)

\* Mutant: one character too few is moved over.
deleteCharsShort(s, k) ==
    LET n == OrOne(k)
        p == Higher(0, Lower(s.cuX + n - 1, Last(s)))
        t == moveImage(s, loc(s, s.cuX, s.cuY), loc(s, p, s.cuY), loc(s, Last(s), s.cuY))
    IN  clearImage(t, loc(s, s.columns - n, s.cuY), loc(s, Last(s), s.cuY), Blank)

deleteChars(s, k) ==
    LET n == OrOne(k)
        p == Higher(0, Lower(s.cuX + n, Last(s)))
        t == moveImage(s, loc(s, s.cuX, s.cuY), loc(s, p, s.cuY), loc(s, Last(s), s.cuY))
    IN  clearImage(t, loc(s, s.columns - n, s.cuY), loc(s, Last(s), s.cuY), Blank)

insertChars(s, k) ==
    LET n == OrOne(k)
        p == Higher(0, Lower(Last(s) - n, Last(s)))
        q == Higher(0, Lower(s.cuX + n, Last(s)))
        t == moveImage(s, loc(s, q, s.cuY), loc(s, s.cuX, s.cuY), loc(s, p, s.cuY))
    IN  clearImage(t, loc(s, s.cuX, s.cuY), loc(s, q - 1, s.cuY), Blank)

deleteLines(s, n) == scrollUp(s, s.cuY, OrOne(n))
insertLines(s, n) == scrollDown(s, s.cuY, OrOne(n))

\* The cursor waits right of the last column for the character that wraps.
ShowCharacter(s, c) ==
    LET t == IF s.cuX < s.columns THEN s
             ELSE IF "Wrap" \in s.mode THEN NextLine(s)
             ELSE [s EXCEPT !.cuX = Last(s)]
        u == IF "Insert" \in s.mode THEN insertChars(t, 1) ELSE t
        i == loc(u, u.cuX, u.cuY)
        at == i + u.histCursor * u.columns
        v == IF u.sel_TL =< at /\ at =< u.sel_BR /\ u.image[i] # c
             THEN clearSelection(u) ELSE u
    IN  [v EXCEPT !.image[i] = c, !.cuX = u.cuX + 1]

clearToEndOfScreen(s)   == clearImage(s, loc(s, s.cuX, s.cuY), loc(s, Last(s), s.lines - 1), Blank)
clearToBeginOfScreen(s) == clearImage(s, 0, loc(s, s.cuX, s.cuY), Blank)
clearEntireScreen(s)    == clearLines(s, 0, s.lines - 1)
helpAlign(s, e)         == clearImage(s, 0, loc(s, Last(s), s.lines - 1), e)
clearToEndOfLine(s)     == clearImage(s, loc(s, s.cuX, s.cuY), loc(s, Last(s), s.cuY), Blank)
clearToBeginOfLine(s)   == clearImage(s, loc(s, 0, s.cuY), loc(s, s.cuX, s.cuY), Blank)
clearEntireLine(s)      == clearLines(s, s.cuY, s.cuY)
-----------------------------------------------------------------------------
(* Modes, saved cursor, tab stops, size *)

setMode(s, m) ==
    LET t == [s EXCEPT !.mode = s.mode \cup {m}]
    IN  IF m = "Origin" THEN [t EXCEPT !.cuX = 0, !.cuY = s.tmargin] ELSE t

resetMode(s, m) ==
    LET t == [s EXCEPT !.mode = s.mode \ {m}]
    IN  IF m = "Origin" THEN home(t) ELSE t

\* restoreMode does not move the cursor, as setMode and resetMode do.
saveMode(s, m)    == [s EXCEPT !.saved = (s.saved \ {m}) \cup ({m} \cap s.mode)]
restoreMode(s, m) == [s EXCEPT !.mode = (s.mode \ {m}) \cup ({m} \cap s.saved)]

saveCursor(s)    == [s EXCEPT !.sa_cuX = s.cuX, !.sa_cuY = s.cuY]
\* Mutant: the screen may be smaller by now.
restoreCursorRaw(s) == [s EXCEPT !.cuX = s.sa_cuX, !.cuY = s.sa_cuY]

restoreCursor(s) == [s EXCEPT !.cuX = Lower(s.sa_cuX, Last(s)), !.cuY = Lower(s.sa_cuY, s.lines - 1)]

DefaultStops(columns) == {i \in 0..(columns - 1) : i % 8 = 0 /\ i # 0}

\* To the next stop, or the last column
Tabulate(s) ==
    LET from == Lower(Last(s), s.cuX + 1)
        passed == {x \in from..(Last(s) - 1) : \A y \in from..x : y \notin s.tabstops}
    IN  [s EXCEPT !.cuX = from + Cardinality(passed)]

changeTabStop(s, set) ==
    IF s.cuX >= s.columns THEN s
    ELSE [s EXCEPT !.tabstops = IF set THEN s.tabstops \cup {s.cuX} ELSE s.tabstops \ {s.cuX}]

\* tabstops[i-1] for i from 0: the last stop stays, and the byte in front of
\* the vector, which malloc keeps 0 there, is set to 0.
clearTabStops(s) == [s EXCEPT !.tabstops = s.tabstops \cap {Last(s)}]

resizeImage(s, new_lines, new_columns) ==
    LET t == clearSelection(s)
        img == [i \in 0..(new_lines * new_columns - 1) |->
                   LET x == i % new_columns
                       y == i \div new_columns
                   IN  IF x < s.columns /\ y < s.lines THEN s.image[loc(s, x, y)] ELSE Blank]
    IN  [t EXCEPT !.image = img, !.lines = new_lines, !.columns = new_columns,
                  !.cuX = Lower(s.cuX, new_columns - 1), !.cuY = Lower(s.cuY, new_lines - 1),
                  !.tmargin = 0, !.bmargin = new_lines - 1, !.tabstops = DefaultStops(new_columns)]

reset(s) ==
    LET t == [home(s) EXCEPT !.mode = {"Wrap"}, !.saved = {"Wrap"},
                             !.tmargin = 0, !.bmargin = s.lines - 1]
    IN  home(clearEntireScreen(saveCursor(t)))
-----------------------------------------------------------------------------
(* Selection *)

setSelBeginXY(s, x, y) ==
    LET l == loc(s, x, y + s.histCursor)
    IN  [s EXCEPT !.sel_begin = l, !.sel_BR = l, !.sel_TL = l]

setSelExtentXY(s, x, y) ==
    LET l == loc(s, x, y + s.histCursor)
    IN  IF l < s.sel_begin THEN [s EXCEPT !.sel_TL = l, !.sel_BR = s.sel_begin]
        ELSE [s EXCEPT !.sel_TL = s.sel_begin,
                       !.sel_BR = IF x = s.columns \/ x = 0 THEN l - 1 ELSE l]

\* getCookedImage shows the cursor in a copy of the image of the same size,
\* also when it is right of the last column.  It is never hidden here.
getCookedImage(s) ==
    LET y == s.cuY + Len(s.hist) - s.histCursor
    IN  IF y < s.lines /\ ~Within(s, loc(s, s.cuX, y)) THEN [s EXCEPT !.wild = TRUE] ELSE s
-----------------------------------------------------------------------------
(* What TEmuVt102 and TEmulation call.  There is nothing to interrupt: the *)
(* bytes of the program and the events of the user are handled one by one. *)

\* setHistMaxLines is called before the first byte comes.
NewScreen(lines, columns, max) ==
    [lines |-> lines, columns |-> columns, cuX |-> 0, cuY |-> 0,
     tmargin |-> 0, bmargin |-> lines - 1, mode |-> {"Wrap"}, saved |-> {"Wrap"},
     sa_cuX |-> 0, sa_cuY |-> 0, tabstops |-> DefaultStops(columns),
     image |-> [i \in 0..(lines * columns - 1) |-> Blank],
     hist |-> <<>>, histCursor |-> 0, histMaxLines |-> max,
     sel_begin |-> -1, sel_TL |-> -1, sel_BR |-> -1, wild |-> FALSE]

Init == \E k \in Cases : /\ scr = NewScreen(k.size[1], k.size[2], k.max)
                         /\ uses = k.uses

InDrift(s) == s.sel_TL >= -Drift /\ s.sel_BR =< s.lines * s.columns + Drift

Becomes(s) == ~scr.wild /\ InDrift(s) /\ scr' = s /\ UNCHANGED uses
Does(g, s) == g \in uses /\ Becomes(s)

Text == \/ \E c \in Cell : Becomes(ShowCharacter(scr, c))
        \/ Becomes(Return(scr))
        \/ Becomes(NewLine(scr))

Move == \/ Does("move", BackSpace(scr))
        \/ \E n \in Count : \/ Does("move", cursorUp(scr, n))
                            \/ Does("move", cursorDown(scr, n))
                            \/ Does("move", cursorLeft(scr, n))
                            \/ Does("move", cursorRight(scr, n))
                            \/ Does("move", setCursorX(scr, n))
                            \/ Does("move", setCursorY(scr, n))
        \/ \E y, x \in Count : Does("move", setCursorYX(scr, y, x))

Scroll == \/ \E t, b \in Count : Does("margins", setMargins(scr, t, b))
          \/ Does("margins", index(scr))
          \/ Does("margins", reverseIndex(scr))
          \/ Does("margins", NextLine(scr))

Edit == \E n \in Count : \/ Does("edit", eraseChars(scr, n))
                         \/ Does("edit", deleteChars(scr, n))
                         \/ Does("edit", insertChars(scr, n))
                         \/ Does("edit", deleteLines(scr, n))
                         \/ Does("edit", insertLines(scr, n))

Erase == \/ Does("erase", clearToEndOfScreen(scr))
         \/ Does("erase", clearToBeginOfScreen(scr))
         \/ Does("erase", clearEntireScreen(scr))
         \/ \E e \in Glyph : Does("erase", helpAlign(scr, e))
         \/ Does("erase", clearToEndOfLine(scr))
         \/ Does("erase", clearToBeginOfLine(scr))
         \/ Does("erase", clearEntireLine(scr))

Modes == \/ \E m \in Mode : Does("modes", setMode(scr, m)) \/ Does("modes", resetMode(scr, m))
         \/ \E m \in Kept : Does("modes", saveMode(scr, m)) \/ Does("modes", restoreMode(scr, m))
         \/ Does("modes", reset(scr))

Cursor == Does("cursor", saveCursor(scr)) \/ Does("cursor", restoreCursor(scr))

Tabs == \/ Does("tabs", Tabulate(scr))
        \/ \E set \in BOOLEAN : Does("tabs", changeTabStop(scr, set))
        \/ Does("tabs", clearTabStops(scr))

\* The window, its scroll bar, the keyboard and the timer of showBulk
Window == \/ \E size \in Sizes : Does("resize", resizeImage(scr, size[1], size[2]))
          \/ \E c \in 0..Len(scr.hist) : Becomes(setHistCursor(scr, c))
          \/ Becomes(getCookedImage(scr))

Mouse == \/ \E x \in 0..scr.columns, y \in 0..(scr.lines - 1) :
               \/ Does("mouse", setSelBeginXY(scr, x, y))
               \/ Does("mouse", setSelExtentXY(scr, x, y))
         \/ Does("mouse", clearSelection(scr))

Next == Text \/ Move \/ Scroll \/ Edit \/ Erase \/ Modes \/ Cursor \/ Tabs \/ Window \/ Mouse

Spec == Init /\ [][Next]_vars
-----------------------------------------------------------------------------
(* Properties *)

\* The cursor stays on the screen, at most one right of the last column, the
\* margins are lines of the screen in their order, the view is in the
\* history and the history in its limit, through every change of the size
\* (TEScreen.C:95-96, 160-176, 383-424).
Shape(s) ==
    /\ s.lines \in Nat \ {0} /\ s.columns \in Nat \ {0}
    /\ s.cuX \in 0..s.columns /\ s.cuY \in 0..(s.lines - 1)
    /\ s.tmargin \in 0..s.bmargin /\ s.bmargin \in 0..(s.lines - 1)
    /\ s.tmargin = s.bmargin => s.lines = 1
    /\ s.mode \subseteq Mode /\ s.saved \subseteq Kept
    /\ s.sa_cuX \in Nat /\ s.sa_cuY \in Nat
    /\ s.tabstops \subseteq 0..(s.columns - 1)
    /\ s.image \in [0..(s.lines * s.columns - 1) -> Cell]
    /\ s.hist \in Seq(Seq(Cell)) /\ s.histMaxLines \in Nat
    /\ Len(s.hist) =< s.histMaxLines /\ s.histCursor \in 0..Len(s.hist)
    /\ s.sel_begin \in Int /\ s.sel_TL \in Int /\ s.sel_BR \in Int
    /\ s.wild \in BOOLEAN

TypeOK == Shape(scr) /\ uses \subseteq Groups

\* No cell outside of the image is touched but from right of the last column,
\* or with a number larger than what is left of the line: deleteChars and
\* insertChars do not limit it (TEScreen.C:247-267).
StaysInside ==
    [][scr'.wild =>
          \/ scr.cuX = scr.columns
          \/ \E n \in Count : /\ n > scr.columns - scr.cuX
                              /\ scr' \in {deleteChars(scr, n), insertChars(scr, n)}]_vars

Blanks(n)  == [x \in 1..n |-> Blank]
Line(s, y) == [x \in 1..s.columns |-> s.image[loc(s, x - 1, y)]]
Rows(s)    == [y \in 1..s.lines |-> Line(s, y - 1)]
Empty(s, n) == [y \in 1..n |-> Blanks(s.columns)]

\* Characters are erased, deleted and inserted as on a line of its own, and no
\* other line changes (TEScreen.C:235-267).  What does not fit is part of it: a
\* deletion that reaches beyond the end of the line also blanks as many characters
\* left of the cursor, and an insertion that reaches the last column does not clear
\* that: it keeps its character or, for a whole line, gets the first one.  Nothing
\* is said of larger insertions, of deletions of more than a line, and of deletions
\* from right of the last column, which leave the line.
EditsInLine ==
    LET row == Line(scr, scr.cuY)
        room == scr.columns - scr.cuX
        To(x) == SubSeq(row, 1, x)
        After(n) == SubSeq(row, scr.cuX + n + 1, scr.columns)
        End == row[IF scr.cuX = 0 THEN 1 ELSE scr.columns]
        Only(t, r) == Rows(t) = [Rows(scr) EXCEPT ![scr.cuY + 1] = r]
    IN  \A k \in Count :
          LET n == OrOne(k)
              m == Lower(n, room)
          IN  /\ Only(eraseChars(scr, k), To(scr.cuX) \o Blanks(m) \o After(m))
              /\ room > 0 /\ n =< scr.columns =>
                    Only(deleteChars(scr, k),
                         To(Lower(scr.cuX, scr.columns - n)) \o After(n) \o Blanks(n))
              /\ n < room =>
                    Only(insertChars(scr, k), To(scr.cuX) \o Blanks(n)
                                              \o SubSeq(row, scr.cuX + 1, scr.columns - n))
              /\ n = room =>
                    Only(insertChars(scr, k), To(scr.cuX) \o Blanks(n - 1) \o <<End>>)

Up(s, top, n)   == SubSeq(Rows(s), 1, top) \o SubSeq(Rows(s), top + n + 1, s.bmargin + 1)
                   \o Empty(s, n) \o SubSeq(Rows(s), s.bmargin + 2, s.lines)
Down(s, top, n) == SubSeq(Rows(s), 1, top) \o Empty(s, n)
                   \o SubSeq(Rows(s), top + 1, s.bmargin + 1 - n)
                   \o SubSeq(Rows(s), s.bmargin + 2, s.lines)

\* The lines from top to the bottom margin when n are to go or to come: of the
\* last one nothing goes, and it is never pushed out.
Deleted(s, top, n)  == IF n =< s.bmargin - top THEN Up(s, top, n) ELSE Rows(s)
Inserted(s, top, n) == IF top =< s.bmargin THEN Down(s, top, Lower(n, s.bmargin - top)) ELSE Rows(s)

\* Inside of the margins lines are scrolled, deleted and inserted as a list of
\* lines, and nothing below the bottom margin moves (TEScreen.C:185-210, 274-289,
\* 722-759); but a deletion of all the lines from the cursor to the bottom margin,
\* or of more, deletes none, an insertion of as many keeps the line of the cursor,
\* on the bottom margin, and a region of one line does not scroll.
ScrollsRegion ==
    /\ scr.cuY >= scr.bmargin => Rows(index(scr)) = Deleted(scr, scr.tmargin, 1)
    /\ scr.cuY =< scr.tmargin => Rows(reverseIndex(scr)) = Inserted(scr, scr.tmargin, 1)
    /\ \A n \in Count :
          /\ Rows(deleteLines(scr, n)) = Deleted(scr, scr.cuY, OrOne(n))
          /\ Rows(insertLines(scr, n)) = Inserted(scr, scr.cuY, OrOne(n))

\* A line that scrolls off the whole screen is the last line of the history,
\* which loses its first one only when it is full; and who looks at older
\* lines goes on seeing the same, or jumps to the end when the line dropped was
\* the first one seen (TEScreen.C:185-196, 1140-1175).
HistoryKeeps ==
    [][scr'.hist # scr.hist =>
          LET h == scr.hist
              g == scr'.hist
              seen == SubSeq(h, scr.histCursor + 1, Len(h))
              first == g[Len(g)]
          IN  /\ first \o Blanks(scr.columns - Len(first)) = Line(scr, 0)
              /\ SubSeq(g, 1, Len(g) - 1) = IF Len(h) < scr.histMaxLines THEN h ELSE Tail(h)
              /\ IF seen = <<>> \/ (seen = h /\ Len(g) = Len(h))
                 THEN scr'.histCursor = Len(g)
                 ELSE SubSeq(g, scr'.histCursor + 1, Len(g) - 1) = seen]_vars
=============================================================================
