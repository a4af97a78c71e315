--------------------------- MODULE TEScreenProofs ---------------------------
(***************************************************************************)
(* Theorems about konsole's screen, for windows of every size, numbers of  *)
(* every size and every length of the history: no operation takes the      *)
(* cursor, the margins or the view out of the screen, and none touches a   *)
(* cell outside of the image but those StaysInside names.  Characters are  *)
(* edited and lines scrolled as in lists, which the vector of cells stands *)
(* for, and the history keeps its lines.                                   *)
(***************************************************************************)
EXTENDS TEScreen, FiniteSetTheorems, SequenceTheorems, TLAPS

Fields == {"lines", "columns", "cuX", "cuY", "tmargin", "bmargin", "mode", "saved",
           "sa_cuX", "sa_cuY", "tabstops", "image", "hist", "histCursor", "histMaxLines",
           "sel_begin", "sel_TL", "sel_BR", "wild"}

IsScreen(s) == s = [f \in Fields |-> s[f]]

\* The inductive invariant: a record with these fields, and their types
Good(s) == IsScreen(s) /\ Shape(s)
Inv     == Good(scr) /\ uses \subseteq Groups

\* What image operations leave alone
Same(s, t) ==
    /\ t.lines = s.lines /\ t.columns = s.columns /\ t.cuX = s.cuX /\ t.cuY = s.cuY
    /\ t.tmargin = s.tmargin /\ t.bmargin = s.bmargin
    /\ t.mode = s.mode /\ t.saved = s.saved /\ t.sa_cuX = s.sa_cuX /\ t.sa_cuY = s.sa_cuY
    /\ t.tabstops = s.tabstops /\ t.hist = s.hist /\ t.histCursor = s.histCursor
    /\ t.histMaxLines = s.histMaxLines
-----------------------------------------------------------------------------
(* Cells *)

\* What an operation needs to know of a screen
LEMMA Numbers ==
    ASSUME NEW s, Good(s)
    PROVE  /\ s.lines \in Nat \ {0} /\ s.columns \in Nat \ {0}
           /\ s.cuX \in 0..s.columns /\ s.cuY \in 0..(s.lines - 1)
           /\ s.tmargin \in 0..s.bmargin /\ s.bmargin \in 0..(s.lines - 1)
           /\ s.sa_cuX \in Nat /\ s.sa_cuY \in Nat
           /\ Last(s) = s.columns - 1 /\ Last(s) \in 0..(s.columns - 1)
           /\ s.lines * s.columns \in Int
<1>1. s.lines \in Nat \ {0} /\ s.columns \in Nat \ {0}
  BY DEF Good, Shape
<1>2. Last(s) = s.columns - 1 /\ Last(s) \in 0..(s.columns - 1)
  BY <1>1 DEF Last
<1>3. s.lines * s.columns \in Int
  BY <1>1
<1> QED BY <1>1, <1>2, <1>3 DEF Good, Shape

LEMMA Parts ==
    ASSUME NEW s, Good(s)
    PROVE  /\ IsScreen(s) /\ Same(s, s)
           /\ s.image \in [0..(s.lines * s.columns - 1) -> Cell]
           /\ s.image \in [DOMAIN s.image -> Cell]
           /\ DOMAIN s.image = 0..(s.lines * s.columns - 1)
           /\ s.sel_begin \in Int /\ s.sel_TL \in Int /\ s.sel_BR \in Int
           /\ s.wild \in BOOLEAN
<1>1. /\ IsScreen(s) /\ s.image \in [0..(s.lines * s.columns - 1) -> Cell]
      /\ s.sel_begin \in Int /\ s.sel_TL \in Int /\ s.sel_BR \in Int
      /\ s.wild \in BOOLEAN
  BY DEF Good, Shape
<1> QED BY <1>1 DEF Same

LEMMA Monotonic ==
    ASSUME NEW k \in Int, NEW m \in Int, NEW c \in Nat, k =< m
    PROVE  k * c =< m * c
<1>1. m - k \in Nat
  OBVIOUS
<1>2. (m - k) * c >= 0
  BY <1>1
<1>3. (m - k) * c = m * c - k * c
  OBVIOUS
<1>4. k * c \in Int /\ m * c \in Int
  OBVIOUS
<1> QED BY <1>2, <1>3, <1>4

\* A cell of the screen has its place in the image, lines one after the other.
LEMMA LocInside ==
    ASSUME NEW s, Good(s), NEW x \in Int, NEW y \in Int,
           0 =< x, x < s.columns, 0 =< y, y < s.lines
    PROVE  /\ loc(s, x, y) \in Int
           /\ Within(s, loc(s, x, y))
<1>1. s.lines \in Nat /\ s.columns \in Nat
  BY DEF Good, Shape
<1>2. s.lines - 1 \in Int /\ y =< s.lines - 1
  BY <1>1
<1>3. y * s.columns =< (s.lines - 1) * s.columns
  BY <1>1, <1>2, Monotonic
<1>4. (s.lines - 1) * s.columns = s.lines * s.columns - s.columns
  BY <1>1
<1>5. 0 =< y * s.columns
  BY <1>1
<1> QED BY <1>1, <1>3, <1>4, <1>5 DEF loc, Within

LEMMA LocInt ==
    ASSUME NEW s, Good(s), NEW x \in Int, NEW y \in Int
    PROVE  loc(s, x, y) \in Int
<1>1. s.columns \in Int
  BY Numbers
<1> QED BY <1>1 DEF loc

\* Places n lines apart
LEMMA LinesApart ==
    ASSUME NEW s, Good(s), NEW x \in Int, NEW y \in Int, NEW n \in Int
    PROVE  loc(s, x, y + n) = loc(s, x, y) + n * s.columns
<1>1. s.columns \in Int
  BY DEF Good, Shape
<1>2. (y + n) * s.columns = y * s.columns + n * s.columns
  BY <1>1
<1>3. y * s.columns \in Int /\ n * s.columns \in Int
  BY <1>1
<1> QED BY <1>1, <1>2, <1>3 DEF loc
-----------------------------------------------------------------------------
(* Images *)

LEMMA Frame ==
    ASSUME NEW s, Good(s), NEW t, IsScreen(t), Same(s, t),
           t.image \in [DOMAIN s.image -> Cell],
           t.sel_begin \in Int, t.sel_TL \in Int, t.sel_BR \in Int, t.wild \in BOOLEAN
    PROVE  Good(t)
BY DEF Good, Shape, Same

LEMMA ClearSelection ==
    ASSUME NEW s, Good(s), NEW t, t = clearSelection(s)
    PROVE  Good(t) /\ Same(s, t) /\ t.image = s.image /\ t.wild = s.wild
<1>1. IsScreen(t)
  BY DEF Good, IsScreen, Fields, clearSelection
<1>2. /\ Same(s, t) /\ t.image = s.image /\ t.wild = s.wild
      /\ t.sel_begin = -1 /\ t.sel_TL = -1 /\ t.sel_BR = -1
  BY DEF Good, IsScreen, Fields, clearSelection, Same
<1>3. s.image \in [DOMAIN s.image -> Cell] /\ s.wild \in BOOLEAN
  BY DEF Good, Shape
<1> QED BY <1>1, <1>2, <1>3, Frame

LEMMA ClearImage ==
    ASSUME NEW s, Good(s), NEW a \in Int, NEW b \in Int, NEW c \in Cell,
           NEW t, t = clearImage(s, a, b, c)
    PROVE  /\ Good(t) /\ Same(s, t)
           /\ a > b \/ (Within(s, a) /\ Within(s, b)) => t.wild = s.wild
<1> DEFINE over == s.sel_BR > a + loc(s, 0, s.histCursor) /\ s.sel_TL < b + loc(s, 0, s.histCursor)
           u == IF over THEN clearSelection(s) ELSE s
           img == [i \in DOMAIN s.image |-> IF a =< i /\ i =< b THEN c ELSE s.image[i]]
<1>1. Good(u) /\ Same(s, u) /\ u.image = s.image /\ u.wild = s.wild
  BY ClearSelection DEF Same
<1>2. img \in [DOMAIN s.image -> Cell]
  BY DEF Good, Shape
<1>3. u.sel_begin \in Int /\ u.sel_TL \in Int /\ u.sel_BR \in Int
      /\ u.wild \in BOOLEAN /\ u.image \in [DOMAIN s.image -> Cell] /\ IsScreen(u)
  BY <1>1 DEF Good, Shape
<1>4. CASE a > b \/ (Within(s, a) /\ Within(s, b))
  <2>1. t = [u EXCEPT !.image = img]
    BY <1>4 DEF clearImage
  <2> HIDE DEF u, img
  <2>2. IsScreen(t) /\ Same(u, t) /\ t.image = img /\ t.wild = u.wild
        /\ t.sel_begin = u.sel_begin /\ t.sel_TL = u.sel_TL /\ t.sel_BR = u.sel_BR
    BY <1>3, <2>1 DEF IsScreen, Fields, Same
  <2>3. Same(s, t)
    BY <1>1, <2>2 DEF Same
  <2> QED BY <1>1, <1>2, <1>3, <2>2, <2>3, Frame
<1>5. CASE ~(a > b \/ (Within(s, a) /\ Within(s, b)))
  <2>1. t = [u EXCEPT !.wild = TRUE]
    BY <1>5 DEF clearImage
  <2> HIDE DEF u
  <2>2. IsScreen(t) /\ Same(u, t) /\ t.image = u.image /\ t.wild = TRUE
        /\ t.sel_begin = u.sel_begin /\ t.sel_TL = u.sel_TL /\ t.sel_BR = u.sel_BR
    BY <1>3, <2>1 DEF IsScreen, Fields, Same
  <2>3. Same(s, t)
    BY <1>1, <2>2 DEF Same
  <2> QED BY <1>1, <1>3, <1>5, <2>2, <2>3, Frame
<1> QED BY <1>4, <1>5

LEMMA MoveImage ==
    ASSUME NEW s, Good(s), NEW dst \in Int, NEW a \in Int, NEW b \in Int,
           NEW t, t = moveImage(s, dst, a, b)
    PROVE  /\ Good(t) /\ Same(s, t)
           /\ t.sel_begin = s.sel_begin /\ t.sel_TL = s.sel_TL /\ t.sel_BR = s.sel_BR
           /\ a = b + 1 \/ (/\ a =< b /\ Within(s, a) /\ Within(s, b)
                            /\ Within(s, dst) /\ Within(s, dst + b - a)) => t.wild = s.wild
<1> DEFINE fits == a =< b /\ Within(s, a) /\ Within(s, b) /\ Within(s, dst) /\ Within(s, dst + b - a)
           img == [i \in DOMAIN s.image |-> IF dst =< i /\ i =< dst + b - a
                                            THEN s.image[i - dst + a] ELSE s.image[i]]
<1>1. s.sel_begin \in Int /\ s.sel_TL \in Int /\ s.sel_BR \in Int
      /\ s.wild \in BOOLEAN /\ s.image \in [DOMAIN s.image -> Cell] /\ IsScreen(s) /\ Same(s, s)
  BY Parts
<1>2. CASE a = b + 1
  BY <1>1, <1>2 DEF moveImage
<1>3. CASE a # b + 1 /\ fits
  <2>1. img \in [DOMAIN s.image -> Cell]
    <3>1. s.image \in [0..(s.lines * s.columns - 1) -> Cell] /\ s.lines * s.columns \in Int
      BY Numbers, Parts
    <3>2. \A i \in DOMAIN s.image : dst =< i /\ i =< dst + b - a => i - dst + a \in DOMAIN s.image
      BY <1>3, <3>1 DEF Within
    <3> QED BY <3>1, <3>2
  <2>2. t = [s EXCEPT !.image = img]
    BY <1>3 DEF moveImage
  <2> HIDE DEF img
  <2>3. IsScreen(t) /\ Same(s, t) /\ t.image = img /\ t.wild = s.wild
        /\ t.sel_begin = s.sel_begin /\ t.sel_TL = s.sel_TL /\ t.sel_BR = s.sel_BR
    BY <1>1, <2>2 DEF IsScreen, Fields, Same
  <2> QED BY <1>1, <2>1, <2>3, Frame
<1>4. CASE a # b + 1 /\ ~fits
  <2>1. t = [s EXCEPT !.wild = TRUE]
    BY <1>4 DEF moveImage
  <2>2. IsScreen(t) /\ Same(s, t) /\ t.image = s.image /\ t.wild = TRUE
        /\ t.sel_begin = s.sel_begin /\ t.sel_TL = s.sel_TL /\ t.sel_BR = s.sel_BR
    BY <1>1, <2>1 DEF IsScreen, Fields, Same
  <2> QED BY <1>1, <1>4, <2>2, Frame
<1> QED BY <1>2, <1>3, <1>4

LEMMA ClearLines ==
    ASSUME NEW s, Good(s), NEW from \in Int, NEW to \in Int, NEW t, t = clearLines(s, from, to)
    PROVE  /\ Good(t) /\ Same(s, t)
           /\ (0 =< from /\ from =< to /\ to < s.lines) \/ from = to + 1 => t.wild = s.wild
<1>1. Last(s) \in Int /\ 0 =< Last(s) /\ Last(s) < s.columns /\ s.columns \in Nat \ {0} /\ s.lines \in Nat
  BY Numbers
<1>2. loc(s, 0, from) \in Int /\ loc(s, Last(s), to) \in Int
  BY <1>1, LocInt
<1>3. Blank \in Cell
  BY DEF Cell
<1>4. Good(t) /\ Same(s, t)
  BY <1>2, <1>3, ClearImage DEF clearLines
<1>5. ASSUME 0 =< from, from =< to, to < s.lines
      PROVE  t.wild = s.wild
  <2>1. Within(s, loc(s, 0, from)) /\ Within(s, loc(s, Last(s), to))
    BY <1>1, <1>5, LocInside
  <2> QED BY <1>2, <1>3, <2>1, ClearImage DEF clearLines
<1>6. ASSUME from = to + 1
      PROVE  t.wild = s.wild
  <2>1. loc(s, 0, to + 1) = loc(s, 0, to) + 1 * s.columns
    <3>1. 0 \in Int /\ 1 \in Int
      OBVIOUS
    <3> QED BY <3>1, LinesApart
  <2>2. loc(s, Last(s), to) = loc(s, 0, to) + Last(s)
    <3>1. to * s.columns \in Int
      BY <1>1
    <3> QED BY <1>1, <3>1 DEF loc
  <2>3. loc(s, 0, to) \in Int
    BY LocInt
  <2>4. loc(s, 0, from) > loc(s, Last(s), to)
    BY <1>1, <1>6, <2>1, <2>2, <2>3 DEF Last
  <2> QED BY <1>2, <1>3, <2>4, ClearImage DEF clearLines
<1> QED BY <1>4, <1>5, <1>6

LEMMA SelectionMoves ==
    ASSUME NEW s, Good(s), NEW from \in Int, NEW by \in Int, NEW t, t = MoveSelection(s, from, by)
    PROVE  Good(t) /\ Same(s, t) /\ t.wild = s.wild /\ t.image = s.image
<1>1. CASE from = 0 /\ s.sel_begin >= 0
  <2> DEFINE d == by * s.columns
  <2>0. d \in Int
    BY Numbers
  <2>1. s.sel_TL + d \in Int /\ s.sel_BR + d \in Int
        /\ s.sel_begin \in Int /\ s.wild \in BOOLEAN /\ s.image \in [DOMAIN s.image -> Cell]
    <3> HIDE DEF d
    <3> QED BY <2>0, Parts
  <2> DEFINE tl == s.sel_TL + by * s.columns
             br == s.sel_BR + by * s.columns
  <2>2. t = [s EXCEPT !.sel_TL = tl, !.sel_BR = br]
    BY <1>1 DEF MoveSelection
  <2>3. tl \in Int /\ br \in Int
    BY <2>1
  <2> HIDE DEF tl, br
  <2>4. IsScreen(t) /\ Same(s, t) /\ t.image = s.image /\ t.wild = s.wild
        /\ t.sel_begin = s.sel_begin /\ t.sel_TL = tl /\ t.sel_BR = br
    BY <2>2 DEF Good, IsScreen, Fields, Same
  <2> QED BY <2>1, <2>3, <2>4, Frame
<1>2. CASE ~(from = 0 /\ s.sel_begin >= 0)
  BY <1>2, ClearSelection DEF MoveSelection
<1> QED BY <1>1, <1>2
-----------------------------------------------------------------------------
(* Scrolling *)

LEMMA LocOrdered ==
    ASSUME NEW s, Good(s), NEW x \in Int, NEW y \in Int, NEW v \in Int, NEW w \in Int,
           x =< v, y =< w
    PROVE  loc(s, x, y) =< loc(s, v, w)
<1>1. s.columns \in Nat
  BY Numbers
<1>2. y * s.columns =< w * s.columns
  BY <1>1, Monotonic
<1>3. y * s.columns \in Int /\ w * s.columns \in Int
  BY <1>1
<1> QED BY <1>2, <1>3 DEF loc

\* Whole lines, from line a to line b, that are moved by n lines
LEMMA MoveLines ==
    ASSUME NEW s, Good(s), NEW a \in Nat, NEW b \in Nat, NEW n \in Int,
           a =< b, b < s.lines, 0 =< a + n, b + n < s.lines,
           NEW t, t = moveImage(s, loc(s, 0, a + n), loc(s, 0, a), loc(s, Last(s), b))
    PROVE  Good(t) /\ Same(s, t) /\ t.wild = s.wild
<1>1. Last(s) \in Int /\ 0 =< Last(s) /\ Last(s) < s.columns /\ s.columns \in Int /\ s.lines \in Int
  BY Numbers
<1>2. /\ loc(s, 0, a + n) \in Int /\ loc(s, 0, a) \in Int /\ loc(s, Last(s), b) \in Int
      /\ Within(s, loc(s, 0, a + n)) /\ Within(s, loc(s, 0, a)) /\ Within(s, loc(s, Last(s), b))
  BY <1>1, LocInside
<1>3. loc(s, 0, a) =< loc(s, Last(s), b)
  BY <1>1, LocOrdered
<1>4. loc(s, 0, a + n) + loc(s, Last(s), b) - loc(s, 0, a) = loc(s, Last(s), b + n)
  <2>1. loc(s, 0, a + n) = loc(s, 0, a) + n * s.columns
    BY LinesApart, 0 \in Int, a \in Int
  <2>2. loc(s, Last(s), b + n) = loc(s, Last(s), b) + n * s.columns
    <3>1. PICK v \in Int, w \in Int : v = Last(s) /\ w = b
      BY <1>1
    <3>2. loc(s, v, w + n) = loc(s, v, w) + n * s.columns
      BY LinesApart
    <3> QED BY <3>1, <3>2
  <2>3. n * s.columns \in Int
    BY <1>1
  <2> QED BY <1>2, <2>1, <2>2, <2>3
<1>5. Within(s, loc(s, Last(s), b + n))
  BY <1>1, LocInside
<1> HIDE DEF Good
<1> QED BY <1>2, <1>3, <1>4, <1>5, MoveImage

LEMMA ScrollUp ==
    ASSUME NEW s, Good(s), NEW from \in Nat, NEW n \in Int, NEW t, t = scrollUp(s, from, n)
    PROVE  Good(t) /\ Same(s, t) /\ t.wild = s.wild
<1>1. CASE n =< 0 \/ from + n > s.bmargin
  BY <1>1, Parts DEF scrollUp
<1>2. CASE ~(n =< 0 \/ from + n > s.bmargin)
  <2> DEFINE m == moveImage(s, loc(s, 0, from), loc(s, 0, from + n), loc(s, Last(s), s.bmargin))
             c == clearLines(m, s.bmargin - n + 1, s.bmargin)
             a == from + n
             d == 0 - n
  <2>1. /\ a \in Nat /\ s.bmargin \in Nat /\ s.bmargin < s.lines /\ s.lines \in Int
        /\ a =< s.bmargin /\ n > 0 /\ d \in Int /\ a + d = from
        /\ s.bmargin + d < s.lines /\ 0 =< s.bmargin - n + 1
    BY <1>2, Numbers
  <2>2. m = moveImage(s, loc(s, 0, a + d), loc(s, 0, a), loc(s, Last(s), s.bmargin))
    <3> HIDE DEF d
    <3> QED BY <2>1
  <2>3. Good(m) /\ Same(s, m) /\ m.wild = s.wild
    <3> HIDE DEF m, a, d
    <3>1. 0 =< a + d
      BY <2>1
    <3> QED BY <2>1, <2>2, <3>1, MoveLines
  <2>4. Good(c) /\ Same(m, c) /\ c.wild = m.wild
    <3> HIDE DEF m
    <3>1. m.lines = s.lines
      BY <2>3 DEF Same
    <3> QED BY <2>1, <2>3, <3>1, ClearLines
  <2>5. t = MoveSelection(c, from, from - n)
    BY <1>2 DEF scrollUp
  <2> HIDE DEF m, c
  <2>6. Good(t) /\ Same(c, t) /\ t.wild = c.wild
    BY <2>4, <2>5, SelectionMoves
  <2> QED BY <2>3, <2>4, <2>6 DEF Same
<1> QED BY <1>1, <1>2

LEMMA ScrollDown ==
    ASSUME NEW s, Good(s), NEW from \in Nat, NEW k \in Int, NEW t, t = scrollDown(s, from, k)
    PROVE  Good(t) /\ Same(s, t) /\ t.wild = s.wild
<1>1. CASE k =< 0 \/ from > s.bmargin
  BY <1>1, Parts DEF scrollDown
<1>2. CASE ~(k =< 0 \/ from > s.bmargin)
  <2> DEFINE n == Lower(k, s.bmargin - from)
             b == s.bmargin - n
             m == moveImage(s, loc(s, 0, from + n), loc(s, 0, from), loc(s, Last(s), b))
             c == clearLines(m, from, from + n - 1)
  <2>1. /\ n \in Nat /\ b \in Nat /\ from =< b /\ b + n = s.bmargin
        /\ b < s.lines /\ b + n < s.lines /\ s.lines \in Int
    BY <1>2, Numbers DEF Lower
  <2>2. t = MoveSelection(c, from, n - from)
    BY <1>2 DEF scrollDown
  <2>3. Good(m) /\ Same(s, m) /\ m.wild = s.wild
    <3> HIDE DEF n, b
    <3> QED BY <2>1, MoveLines
  <2>4. m.lines = s.lines
    BY <2>3 DEF Same
  <2>5. Good(c) /\ Same(m, c) /\ c.wild = m.wild
    <3> HIDE DEF n, b, m
    <3>1. CASE n = 0
      <4>1. from = (from + n - 1) + 1 /\ from + n - 1 \in Int
        BY <3>1
      <4> QED BY <2>3, <4>1, ClearLines
    <3>2. CASE n # 0
      <4>1. from =< from + n - 1 /\ from + n - 1 < m.lines /\ from + n - 1 \in Int
        BY <2>1, <2>4, <3>2
      <4> QED BY <2>3, <4>1, ClearLines
    <3> QED BY <3>1, <3>2
  <2>6. Good(t) /\ Same(c, t) /\ t.wild = c.wild
    <3> HIDE DEF c
    <3>1. n - from \in Int
      BY <2>1
    <3> QED BY <2>2, <2>5, <3>1, SelectionMoves
  <2> QED BY <2>3, <2>5, <2>6 DEF Same
<1> QED BY <1>1, <1>2
-----------------------------------------------------------------------------
(* History *)

LEMMA PartOfLine ==
    ASSUME NEW m \in Int, NEW n \in Int, m =< n, NEW S \in SUBSET (m..(n - 1))
    PROVE  Cardinality(S) \in 0..(n - m)
<1>0. n - 1 \in Int
  OBVIOUS
<1>1. IsFiniteSet(m..(n - 1)) /\ Cardinality(m..(n - 1)) = IF m > n - 1 THEN 0 ELSE (n - 1) - m + 1
  BY <1>0, FS_Interval
<1>2. IsFiniteSet(S) /\ Cardinality(S) =< Cardinality(m..(n - 1))
  BY <1>1, FS_Subset
<1>3. Cardinality(S) \in Nat
  BY <1>2, FS_CardinalityType
<1>4. Cardinality(S) =< n - m
  BY <1>1, <1>2, <1>3
<1> QED BY <1>3, <1>4

LEMMA FirstLineCells ==
    ASSUME NEW s, Good(s)
    PROVE  FirstLine(s) \in Seq(Cell)
<1> DEFINE upto == {x \in 0..Last(s) : \E y \in x..Last(s) : s.image[y] # Blank}
           len == Cardinality(upto)
<1>1. s.columns \in Nat \ {0} /\ s.lines \in Nat \ {0} /\ Last(s) = s.columns - 1
  BY Numbers
<1>2. len \in 0..s.columns
  <2>1. upto \subseteq 0..(s.columns - 1)
    BY <1>1
  <2> HIDE DEF upto
  <2>2. 0 \in Int /\ s.columns \in Int /\ 0 =< s.columns
    BY <1>1
  <2>3. upto \in SUBSET (0..(s.columns - 1))
    BY <2>1
  <2>4. len \in 0..(s.columns - 0)
    BY <2>2, <2>3, PartOfLine
  <2> QED BY <2>4, <1>1, <2>2
<1>3. FirstLine(s) = [x \in 1..len |-> s.image[x - 1]]
  BY DEF FirstLine
<1> HIDE DEF len
<1>4. \A x \in 1..len : s.image[x - 1] \in Cell
  <2>1. s.columns =< s.lines * s.columns
    <3>1. 1 * s.columns =< s.lines * s.columns
      BY <1>1, Monotonic
    <3> QED BY <1>1, <3>1
  <2>2. s.image \in [0..(s.lines * s.columns - 1) -> Cell] /\ s.lines * s.columns \in Int
    BY Parts, Numbers
  <2>3. \A x \in 1..len : x - 1 \in 0..(s.lines * s.columns - 1)
    BY <1>1, <1>2, <2>1, <2>2
  <2> QED BY <2>2, <2>3
<1> QED BY <1>2, <1>3, <1>4

\* A screen whose cursor, history and selection changed in their ranges
LEMMA Reframe ==
    ASSUME NEW s, Good(s), NEW t, IsScreen(t),
           t.lines = s.lines, t.columns = s.columns, t.image = s.image, t.tabstops = s.tabstops,
           t.tmargin \in 0..t.bmargin, t.bmargin \in 0..(s.lines - 1),
           t.tmargin = t.bmargin => s.lines = 1,
           t.mode \subseteq Mode, t.saved \subseteq Kept,
           t.cuX \in 0..s.columns, t.cuY \in 0..(s.lines - 1), t.sa_cuX \in Nat, t.sa_cuY \in Nat,
           t.hist \in Seq(Seq(Cell)), t.histMaxLines = s.histMaxLines, Len(t.hist) =< s.histMaxLines,
           t.histCursor \in 0..Len(t.hist),
           t.sel_begin \in Int, t.sel_TL \in Int, t.sel_BR \in Int, t.wild \in BOOLEAN
    PROVE  Good(t)
BY DEF Good, Shape

LEMMA Rest ==
    ASSUME NEW s, Good(s)
    PROVE  /\ s.mode \subseteq Mode /\ s.saved \subseteq Kept
           /\ s.cuX \in 0..s.columns /\ s.cuY \in 0..(s.lines - 1) /\ s.sa_cuX \in Nat /\ s.sa_cuY \in Nat
           /\ s.hist \in Seq(Seq(Cell)) /\ s.histMaxLines \in Nat /\ Len(s.hist) =< s.histMaxLines
           /\ s.histCursor \in 0..Len(s.hist)
           /\ s.tabstops \subseteq 0..(s.columns - 1)
           /\ s.tmargin \in 0..s.bmargin /\ s.bmargin \in 0..(s.lines - 1)
           /\ s.tmargin = s.bmargin => s.lines = 1
BY DEF Good, Shape

\* The line l is added to the history of s, which becomes that of t.
Added(s, t, l) ==
    IF Len(s.hist) >= s.histMaxLines
    THEN LET c == IF s.histCursor = 0 THEN Len(s.hist) ELSE s.histCursor
         IN  /\ t.hist = Append(Tail(s.hist), l)
             /\ t.histCursor = IF c # Len(s.hist) THEN c - 1 ELSE c
    ELSE /\ t.hist = Append(s.hist, l)
         /\ t.histCursor = IF s.histCursor = Len(s.hist) THEN s.histCursor + 1 ELSE s.histCursor

Appended(s, t) ==
    IF s.histMaxLines = 0 THEN t.hist = s.hist ELSE Added(s, t, FirstLine(s))

LEMMA AddHistLine ==
    ASSUME NEW s, Good(s), NEW t, t = addHistLine(s)
    PROVE  /\ Good(t) /\ t.wild = s.wild /\ t.cuX = s.cuX /\ t.image = s.image
           /\ t.columns = s.columns /\ t.lines = s.lines /\ t.tmargin = s.tmargin /\ t.bmargin = s.bmargin
           /\ Appended(s, t)
<1> DEFINE l == FirstLine(s)
           h == s.hist
<1>0. /\ IsScreen(s) /\ l \in Seq(Cell) /\ h \in Seq(Seq(Cell)) /\ Len(h) \in Nat
      /\ s.histMaxLines \in Nat /\ Len(h) =< s.histMaxLines /\ s.histCursor \in 0..Len(h)
      /\ s.columns \in Int
  BY FirstLineCells, Parts, Rest, Numbers
<1> HIDE DEF l
<1>1. CASE s.histMaxLines = 0
  BY <1>1 DEF addHistLine, Appended
<1>2. CASE s.histMaxLines # 0 /\ Len(h) >= s.histMaxLines
  <2> DEFINE g == Append(Tail(h), l)
             c == IF s.histCursor = 0 THEN Len(h) ELSE s.histCursor
             d == IF c # Len(h) THEN c - 1 ELSE c
  <2>1. Tail(h) \in Seq(Seq(Cell)) /\ Len(Tail(h)) = Len(h) - 1
    BY <1>0, <1>2
  <2>2. g \in Seq(Seq(Cell)) /\ Len(g) = Len(h)
    BY <1>0, <1>2, <2>1
  <2>3. d \in 0..Len(h)
    BY <1>0, <1>2
  <2>4. t = [s EXCEPT !.hist = g, !.histCursor = d]
    BY <1>2 DEF addHistLine, l
  <2> HIDE DEF g, d
  <2>5. /\ IsScreen(t) /\ t.hist = g /\ t.histCursor = d /\ t.wild = s.wild
        /\ t.cuX = s.cuX /\ t.cuY = s.cuY /\ t.sa_cuX = s.sa_cuX /\ t.sa_cuY = s.sa_cuY
        /\ t.mode = s.mode /\ t.saved = s.saved /\ t.tabstops = s.tabstops
        /\ t.lines = s.lines /\ t.columns = s.columns /\ t.image = s.image
        /\ t.tmargin = s.tmargin /\ t.bmargin = s.bmargin /\ t.histMaxLines = s.histMaxLines
        /\ t.sel_begin = s.sel_begin /\ t.sel_TL = s.sel_TL /\ t.sel_BR = s.sel_BR
    BY <1>0, <2>4 DEF IsScreen, Fields
  <2>6. Good(t)
    BY <1>0, <2>2, <2>3, <2>5, Rest, Parts, Reframe
  <2>7. Appended(s, t)
    BY <1>2, <2>5 DEF Appended, Added, g, d, l
  <2> QED BY <2>5, <2>6, <2>7
<1>3. CASE s.histMaxLines # 0 /\ ~(Len(h) >= s.histMaxLines)
  <2> DEFINE g == Append(h, l)
             d == IF s.histCursor = Len(h) THEN s.histCursor + 1 ELSE s.histCursor
             u == [s EXCEPT !.hist = g, !.histCursor = d]
             tl == s.sel_TL + s.columns
             br == s.sel_BR + s.columns
             be == s.sel_begin + s.columns
  <2>1. g \in Seq(Seq(Cell)) /\ Len(g) = Len(h) + 1 /\ Len(g) =< s.histMaxLines
    BY <1>0, <1>3
  <2>2. d \in 0..Len(g)
    BY <1>0, <2>1
  <2>3. tl \in Int /\ br \in Int /\ be \in Int
    BY <1>0, Parts
  <2>4. t = IF s.sel_TL > 0 THEN [u EXCEPT !.sel_TL = tl, !.sel_BR = br, !.sel_begin = be] ELSE u
    BY <1>3 DEF addHistLine, l
  <2> HIDE DEF g, d, tl, br, be
  <2>5. /\ IsScreen(t) /\ t.hist = g /\ t.histCursor = d /\ t.wild = s.wild
        /\ t.cuX = s.cuX /\ t.cuY = s.cuY /\ t.sa_cuX = s.sa_cuX /\ t.sa_cuY = s.sa_cuY
        /\ t.mode = s.mode /\ t.saved = s.saved /\ t.tabstops = s.tabstops
        /\ t.lines = s.lines /\ t.columns = s.columns /\ t.image = s.image
        /\ t.tmargin = s.tmargin /\ t.bmargin = s.bmargin /\ t.histMaxLines = s.histMaxLines
        /\ t.sel_begin \in {s.sel_begin, be} /\ t.sel_TL \in {s.sel_TL, tl} /\ t.sel_BR \in {s.sel_BR, br}
    <3>1. CASE s.sel_TL > 0
      <4>1. t = [s EXCEPT !.hist = g, !.histCursor = d, !.sel_TL = tl, !.sel_BR = br, !.sel_begin = be]
        BY <1>0, <2>4, <3>1 DEF IsScreen, Fields
      <4>2. IsScreen(t)
        BY <1>0, <4>1 DEF IsScreen, Fields
      <4>3. t.hist = g /\ t.histCursor = d /\ t.sel_begin = be /\ t.sel_TL = tl /\ t.sel_BR = br
        BY <1>0, <4>1 DEF IsScreen, Fields
      <4>4. /\ t.cuX = s.cuX /\ t.cuY = s.cuY /\ t.sa_cuX = s.sa_cuX /\ t.sa_cuY = s.sa_cuY
            /\ t.mode = s.mode /\ t.saved = s.saved /\ t.tabstops = s.tabstops /\ t.wild = s.wild
        BY <1>0, <4>1 DEF IsScreen, Fields
      <4>5. /\ t.lines = s.lines /\ t.columns = s.columns /\ t.image = s.image
            /\ t.tmargin = s.tmargin /\ t.bmargin = s.bmargin /\ t.histMaxLines = s.histMaxLines
        BY <1>0, <4>1 DEF IsScreen, Fields
      <4> QED BY <4>2, <4>3, <4>4, <4>5
    <3>2. CASE ~(s.sel_TL > 0)
      <4>1. t = [s EXCEPT !.hist = g, !.histCursor = d]
        BY <2>4, <3>2
      <4> QED BY <1>0, <4>1 DEF IsScreen, Fields
    <3> QED BY <3>1, <3>2
  <2>6. t.sel_begin \in Int /\ t.sel_TL \in Int /\ t.sel_BR \in Int
    BY <2>3, <2>5, Parts
  <2>7. Good(t)
    BY <1>0, <2>1, <2>2, <2>5, <2>6, Rest, Parts, Reframe
  <2>8. Appended(s, t)
    BY <1>3, <2>5 DEF Appended, Added, g, d, l
  <2> QED BY <2>5, <2>7, <2>8
<1> QED BY <1>1, <1>2, <1>3
-----------------------------------------------------------------------------
(* Cursor *)

\* A screen where only the cursor moved
Still(s, t) ==
    /\ t.lines = s.lines /\ t.columns = s.columns /\ t.image = s.image
    /\ t.tmargin = s.tmargin /\ t.bmargin = s.bmargin /\ t.mode = s.mode /\ t.saved = s.saved
    /\ t.sa_cuX = s.sa_cuX /\ t.sa_cuY = s.sa_cuY /\ t.tabstops = s.tabstops
    /\ t.hist = s.hist /\ t.histCursor = s.histCursor /\ t.histMaxLines = s.histMaxLines
    /\ t.sel_begin = s.sel_begin /\ t.sel_TL = s.sel_TL /\ t.sel_BR = s.sel_BR /\ t.wild = s.wild

At(s, x, y) == [s EXCEPT !.cuX = x, !.cuY = y]

LEMMA SetXY ==
    ASSUME NEW s, Good(s), NEW x \in 0..s.columns, NEW y \in 0..(s.lines - 1),
           NEW t, t = At(s, x, y)
    PROVE  Good(t) /\ Still(s, t) /\ t.wild = s.wild /\ t.cuX = x /\ t.cuY = y
<1>0. IsScreen(s)
  BY Parts
<1>1. IsScreen(t) /\ t.cuX = x /\ t.cuY = y
  BY <1>0 DEF IsScreen, Fields, At
<1>2. Still(s, t)
  BY <1>0 DEF IsScreen, Fields, At, Still
<1>3. t.cuX \in 0..s.columns /\ t.cuY \in 0..(s.lines - 1)
  BY <1>1
<1>4. Good(t)
  BY <1>1, <1>2, <1>3 DEF Good, Shape, Still
<1> QED BY <1>1, <1>2, <1>4 DEF Still

LEMMA SetX ==
    ASSUME NEW s, Good(s), NEW x \in 0..s.columns, NEW t, t = [s EXCEPT !.cuX = x]
    PROVE  Good(t) /\ t.wild = s.wild /\ t.columns = s.columns /\ t.lines = s.lines
           /\ t.cuX = x /\ t.cuY = s.cuY /\ t.bmargin = s.bmargin /\ t.tmargin = s.tmargin
<1>0. IsScreen(s) /\ s.cuY \in 0..(s.lines - 1)
  BY Parts, Numbers
<1>1. t = At(s, x, s.cuY)
  BY <1>0 DEF IsScreen, Fields, At
<1> QED BY <1>0, <1>1, SetXY DEF Still

LEMMA SetY ==
    ASSUME NEW s, Good(s), NEW y \in 0..(s.lines - 1), NEW t, t = [s EXCEPT !.cuY = y]
    PROVE  Good(t) /\ t.wild = s.wild /\ t.columns = s.columns /\ t.lines = s.lines
           /\ t.cuX = s.cuX /\ t.cuY = y
<1>0. IsScreen(s) /\ s.cuX \in 0..s.columns
  BY Parts, Numbers
<1>1. t = At(s, s.cuX, y)
  BY <1>0 DEF IsScreen, Fields, At
<1> QED BY <1>0, <1>1, SetXY DEF Still

LEMMA MoveCursor ==
    ASSUME NEW s, Good(s), NEW n \in Nat,
           NEW t \in {cursorUp(s, n), cursorDown(s, n), cursorLeft(s, n), cursorRight(s, n),
                      setCursorX(s, n), home(s), Return(s), BackSpace(s)}
    PROVE  Good(t) /\ t.wild = s.wild
<1>0. /\ s.columns \in Nat \ {0} /\ Last(s) = s.columns - 1 /\ s.cuX \in 0..s.columns
      /\ s.lines \in Nat \ {0} /\ s.cuY \in 0..(s.lines - 1)
      /\ s.tmargin \in 0..s.bmargin /\ s.bmargin \in 0..(s.lines - 1)
      /\ OrOne(n) \in Nat \ {0}
  BY Numbers DEF OrOne
<1>1. CASE t = cursorUp(s, n)
  <2> DEFINE x == Lower(Last(s), s.cuX)
             y == Higher(IF s.cuY < s.tmargin THEN 0 ELSE s.tmargin, s.cuY - OrOne(n))
  <2>1. x \in 0..s.columns /\ y \in 0..(s.lines - 1)
    BY <1>0 DEF Lower, Higher
  <2>2. t = At(s, x, y)
    BY <1>1 DEF cursorUp, At
  <2> HIDE DEF x, y
  <2> QED BY <2>1, <2>2, SetXY
<1>2. CASE t = cursorDown(s, n)
  <2> DEFINE x == Lower(Last(s), s.cuX)
             y == Lower(IF s.cuY > s.bmargin THEN s.lines - 1 ELSE s.bmargin, s.cuY + OrOne(n))
  <2>1. x \in 0..s.columns /\ y \in 0..(s.lines - 1)
    BY <1>0 DEF Lower
  <2>2. t = At(s, x, y)
    BY <1>2 DEF cursorDown, At
  <2> HIDE DEF x, y
  <2> QED BY <2>1, <2>2, SetXY
<1>3. CASE t = home(s)
  <2>1. 0 \in 0..s.columns /\ 0 \in 0..(s.lines - 1)
    BY <1>0
  <2>2. t = At(s, 0, 0)
    BY <1>3 DEF home, At
  <2> QED BY <2>1, <2>2, SetXY
<1>4. CASE t \in {cursorLeft(s, n), cursorRight(s, n), setCursorX(s, n), Return(s), BackSpace(s)}
  <2>1. /\ Higher(0, Lower(Last(s), s.cuX) - OrOne(n)) \in 0..s.columns
        /\ Lower(Last(s), s.cuX + OrOne(n)) \in 0..s.columns
        /\ Higher(0, Lower(Last(s), OrOne(n) - 1)) \in 0..s.columns
        /\ 0 \in 0..s.columns
        /\ Higher(0, s.cuX - 1) \in 0..s.columns
    BY <1>0 DEF Lower, Higher
  <2>2. PICK x \in 0..s.columns : t = [s EXCEPT !.cuX = x]
    BY <1>4, <2>1 DEF cursorLeft, cursorRight, setCursorX, Return, BackSpace
  <2> QED BY <2>2, SetX
<1> QED BY <1>1, <1>2, <1>3, <1>4
LEMMA SetCursorY ==
    ASSUME NEW s, Good(s), NEW n \in Nat, NEW t, t = setCursorY(s, n)
    PROVE  Good(t) /\ t.wild = s.wild
<1> DEFINE y == Higher(0, Lower(s.lines - 1, OrOne(n) - 1 + (IF "Origin" \in s.mode THEN s.tmargin ELSE 0)))
<1>1. y \in 0..(s.lines - 1)
  BY Numbers DEF Lower, Higher, OrOne
<1>2. t = [s EXCEPT !.cuY = y]
  BY DEF setCursorY
<1> HIDE DEF y
<1> QED BY <1>1, <1>2, SetY

LEMMA SetMargins ==
    ASSUME NEW s, Good(s), NEW n \in Nat, NEW m \in Nat, NEW t, t = setMargins(s, n, m)
    PROVE  Good(t) /\ t.wild = s.wild
<1> DEFINE top == OrOne(n) - 1
           bot == (IF m = 0 THEN s.lines ELSE m) - 1
           y == IF "Origin" \in s.mode THEN top ELSE 0
<1>1. CASE ~(0 =< top /\ top < bot /\ bot < s.lines)
  BY <1>1 DEF setMargins
<1>2. CASE 0 =< top /\ top < bot /\ bot < s.lines
  <2>1. /\ top \in 0..bot /\ bot \in 0..(s.lines - 1) /\ top # bot
        /\ y \in 0..(s.lines - 1) /\ 0 \in 0..s.columns
    BY <1>2, Numbers DEF OrOne
  <2>2. t = [s EXCEPT !.tmargin = top, !.bmargin = bot, !.cuX = 0, !.cuY = y]
    BY <1>2 DEF setMargins
  <2> HIDE DEF top, bot, y
  <2>0. IsScreen(s)
    BY Parts
  <2>3. /\ IsScreen(t) /\ t.hist = s.hist /\ t.histCursor = s.histCursor /\ t.wild = s.wild
        /\ t.cuX = 0 /\ t.cuY = y /\ t.sa_cuX = s.sa_cuX /\ t.sa_cuY = s.sa_cuY
        /\ t.mode = s.mode /\ t.saved = s.saved /\ t.tabstops = s.tabstops
        /\ t.lines = s.lines /\ t.columns = s.columns /\ t.image = s.image
        /\ t.tmargin = top /\ t.bmargin = bot /\ t.histMaxLines = s.histMaxLines
        /\ t.sel_begin = s.sel_begin /\ t.sel_TL = s.sel_TL /\ t.sel_BR = s.sel_BR
    <3>1. IsScreen(t)
      BY <2>0, <2>2 DEF IsScreen, Fields
    <3>2. t.cuX = 0 /\ t.cuY = y /\ t.tmargin = top /\ t.bmargin = bot
      BY <2>0, <2>2 DEF IsScreen, Fields
    <3>3. /\ t.hist = s.hist /\ t.histCursor = s.histCursor /\ t.wild = s.wild
          /\ t.sa_cuX = s.sa_cuX /\ t.sa_cuY = s.sa_cuY
          /\ t.mode = s.mode /\ t.saved = s.saved /\ t.tabstops = s.tabstops
      BY <2>0, <2>2 DEF IsScreen, Fields
    <3>4. /\ t.lines = s.lines /\ t.columns = s.columns /\ t.image = s.image
          /\ t.histMaxLines = s.histMaxLines
          /\ t.sel_begin = s.sel_begin /\ t.sel_TL = s.sel_TL /\ t.sel_BR = s.sel_BR
      BY <2>0, <2>2 DEF IsScreen, Fields
    <3> QED BY <3>1, <3>2, <3>3, <3>4
  <2>4. /\ t.tmargin \in 0..t.bmargin /\ t.bmargin \in 0..(s.lines - 1) /\ t.tmargin # t.bmargin
        /\ t.cuX \in 0..s.columns /\ t.cuY \in 0..(s.lines - 1)
    BY <2>1, <2>3
  <2>5. /\ t.mode \subseteq Mode /\ t.saved \subseteq Kept /\ t.sa_cuX \in Nat /\ t.sa_cuY \in Nat
        /\ t.hist \in Seq(Seq(Cell)) /\ Len(t.hist) =< s.histMaxLines /\ t.histCursor \in 0..Len(t.hist)
        /\ t.sel_begin \in Int /\ t.sel_TL \in Int /\ t.sel_BR \in Int /\ t.wild \in BOOLEAN
    BY <2>3, Rest, Parts
  <2> QED BY <2>3, <2>4, <2>5, Reframe
<1> QED BY <1>1, <1>2

LEMMA Index ==
    ASSUME NEW s, Good(s), NEW t, t = index(s)
    PROVE  Good(t) /\ t.wild = s.wild /\ t.cuX = s.cuX /\ t.columns = s.columns
<1>1. CASE s.cuY >= s.bmargin
  <2> DEFINE u == IF s.tmargin = 0 /\ s.bmargin = s.lines - 1 THEN addHistLine(s) ELSE s
  <2>1. Good(u) /\ u.wild = s.wild /\ u.cuX = s.cuX /\ u.columns = s.columns /\ s.tmargin \in Nat
    BY AddHistLine, Numbers
  <2>2. t = scrollUp(u, s.tmargin, 1)
    BY <1>1 DEF index
  <2> HIDE DEF u
  <2>3. Good(t) /\ Same(u, t) /\ t.wild = u.wild
    BY <2>1, <2>2, ScrollUp, 1 \in Int
  <2> QED BY <2>1, <2>3 DEF Same
<1>2. CASE ~(s.cuY >= s.bmargin)
  <2> DEFINE y == s.cuY + 1
  <2>1. y \in 0..(s.lines - 1)
    BY <1>2, Numbers
  <2>2. t = [s EXCEPT !.cuY = y]
    BY <1>2 DEF index
  <2> HIDE DEF y
  <2> QED BY <2>1, <2>2, SetY
<1> QED BY <1>1, <1>2

LEMMA ReverseIndex ==
    ASSUME NEW s, Good(s), NEW t, t = reverseIndex(s)
    PROVE  Good(t) /\ t.wild = s.wild
<1>1. CASE s.cuY =< s.tmargin
  <2>1. s.tmargin \in Nat
    BY Numbers
  <2>2. PICK f \in Nat, k \in Int : t = scrollDown(s, f, k)
    BY <1>1, <2>1 DEF reverseIndex
  <2> QED BY <2>2, ScrollDown
<1>2. CASE ~(s.cuY =< s.tmargin)
  <2> DEFINE y == s.cuY - 1
  <2>1. y \in 0..(s.lines - 1)
    BY <1>2, Numbers
  <2>2. t = [s EXCEPT !.cuY = y]
    BY <1>2 DEF reverseIndex
  <2> HIDE DEF y
  <2> QED BY <2>1, <2>2, SetY
<1> QED BY <1>1, <1>2

LEMMA ReturnToFirst ==
    ASSUME NEW s, Good(s), NEW t, t = Return(s)
    PROVE  Good(t) /\ t.wild = s.wild /\ t.cuX = 0 /\ t.columns = s.columns
<1>1. 0 \in 0..s.columns
  BY Numbers
<1> QED BY <1>1, SetX DEF Return

LEMMA NewLines ==
    ASSUME NEW s, Good(s), NEW t
    PROVE  /\ t = NextLine(s) => Good(t) /\ t.wild = s.wild /\ t.cuX = 0 /\ t.columns = s.columns
           /\ t = NewLine(s) => Good(t) /\ t.wild = s.wild
BY ReturnToFirst, Index DEF NextLine, NewLine
-----------------------------------------------------------------------------
(* Editing *)

\* Columns x..v are cleared in the cursor's line; x may be right of v by one.
LEMMA ClearColumns ==
    ASSUME NEW s, Good(s), NEW x \in Int, NEW v \in Int,
           NEW t, t = clearImage(s, loc(s, x, s.cuY), loc(s, v, s.cuY), Blank)
    PROVE  /\ Good(t) /\ Same(s, t)
           /\ (0 =< x /\ x =< v /\ v =< Last(s)) \/ x > v => t.wild = s.wild
<1>1. /\ s.columns \in Int /\ Last(s) = s.columns - 1 /\ s.lines \in Int
      /\ s.cuY \in Int /\ 0 =< s.cuY /\ s.cuY < s.lines
  BY Numbers
<1>2. loc(s, x, s.cuY) \in Int /\ loc(s, v, s.cuY) \in Int /\ Blank \in Cell
  BY <1>1, LocInt DEF Cell
<1>3. Good(t) /\ Same(s, t)
  BY <1>2, ClearImage
<1>4. ASSUME 0 =< x, x =< v, v =< Last(s)
      PROVE  t.wild = s.wild
  <2>1. x < s.columns /\ v < s.columns /\ 0 =< v
    BY <1>1, <1>4
  <2>2. Within(s, loc(s, x, s.cuY)) /\ Within(s, loc(s, v, s.cuY))
    BY <1>1, <1>4, <2>1, LocInside
  <2> QED BY <1>2, <2>2, ClearImage
<1>5. ASSUME x > v
      PROVE  t.wild = s.wild
  <2>1. s.cuY * s.columns \in Int
    BY <1>1
  <2>2. loc(s, x, s.cuY) > loc(s, v, s.cuY)
    BY <1>5, <2>1 DEF loc
  <2> QED BY <1>2, <2>2, ClearImage
<1> QED BY <1>3, <1>4, <1>5

\* Columns x..v of the cursor's line are moved to column d.
LEMMA MoveColumns ==
    ASSUME NEW s, Good(s), NEW d \in Int, NEW x \in Int, NEW v \in Int,
           NEW t, t = moveImage(s, loc(s, d, s.cuY), loc(s, x, s.cuY), loc(s, v, s.cuY))
    PROVE  /\ Good(t) /\ Same(s, t)
           /\ x = v + 1 \/ (/\ 0 =< x /\ x =< v /\ v =< Last(s)
                            /\ 0 =< d /\ d + v - x =< Last(s)) => t.wild = s.wild
<1>1. /\ s.columns \in Int /\ Last(s) = s.columns - 1 /\ s.lines \in Int
      /\ s.cuY \in Int /\ 0 =< s.cuY /\ s.cuY < s.lines
  BY Numbers
<1>2. loc(s, d, s.cuY) \in Int /\ loc(s, x, s.cuY) \in Int /\ loc(s, v, s.cuY) \in Int
  BY <1>1, LocInt
<1>3. Good(t) /\ Same(s, t)
  BY <1>2, MoveImage
<1>4. s.cuY * s.columns \in Int
  BY <1>1
<1>5. ASSUME x = v + 1
      PROVE  t.wild = s.wild
  <2>1. loc(s, x, s.cuY) = loc(s, v, s.cuY) + 1
    BY <1>4, <1>5 DEF loc
  <2> QED BY <1>2, <2>1, MoveImage
<1>6. ASSUME 0 =< x, x =< v, v =< Last(s), 0 =< d, d + v - x =< Last(s)
      PROVE  t.wild = s.wild
  <2> DEFINE e == d + v - x
  <2>1. /\ x < s.columns /\ 0 =< v /\ v < s.columns /\ d < s.columns
        /\ e \in Int /\ 0 =< e /\ e < s.columns
    BY <1>1, <1>6
  <2>2. loc(s, d, s.cuY) + loc(s, v, s.cuY) - loc(s, x, s.cuY) = loc(s, e, s.cuY)
    BY <1>4 DEF loc
  <2>3. loc(s, x, s.cuY) =< loc(s, v, s.cuY)
    BY <1>4, <1>6 DEF loc
  <2> HIDE DEF e
  <2>4. /\ Within(s, loc(s, x, s.cuY)) /\ Within(s, loc(s, v, s.cuY))
        /\ Within(s, loc(s, d, s.cuY)) /\ Within(s, loc(s, e, s.cuY))
    BY <1>1, <1>6, <2>1, LocInside
  <2> QED BY <1>2, <2>2, <2>3, <2>4, MoveImage
<1> QED BY <1>3, <1>5, <1>6

LEMMA EraseChars ==
    ASSUME NEW s, Good(s), NEW n \in Nat, NEW t, t = eraseChars(s, n)
    PROVE  Good(t) /\ t.wild = s.wild
<1> DEFINE p == Higher(0, Lower(s.cuX + OrOne(n) - 1, Last(s)))
<1>1. p \in Int /\ s.cuX \in Int /\ ((0 =< s.cuX /\ s.cuX =< p /\ p =< Last(s)) \/ s.cuX > p)
  BY Numbers DEF Lower, Higher, OrOne
<1>2. t = clearImage(s, loc(s, s.cuX, s.cuY), loc(s, p, s.cuY), Blank)
  BY DEF eraseChars
<1> HIDE DEF p
<1> QED BY <1>1, <1>2, ClearColumns

ClearCols(s, x, v)   == clearImage(s, loc(s, x, s.cuY), loc(s, v, s.cuY), Blank)
MoveCols(s, d, x, v) == moveImage(s, loc(s, d, s.cuY), loc(s, x, s.cuY), loc(s, v, s.cuY))

LEMMA ClearCol ==
    ASSUME NEW s, Good(s), NEW x \in Int, NEW v \in Int
    PROVE  /\ Good(ClearCols(s, x, v)) /\ Same(s, ClearCols(s, x, v))
           /\ (0 =< x /\ x =< v /\ v =< Last(s)) \/ x > v => ClearCols(s, x, v).wild = s.wild
BY ClearColumns DEF ClearCols

LEMMA MoveCol ==
    ASSUME NEW s, Good(s), NEW d \in Int, NEW x \in Int, NEW v \in Int
    PROVE  /\ Good(MoveCols(s, d, x, v)) /\ Same(s, MoveCols(s, d, x, v))
           /\ x = v + 1 \/ (/\ 0 =< x /\ x =< v /\ v =< Last(s)
                            /\ 0 =< d /\ d + v - x =< Last(s)) => MoveCols(s, d, x, v).wild = s.wild
BY MoveColumns DEF MoveCols

\* What deleteChars and insertChars do: columns x..v go to column d, and
\* columns f..w are cleared.
LEMMA MoveThenClear ==
    ASSUME NEW s, Good(s), NEW d \in Int, NEW x \in Int, NEW v \in Int, NEW f \in Int, NEW w \in Int,
           NEW t, t = clearImage(MoveCols(s, d, x, v), loc(s, f, s.cuY), loc(s, w, s.cuY), Blank)
    PROVE  /\ Good(t) /\ Same(s, t)
           /\ /\ x = v + 1 \/ (0 =< x /\ x =< v /\ v =< Last(s) /\ 0 =< d /\ d + v - x =< Last(s))
              /\ (0 =< f /\ f =< w /\ w =< Last(s)) \/ f > w
              => t.wild = s.wild
<1> DEFINE m == MoveCols(s, d, x, v)
<1>1. /\ Good(m) /\ Same(s, m)
      /\ x = v + 1 \/ (0 =< x /\ x =< v /\ v =< Last(s) /\ 0 =< d /\ d + v - x =< Last(s))
            => m.wild = s.wild
  BY MoveCol
<1>2. t = ClearCols(m, f, w) /\ Last(m) = Last(s)
  BY <1>1 DEF Same, loc, Last, ClearCols
<1> HIDE DEF m
<1>3. /\ Good(t) /\ Same(m, t)
      /\ (0 =< f /\ f =< w /\ w =< Last(m)) \/ f > w => t.wild = m.wild
  BY <1>1, <1>2, ClearCol
<1>4. Same(s, t)
  BY <1>1, <1>3 DEF Same
<1> QED BY <1>1, <1>2, <1>3, <1>4

LEMMA DeleteChars ==
    ASSUME NEW s, Good(s), NEW k \in Nat, NEW t, t = deleteChars(s, k)
    PROVE  /\ Good(t) /\ Same(s, t)
           /\ s.cuX < s.columns /\ k =< s.columns - s.cuX => t.wild = s.wild
<1> DEFINE n == OrOne(k)
           x == s.cuX
           v == Last(s)
           p == Higher(0, Lower(s.cuX + n, Last(s)))
           f == s.columns - n
           m == MoveCols(s, x, p, v)
<1>1. /\ n \in Int /\ p \in Int /\ f \in Int /\ x \in Int /\ v \in Int /\ v = Last(s)
  BY Numbers DEF Lower, Higher, OrOne
<1>2. x < s.columns => 0 =< p /\ p =< v /\ 0 =< x /\ x + v - p =< v
  BY Numbers DEF Lower, Higher, OrOne
<1>3. x < s.columns /\ k =< s.columns - x => 0 =< f /\ f =< v
  BY Numbers DEF OrOne
<1>4. t = clearImage(m, loc(s, f, s.cuY), loc(s, v, s.cuY), Blank)
  BY DEF deleteChars, MoveCols
<1>6. x = s.cuX
  OBVIOUS
<1> HIDE DEF n, p, f, x, v
<1>7. /\ Good(t) /\ Same(s, t)
      /\ /\ p = v + 1 \/ (0 =< p /\ p =< v /\ v =< Last(s) /\ 0 =< x /\ x + v - p =< Last(s))
         /\ (0 =< f /\ f =< v /\ v =< Last(s)) \/ f > v
         => t.wild = s.wild
  BY <1>1, <1>4, MoveThenClear
<1>8. ASSUME s.cuX < s.columns, k =< s.columns - s.cuX
      PROVE  t.wild = s.wild
  <2>1. x < s.columns /\ k =< s.columns - x
    BY <1>6, <1>8
  <2>2. v =< Last(s)
    BY <1>1
  <2> QED BY <1>1, <1>2, <1>3, <1>7, <2>1, <2>2
<1> QED BY <1>7, <1>8

LEMMA InsertChars ==
    ASSUME NEW s, Good(s), NEW k \in Nat, NEW t, t = insertChars(s, k)
    PROVE  /\ Good(t) /\ Same(s, t)
           /\ s.cuX < s.columns /\ k =< s.columns - s.cuX => t.wild = s.wild
<1> DEFINE n == OrOne(k)
           x == s.cuX
           p == Higher(0, Lower(Last(s) - n, Last(s)))
           q == Higher(0, Lower(s.cuX + n, Last(s)))
           r == q - 1
           m == MoveCols(s, q, x, p)
<1>1. n \in Int /\ p \in Int /\ q \in Int /\ r \in Int /\ x \in Int /\ Last(s) \in Int
  BY Numbers DEF Lower, Higher, OrOne
<1>2. x < s.columns /\ k =< s.columns - x =>
         \/ x = p + 1
         \/ 0 =< x /\ x =< p /\ p =< Last(s) /\ 0 =< q /\ q + p - x =< Last(s)
  BY Numbers DEF Lower, Higher, OrOne
<1>3. x < s.columns => (0 =< x /\ x =< r /\ r =< Last(s)) \/ x > r
  BY Numbers DEF Lower, Higher, OrOne
<1>4. t = clearImage(m, loc(s, x, s.cuY), loc(s, r, s.cuY), Blank)
  BY DEF insertChars, MoveCols
<1>6. x = s.cuX
  OBVIOUS
<1> HIDE DEF n, p, q, r, x
<1>7. /\ Good(t) /\ Same(s, t)
      /\ /\ x = p + 1 \/ (0 =< x /\ x =< p /\ p =< Last(s) /\ 0 =< q /\ q + p - x =< Last(s))
         /\ (0 =< x /\ x =< r /\ r =< Last(s)) \/ x > r
         => t.wild = s.wild
  BY <1>1, <1>4, MoveThenClear
<1>8. ASSUME s.cuX < s.columns, k =< s.columns - s.cuX
      PROVE  t.wild = s.wild
  <2>1. x < s.columns /\ k =< s.columns - x
    BY <1>6, <1>8
  <2> QED BY <1>2, <1>3, <1>7, <2>1
<1> QED BY <1>7, <1>8

LEMMA DeleteLines ==
    ASSUME NEW s, Good(s), NEW n \in Nat, NEW t, t = deleteLines(s, n)
    PROVE  Good(t) /\ t.wild = s.wild
<1>1. s.cuY \in Nat /\ OrOne(n) \in Int
  BY Numbers DEF OrOne
<1>2. PICK f \in Nat, k \in Int : t = scrollUp(s, f, k)
  BY <1>1 DEF deleteLines
<1> QED BY <1>2, ScrollUp

LEMMA InsertLines ==
    ASSUME NEW s, Good(s), NEW n \in Nat, NEW t, t = insertLines(s, n)
    PROVE  Good(t) /\ t.wild = s.wild
<1>1. s.cuY \in Nat /\ OrOne(n) \in Int
  BY Numbers DEF OrOne
<1>2. PICK f \in Nat, k \in Int : t = scrollDown(s, f, k)
  BY <1>1 DEF insertLines
<1> QED BY <1>2, ScrollDown

LEMMA EraseParts ==
    ASSUME NEW s, Good(s), NEW e \in Cell,
           NEW t \in {clearToEndOfScreen(s), clearToBeginOfScreen(s), clearEntireScreen(s),
                      helpAlign(s, e), clearToEndOfLine(s), clearToBeginOfLine(s),
                      clearEntireLine(s)}
    PROVE  Good(t) /\ (s.cuX < s.columns => t.wild = s.wild)
<1> DEFINE x == s.cuX
           y == s.cuY
           v == Last(s)
           b == s.lines - 1
<1>0. /\ x \in Int /\ y \in Int /\ v \in Int /\ b \in Int /\ 0 \in Int /\ Blank \in Cell
      /\ 0 =< x /\ 0 =< y /\ y < s.lines /\ 0 =< v /\ v < s.columns /\ 0 =< b /\ b < s.lines
      /\ 0 < s.columns /\ 0 < s.lines /\ y =< b
  BY Numbers DEF Cell
<1>1. /\ loc(s, x, y) \in Int /\ loc(s, v, b) \in Int /\ loc(s, v, y) \in Int /\ loc(s, 0, y) \in Int
      /\ Within(s, loc(s, v, b)) /\ Within(s, loc(s, v, y)) /\ Within(s, loc(s, 0, y))
      /\ x < s.columns => Within(s, loc(s, x, y))
  BY <1>0, LocInside, LocInt
<1>2. Within(s, 0)
  <2>1. s.lines * s.columns > 0
    BY Numbers
  <2> QED BY <2>1 DEF Within
<1>3. CASE t \in {clearToEndOfScreen(s), clearToBeginOfScreen(s), helpAlign(s, e),
                  clearToEndOfLine(s), clearToBeginOfLine(s)}
  <2>1. CASE t = clearToEndOfScreen(s)
    <3>1. t = clearImage(s, loc(s, x, y), loc(s, v, b), Blank)
      BY <2>1 DEF clearToEndOfScreen
    <3> HIDE DEF y, v, b
    <3> QED BY <1>0, <1>1, <1>2, <3>1, ClearImage
  <2>2. CASE t = clearToBeginOfScreen(s)
    <3>1. t = clearImage(s, 0, loc(s, x, y), Blank)
      BY <2>2 DEF clearToBeginOfScreen
    <3> HIDE DEF y, v, b
    <3> QED BY <1>0, <1>1, <1>2, <3>1, ClearImage
  <2>3. CASE t = helpAlign(s, e)
    <3>1. t = clearImage(s, 0, loc(s, v, b), e)
      BY <2>3 DEF helpAlign
    <3> HIDE DEF y, v, b
    <3> QED BY <1>0, <1>1, <1>2, <3>1, ClearImage
  <2>4. CASE t = clearToEndOfLine(s)
    <3>1. t = clearImage(s, loc(s, x, y), loc(s, v, y), Blank)
      BY <2>4 DEF clearToEndOfLine
    <3> HIDE DEF y, v, b
    <3> QED BY <1>0, <1>1, <1>2, <3>1, ClearImage
  <2>5. CASE t = clearToBeginOfLine(s)
    <3>1. t = clearImage(s, loc(s, 0, y), loc(s, x, y), Blank)
      BY <2>5 DEF clearToBeginOfLine
    <3> HIDE DEF y, v, b
    <3> QED BY <1>0, <1>1, <1>2, <3>1, ClearImage
  <2> QED BY <1>3, <2>1, <2>2, <2>3, <2>4, <2>5
<1>4. CASE t = clearEntireScreen(s) \/ t = clearEntireLine(s)
  <2>1. t = clearLines(s, 0, b) \/ t = clearLines(s, y, y)
    BY <1>4 DEF clearEntireScreen, clearEntireLine
  <2> HIDE DEF b, y
  <2> QED BY <1>0, <2>1, ClearLines
<1> QED BY <1>3, <1>4

\* A character in the image
Put(s, i, c, x) == [s EXCEPT !.image[i] = c, !.cuX = x]

LEMMA PutCell ==
    ASSUME NEW s, Good(s), NEW i \in Int, NEW c \in Cell, NEW x \in 0..s.columns,
           NEW t, t = Put(s, i, c, x)
    PROVE  Good(t) /\ t.wild = s.wild
<1> DEFINE img == [s.image EXCEPT ![i] = c]
           u == [s EXCEPT !.image = img]
<1>1. IsScreen(s) /\ Same(s, s) /\ s.image \in [DOMAIN s.image -> Cell]
      /\ s.sel_begin \in Int /\ s.sel_TL \in Int /\ s.sel_BR \in Int /\ s.wild \in BOOLEAN
  BY Parts
<1>2. img \in [DOMAIN s.image -> Cell]
  BY <1>1
<1>3. t = [u EXCEPT !.cuX = x]
  BY <1>1 DEF IsScreen, Fields, Put
<1> HIDE DEF img
<1>4. IsScreen(u) /\ Same(s, u) /\ u.image = img /\ u.wild = s.wild /\ u.columns = s.columns
      /\ u.sel_begin = s.sel_begin /\ u.sel_TL = s.sel_TL /\ u.sel_BR = s.sel_BR
  BY <1>1 DEF IsScreen, Fields, Same
<1> HIDE DEF u
<1>5. Good(u)
  BY <1>1, <1>2, <1>4, Frame
<1>6. x \in 0..u.columns
  BY <1>4
<1>7. Good(t) /\ t.wild = u.wild
  BY <1>3, <1>5, <1>6, SetX
<1> QED BY <1>4, <1>7

LEMMA Show ==
    ASSUME NEW s, Good(s), NEW c \in Cell, NEW t, t = ShowCharacter(s, c)
    PROVE  Good(t) /\ t.wild = s.wild
<1> DEFINE r == IF s.cuX < s.columns THEN s
                ELSE IF "Wrap" \in s.mode THEN NextLine(s)
                ELSE [s EXCEPT !.cuX = Last(s)]
           w == IF "Insert" \in s.mode THEN insertChars(r, 1) ELSE r
           i == loc(w, w.cuX, w.cuY)
           at == i + w.histCursor * w.columns
           v == IF w.sel_TL =< at /\ at =< w.sel_BR /\ w.image[i] # c
                THEN clearSelection(w) ELSE w
<1>1. Good(r) /\ r.wild = s.wild /\ r.cuX < r.columns
  <2>1. CASE s.cuX < s.columns
    BY <2>1
  <2>2. CASE ~(s.cuX < s.columns) /\ "Wrap" \in s.mode
    <3>1. r = NextLine(s)
      BY <2>2
    <3> HIDE DEF r
    <3> QED BY <3>1, NewLines, Numbers
  <2>3. CASE ~(s.cuX < s.columns) /\ "Wrap" \notin s.mode
    <3>1. r = [s EXCEPT !.cuX = Last(s)] /\ Last(s) \in 0..s.columns /\ Last(s) < s.columns
      BY <2>3, Numbers
    <3> HIDE DEF r
    <3> QED BY <3>1, SetX
  <2> QED BY <2>1, <2>2, <2>3
<1> HIDE DEF r
<1>2. Good(w) /\ w.wild = s.wild /\ w.cuX < w.columns
  <2>1. CASE "Insert" \in s.mode
    <3>1. PICK k \in Nat : k = 1
      OBVIOUS
    <3>2. w = insertChars(r, k)
      BY <2>1, <3>1
    <3> HIDE DEF w
    <3>3. k =< r.columns - r.cuX
      BY <1>1, <3>1, Numbers
    <3>4. Good(w) /\ Same(r, w) /\ w.wild = r.wild
      BY <1>1, <3>2, <3>3, InsertChars
    <3> QED BY <1>1, <3>4 DEF Same
  <2>2. CASE "Insert" \notin s.mode
    BY <1>1, <2>2
  <2> QED BY <2>1, <2>2
<1>3. t = [v EXCEPT !.image[i] = c, !.cuX = w.cuX + 1]
  BY DEF ShowCharacter, r
<1> HIDE DEF w
<1>4. i \in Int
  BY <1>2, LocInt, Numbers
<1> HIDE DEF i
<1>5. Good(v) /\ Same(w, v) /\ v.wild = w.wild
  BY <1>2, ClearSelection, Parts
<1> HIDE DEF v
<1> DEFINE x == w.cuX + 1
<1>6. x \in 0..v.columns
  <2>1. w.cuX \in 0..w.columns /\ w.columns \in Nat
    BY <1>2, Numbers
  <2> QED BY <1>2, <1>5, <2>1 DEF Same
<1>7. t = Put(v, i, c, x)
  BY <1>3 DEF Put
<1> HIDE DEF x
<1> QED BY <1>2, <1>4, <1>5, <1>6, <1>7, PutCell
-----------------------------------------------------------------------------
(* Modes, saved cursor, tab stops *)

\* A screen whose modes, saved modes and cursor, or tab stops changed
Set(s, mode, saved, x, y, tabs) ==
    [s EXCEPT !.mode = mode, !.saved = saved, !.sa_cuX = x, !.sa_cuY = y, !.tabstops = tabs]

LEMMA Settings ==
    ASSUME NEW s, Good(s), NEW mode \in SUBSET Mode, NEW saved \in SUBSET Kept,
           NEW x \in Nat, NEW y \in Nat, NEW tabs \in SUBSET (0..(s.columns - 1)),
           NEW t, t = Set(s, mode, saved, x, y, tabs)
    PROVE  /\ Good(t) /\ t.wild = s.wild
           /\ t.lines = s.lines /\ t.columns = s.columns
<1>1. /\ IsScreen(t) /\ t.hist = s.hist /\ t.histCursor = s.histCursor /\ t.wild = s.wild
      /\ t.cuX = s.cuX /\ t.cuY = s.cuY /\ t.sa_cuX = x /\ t.sa_cuY = y
      /\ t.mode = mode /\ t.saved = saved /\ t.tabstops = tabs
      /\ t.lines = s.lines /\ t.columns = s.columns /\ t.image = s.image
      /\ t.tmargin = s.tmargin /\ t.bmargin = s.bmargin /\ t.histMaxLines = s.histMaxLines
      /\ t.sel_begin = s.sel_begin /\ t.sel_TL = s.sel_TL /\ t.sel_BR = s.sel_BR
  <2>1. IsScreen(s)
    BY Parts
  <2> QED BY <2>1 DEF IsScreen, Fields, Set
<1>2. t.tabstops \subseteq 0..(t.columns - 1) /\ t.mode \subseteq Mode /\ t.saved \subseteq Kept
      /\ t.sa_cuX \in Nat /\ t.sa_cuY \in Nat
  BY <1>1
<1>3. Good(t)
  <2>1. /\ t.lines \in Nat \ {0} /\ t.columns \in Nat \ {0}
        /\ t.tmargin \in 0..t.bmargin /\ t.bmargin \in 0..(t.lines - 1)
        /\ t.tmargin = t.bmargin => t.lines = 1
    BY <1>1, Numbers, Rest
  <2>2. t.image \in [0..(t.lines * t.columns - 1) -> Cell]
    BY <1>1, Parts
  <2> QED BY <1>1, <1>2, <2>1, <2>2, Rest, Parts DEF Good, Shape
<1> QED BY <1>1, <1>3

\* The parts of a screen that Set does not change
LEMMA SetSame ==
    ASSUME NEW s, Good(s), NEW mode, NEW saved, NEW x, NEW y, NEW tabs
    PROVE  /\ [s EXCEPT !.mode = mode] = Set(s, mode, s.saved, s.sa_cuX, s.sa_cuY, s.tabstops)
           /\ [s EXCEPT !.saved = saved] = Set(s, s.mode, saved, s.sa_cuX, s.sa_cuY, s.tabstops)
           /\ [s EXCEPT !.sa_cuX = x, !.sa_cuY = y] = Set(s, s.mode, s.saved, x, y, s.tabstops)
           /\ [s EXCEPT !.tabstops = tabs] = Set(s, s.mode, s.saved, s.sa_cuX, s.sa_cuY, tabs)
           /\ s.mode \in SUBSET Mode /\ s.saved \in SUBSET Kept /\ s.sa_cuX \in Nat /\ s.sa_cuY \in Nat
           /\ s.tabstops \in SUBSET (0..(s.columns - 1))
<1>1. IsScreen(s)
  BY Parts
<1> QED BY <1>1, Rest DEF IsScreen, Fields, Set

LEMMA SetModes ==
    ASSUME NEW s, Good(s), NEW m \in Mode, NEW t \in {setMode(s, m), resetMode(s, m)}
    PROVE  Good(t) /\ t.wild = s.wild
<1> DEFINE on == s.mode \cup {m}
           off == s.mode \ {m}
<1>1. on \in SUBSET Mode /\ off \in SUBSET Mode
  BY Rest
<1> DEFINE u == [s EXCEPT !.mode = on]
           w == [s EXCEPT !.mode = off]
<1>2. /\ t = setMode(s, m) => t = IF m = "Origin" THEN At(u, 0, s.tmargin) ELSE u
      /\ t = resetMode(s, m) => t = IF m = "Origin" THEN At(w, 0, 0) ELSE w
  BY DEF setMode, resetMode, At, home
<1>a. /\ u = Set(s, on, s.saved, s.sa_cuX, s.sa_cuY, s.tabstops)
      /\ w = Set(s, off, s.saved, s.sa_cuX, s.sa_cuY, s.tabstops)
      /\ s.saved \in SUBSET Kept /\ s.sa_cuX \in Nat /\ s.sa_cuY \in Nat
      /\ s.tabstops \in SUBSET (0..(s.columns - 1))
  BY SetSame
<1> HIDE DEF on, off, u, w
<1>3. /\ Good(u) /\ u.wild = s.wild /\ u.lines = s.lines /\ u.columns = s.columns
      /\ Good(w) /\ w.wild = s.wild /\ w.lines = s.lines /\ w.columns = s.columns
  BY <1>1, <1>a, Settings
<1>4. 0 \in 0..u.columns /\ s.tmargin \in 0..(u.lines - 1) /\ 0 \in 0..w.columns /\ 0 \in 0..(w.lines - 1)
  BY <1>3, Numbers
<1> QED BY <1>2, <1>3, <1>4, SetXY

LEMMA SavedModes ==
    ASSUME NEW s, Good(s), NEW m \in Kept, NEW t \in {saveMode(s, m), restoreMode(s, m)}
    PROVE  Good(t) /\ t.wild = s.wild
<1> DEFINE in == (s.saved \ {m}) \cup ({m} \cap s.mode)
           out == (s.mode \ {m}) \cup ({m} \cap s.saved)
<1>1. in \in SUBSET Kept /\ out \in SUBSET Mode
  BY Rest DEF Kept, Mode
<1>2. t = [s EXCEPT !.saved = in] \/ t = [s EXCEPT !.mode = out]
  BY DEF saveMode, restoreMode
<1>3. /\ \/ t = Set(s, s.mode, in, s.sa_cuX, s.sa_cuY, s.tabstops)
         \/ t = Set(s, out, s.saved, s.sa_cuX, s.sa_cuY, s.tabstops)
      /\ s.mode \in SUBSET Mode /\ s.saved \in SUBSET Kept /\ s.sa_cuX \in Nat /\ s.sa_cuY \in Nat
      /\ s.tabstops \in SUBSET (0..(s.columns - 1))
  BY <1>2, SetSame
<1> HIDE DEF in, out
<1> QED BY <1>1, <1>3, Settings

LEMMA SavedCursor ==
    ASSUME NEW s, Good(s), NEW t \in {saveCursor(s), restoreCursor(s)}
    PROVE  Good(t) /\ t.wild = s.wild
<1> DEFINE x == Lower(s.sa_cuX, Last(s))
           y == Lower(s.sa_cuY, s.lines - 1)
<1>1. x \in 0..s.columns /\ y \in 0..(s.lines - 1) /\ s.cuX \in Nat /\ s.cuY \in Nat
  BY Numbers DEF Lower
<1>2. t = At(s, x, y) \/ t = [s EXCEPT !.sa_cuX = s.cuX, !.sa_cuY = s.cuY]
  BY DEF saveCursor, restoreCursor, At
<1> HIDE DEF x, y
<1>3. CASE t = At(s, x, y)
  BY <1>1, <1>3, SetXY
<1>4. CASE t = [s EXCEPT !.sa_cuX = s.cuX, !.sa_cuY = s.cuY]
  <2>1. /\ t = Set(s, s.mode, s.saved, s.cuX, s.cuY, s.tabstops)
        /\ s.mode \in SUBSET Mode /\ s.saved \in SUBSET Kept
        /\ s.tabstops \in SUBSET (0..(s.columns - 1))
    BY <1>4, SetSame
  <2> QED BY <1>1, <2>1, Settings
<1> QED BY <1>2, <1>3, <1>4

LEMMA TabStops ==
    ASSUME NEW s, Good(s), NEW set \in BOOLEAN, NEW t \in {changeTabStop(s, set), clearTabStops(s)}
    PROVE  Good(t) /\ t.wild = s.wild
<1>0. s.tabstops \subseteq 0..(s.columns - 1) /\ s.cuX \in 0..s.columns /\ s.columns \in Nat
  BY Rest, Numbers
<1>1. CASE t = s
  BY <1>1
<1>2. CASE t # s
  <2>1. PICK tabs \in SUBSET (0..(s.columns - 1)) : t = [s EXCEPT !.tabstops = tabs]
    <3>1. s.cuX < s.columns => s.cuX \in 0..(s.columns - 1)
      BY <1>0
    <3>2. /\ s.cuX < s.columns => s.tabstops \cup {s.cuX} \in SUBSET (0..(s.columns - 1))
          /\ s.tabstops \ {s.cuX} \in SUBSET (0..(s.columns - 1))
          /\ s.tabstops \cap {Last(s)} \in SUBSET (0..(s.columns - 1))
      BY <1>0, <3>1
    <3> QED BY <1>0, <1>2, <3>2 DEF changeTabStop, clearTabStops
  <2>2. /\ t = Set(s, s.mode, s.saved, s.sa_cuX, s.sa_cuY, tabs)
        /\ s.mode \in SUBSET Mode /\ s.saved \in SUBSET Kept /\ s.sa_cuX \in Nat /\ s.sa_cuY \in Nat
    BY <2>1, SetSame
  <2> QED BY <2>1, <2>2, Settings
<1> QED BY <1>1, <1>2

LEMMA NextStop ==
    ASSUME NEW s, Good(s), NEW t, t = Tabulate(s)
    PROVE  Good(t) /\ t.wild = s.wild
<1> DEFINE from == Lower(Last(s), s.cuX + 1)
           passed == {x \in from..(Last(s) - 1) : \A y \in from..x : y \notin s.tabstops}
           x == from + Cardinality(passed)
<1>1. from \in Int /\ Last(s) \in Int /\ 0 =< from /\ from =< Last(s)
      /\ s.columns \in Int /\ Last(s) < s.columns
  BY Numbers DEF Lower
<1>2. passed \in SUBSET (from..(Last(s) - 1))
  OBVIOUS
<1>3. t = [s EXCEPT !.cuX = x]
  BY DEF Tabulate
<1> HIDE DEF from, passed
<1>4. Cardinality(passed) \in 0..(Last(s) - from)
  BY <1>1, <1>2, PartOfLine
<1>5. x \in 0..s.columns
  BY <1>1, <1>4
<1> HIDE DEF x
<1> QED BY <1>3, <1>5, SetX

LEMMA Reset ==
    ASSUME NEW s, Good(s), NEW t, t = reset(s)
    PROVE  Good(t) /\ t.wild = s.wild
<1> DEFINE bot == s.lines - 1
           u == [home(s) EXCEPT !.mode = {"Wrap"}, !.saved = {"Wrap"}, !.tmargin = 0, !.bmargin = bot]
           v == saveCursor(u)
           w == clearEntireScreen(v)
<1>1. Good(u) /\ u.wild = s.wild
  <2>1. 0 \in 0..bot /\ bot \in 0..(s.lines - 1) /\ 0 \in 0..s.columns /\ (0 = bot => s.lines = 1)
        /\ {"Wrap"} \subseteq Mode /\ {"Wrap"} \subseteq Kept
    BY Numbers DEF Mode, Kept
  <2>2. IsScreen(s)
    BY Parts
  <2> HIDE DEF bot
  <2>3. /\ IsScreen(u) /\ u.hist = s.hist /\ u.histCursor = s.histCursor /\ u.wild = s.wild
        /\ u.cuX = 0 /\ u.cuY = 0 /\ u.sa_cuX = s.sa_cuX /\ u.sa_cuY = s.sa_cuY
        /\ u.mode = {"Wrap"} /\ u.saved = {"Wrap"} /\ u.tabstops = s.tabstops
        /\ u.lines = s.lines /\ u.columns = s.columns /\ u.image = s.image
        /\ u.tmargin = 0 /\ u.bmargin = bot /\ u.histMaxLines = s.histMaxLines
        /\ u.sel_begin = s.sel_begin /\ u.sel_TL = s.sel_TL /\ u.sel_BR = s.sel_BR
    BY <2>2 DEF IsScreen, Fields, home
  <2> HIDE DEF u
  <2>4. 0 \in 0..(s.lines - 1)
    BY Numbers
  <2> QED BY <2>1, <2>3, <2>4, Rest, Parts, Reframe
<1>2. t = home(w)
  BY DEF reset
<1> HIDE DEF u
<1>3. Good(v) /\ v.wild = u.wild
  BY <1>1, SavedCursor
<1> HIDE DEF v
<1>4. Good(w) /\ w.wild = v.wild
  <2> DEFINE b == v.lines - 1
  <2>1. w = clearLines(v, 0, b) /\ b \in Int /\ 0 =< b /\ b < v.lines
    BY <1>3, Numbers DEF clearEntireScreen
  <2> HIDE DEF b, w
  <2>2. PICK z \in Int : z = 0
    OBVIOUS
  <2> QED BY <1>3, <2>1, <2>2, ClearLines
<1> HIDE DEF w
<1>5. PICK n \in Nat : TRUE
  OBVIOUS
<1>6. Good(t) /\ t.wild = w.wild
  BY <1>2, <1>4, <1>5, MoveCursor
<1> QED BY <1>1, <1>3, <1>4, <1>6
-----------------------------------------------------------------------------
(* The window and the mouse *)

LEMMA HistCursor ==
    ASSUME NEW s, Good(s), NEW c \in 0..Len(s.hist), NEW t, t = setHistCursor(s, c)
    PROVE  Good(t) /\ t.wild = s.wild
<1>0. IsScreen(s)
  BY Parts
<1>1. /\ IsScreen(t) /\ t.hist = s.hist /\ t.histCursor = c /\ t.wild = s.wild
      /\ t.cuX = s.cuX /\ t.cuY = s.cuY /\ t.sa_cuX = s.sa_cuX /\ t.sa_cuY = s.sa_cuY
      /\ t.mode = s.mode /\ t.saved = s.saved /\ t.tabstops = s.tabstops
      /\ t.lines = s.lines /\ t.columns = s.columns /\ t.image = s.image
      /\ t.tmargin = s.tmargin /\ t.bmargin = s.bmargin /\ t.histMaxLines = s.histMaxLines
      /\ t.sel_begin = s.sel_begin /\ t.sel_TL = s.sel_TL /\ t.sel_BR = s.sel_BR
  BY <1>0 DEF IsScreen, Fields, setHistCursor
<1>2. /\ s.tmargin \in 0..s.bmargin /\ s.bmargin \in 0..(s.lines - 1)
      /\ s.tmargin = s.bmargin => s.lines = 1
      /\ s.mode \subseteq Mode /\ s.saved \subseteq Kept
      /\ s.cuX \in 0..s.columns /\ s.cuY \in 0..(s.lines - 1) /\ s.sa_cuX \in Nat /\ s.sa_cuY \in Nat
      /\ s.hist \in Seq(Seq(Cell)) /\ Len(s.hist) =< s.histMaxLines
  BY Rest
<1>3. s.sel_begin \in Int /\ s.sel_TL \in Int /\ s.sel_BR \in Int /\ s.wild \in BOOLEAN
  BY Parts
<1> QED BY <1>1, <1>2, <1>3, Reframe

LEMMA Resize ==
    ASSUME NEW s, Good(s), NEW l \in Nat \ {0}, NEW c \in Nat \ {0}, NEW t, t = resizeImage(s, l, c)
    PROVE  Good(t) /\ t.wild = s.wild
<1> DEFINE u == clearSelection(s)
           img == [i \in 0..(l * c - 1) |->
                      LET x == i % c
                          y == i \div c
                      IN  IF x < s.columns /\ y < s.lines THEN s.image[loc(s, x, y)] ELSE Blank]
           cx == Lower(s.cuX, c - 1)
           cy == Lower(s.cuY, l - 1)
           bot == l - 1
           tabs == DefaultStops(c)
<1>1. Good(u) /\ u.wild = s.wild
  BY ClearSelection
<1>2. img \in [0..(l * c - 1) -> Cell]
  <2>1. Blank \in Cell /\ l * c \in Int
    BY DEF Cell
  <2>2. s.image \in [0..(s.lines * s.columns - 1) -> Cell] /\ s.lines * s.columns \in Int
    BY Parts, Numbers
  <2>3. ASSUME NEW i \in 0..(l * c - 1)
        PROVE  img[i] \in Cell
    <3> DEFINE x == i % c
               y == i \div c
    <3>0. i \in Nat
      BY <2>1
    <3>1. x \in Int /\ y \in Int /\ 0 =< x /\ 0 =< y
      BY <3>0
    <3>2. img[i] = IF x < s.columns /\ y < s.lines THEN s.image[loc(s, x, y)] ELSE Blank
      OBVIOUS
    <3> HIDE DEF x, y, img
    <3>3. CASE x < s.columns /\ y < s.lines
      <4>1. loc(s, x, y) \in Int /\ Within(s, loc(s, x, y))
        BY <3>1, <3>3, LocInside
      <4> QED BY <2>2, <3>2, <3>3, <4>1 DEF Within
    <3>4. CASE ~(x < s.columns /\ y < s.lines)
      BY <2>1, <3>2, <3>4
    <3> QED BY <3>3, <3>4
  <2> QED BY <2>3
<1>3. /\ cx \in 0..c /\ cy \in 0..(l - 1) /\ bot \in 0..(l - 1) /\ 0 \in 0..bot
      /\ 0 = bot => l = 1
      /\ tabs \subseteq 0..(c - 1)
  BY Numbers DEF Lower, DefaultStops
<1>4. t = [u EXCEPT !.image = img, !.lines = l, !.columns = c, !.cuX = cx, !.cuY = cy,
                    !.tmargin = 0, !.bmargin = bot, !.tabstops = tabs]
  BY DEF resizeImage
<1>5. IsScreen(u)
  BY <1>1, Parts
<1> HIDE DEF u, img, cx, cy, bot, tabs
<1> DEFINE w == [u EXCEPT !.image = img, !.lines = l, !.columns = c, !.tabstops = tabs]
<1>a. t = [w EXCEPT !.cuX = cx, !.cuY = cy, !.tmargin = 0, !.bmargin = bot]
  BY <1>4, <1>5 DEF IsScreen, Fields
<1>b. /\ IsScreen(w) /\ w.hist = u.hist /\ w.histCursor = u.histCursor /\ w.wild = u.wild
      /\ w.sa_cuX = u.sa_cuX /\ w.sa_cuY = u.sa_cuY
      /\ w.mode = u.mode /\ w.saved = u.saved /\ w.tabstops = tabs
      /\ w.lines = l /\ w.columns = c /\ w.image = img /\ w.histMaxLines = u.histMaxLines
      /\ w.sel_begin = u.sel_begin /\ w.sel_TL = u.sel_TL /\ w.sel_BR = u.sel_BR
  BY <1>5 DEF IsScreen, Fields
<1> HIDE DEF w
<1>6. /\ IsScreen(t) /\ t.hist = u.hist /\ t.histCursor = u.histCursor /\ t.wild = u.wild
      /\ t.cuX = cx /\ t.cuY = cy /\ t.sa_cuX = u.sa_cuX /\ t.sa_cuY = u.sa_cuY
      /\ t.mode = u.mode /\ t.saved = u.saved /\ t.tabstops = tabs
      /\ t.lines = l /\ t.columns = c /\ t.image = img
      /\ t.tmargin = 0 /\ t.bmargin = bot /\ t.histMaxLines = u.histMaxLines
      /\ t.sel_begin = u.sel_begin /\ t.sel_TL = u.sel_TL /\ t.sel_BR = u.sel_BR
  <2>1. IsScreen(t)
    BY <1>a, <1>b DEF IsScreen, Fields
  <2>2. t.cuX = cx /\ t.cuY = cy /\ t.tmargin = 0 /\ t.bmargin = bot
    BY <1>a, <1>b DEF IsScreen, Fields
  <2>3. /\ t.hist = w.hist /\ t.histCursor = w.histCursor /\ t.wild = w.wild
        /\ t.sa_cuX = w.sa_cuX /\ t.sa_cuY = w.sa_cuY
        /\ t.mode = w.mode /\ t.saved = w.saved /\ t.tabstops = w.tabstops
    BY <1>a, <1>b DEF IsScreen, Fields
  <2>4. /\ t.lines = w.lines /\ t.columns = w.columns /\ t.image = w.image
        /\ t.histMaxLines = w.histMaxLines
        /\ t.sel_begin = w.sel_begin /\ t.sel_TL = w.sel_TL /\ t.sel_BR = w.sel_BR
    BY <1>a, <1>b DEF IsScreen, Fields
  <2> QED BY <1>b, <2>1, <2>2, <2>3, <2>4
<1>7. t.image \in [0..(t.lines * t.columns - 1) -> Cell]
  BY <1>2, <1>6
<1>8. /\ u.mode \subseteq Mode /\ u.saved \subseteq Kept /\ u.sa_cuX \in Nat /\ u.sa_cuY \in Nat
      /\ u.hist \in Seq(Seq(Cell)) /\ u.histMaxLines \in Nat /\ Len(u.hist) =< u.histMaxLines
      /\ u.histCursor \in 0..Len(u.hist)
      /\ u.sel_begin \in Int /\ u.sel_TL \in Int /\ u.sel_BR \in Int /\ u.wild \in BOOLEAN
  BY <1>1, Rest, Parts
<1>9. Good(t)
  BY <1>3, <1>6, <1>7, <1>8 DEF Good, Shape
<1> QED BY <1>1, <1>6, <1>9

LEMMA Select ==
    ASSUME NEW s, Good(s), NEW x \in Int, NEW y \in Int,
           NEW t \in {setSelBeginXY(s, x, y), setSelExtentXY(s, x, y)}
    PROVE  Good(t) /\ t.wild = s.wild
<1> DEFINE l == loc(s, x, y + s.histCursor)
<1>0. IsScreen(s) /\ s.sel_begin \in Int /\ s.sel_TL \in Int /\ s.sel_BR \in Int
      /\ s.wild \in BOOLEAN /\ s.image \in [DOMAIN s.image -> Cell]
  BY Parts
<1>1. l \in Int
  <2>1. s.histCursor \in 0..Len(s.hist) /\ s.hist \in Seq(Seq(Cell))
    BY Rest
  <2>2. y + s.histCursor \in Int
    BY <2>1
  <2> QED BY <2>2, LocInt
<1> HIDE DEF l
<1>2. CASE t = setSelBeginXY(s, x, y)
  <2>1. t = [s EXCEPT !.sel_begin = l, !.sel_BR = l, !.sel_TL = l]
    BY <1>2 DEF setSelBeginXY, l
  <2>2. IsScreen(t) /\ Same(s, t) /\ t.image = s.image /\ t.wild = s.wild
        /\ t.sel_begin = l /\ t.sel_TL = l /\ t.sel_BR = l
    BY <1>0, <2>1 DEF IsScreen, Fields, Same
  <2> QED BY <1>0, <1>1, <2>2, Frame
<1>3. CASE t = setSelExtentXY(s, x, y)
  <2>1. PICK tl \in Int, br \in Int : t = [s EXCEPT !.sel_TL = tl, !.sel_BR = br]
    <3> DEFINE br == IF x = s.columns \/ x = 0 THEN l - 1 ELSE l
    <3>1. br \in Int
      BY <1>1
    <3>2. t = IF l < s.sel_begin THEN [s EXCEPT !.sel_TL = l, !.sel_BR = s.sel_begin]
              ELSE [s EXCEPT !.sel_TL = s.sel_begin, !.sel_BR = br]
      BY <1>3 DEF setSelExtentXY, l
    <3> HIDE DEF br
    <3> QED BY <1>0, <1>1, <3>1, <3>2
  <2>2. IsScreen(t) /\ Same(s, t) /\ t.image = s.image /\ t.wild = s.wild
        /\ t.sel_begin = s.sel_begin /\ t.sel_TL = tl /\ t.sel_BR = br
    BY <1>0, <2>1 DEF IsScreen, Fields, Same
  <2> QED BY <1>0, <2>1, <2>2, Frame
<1> QED BY <1>2, <1>3

LEMMA Cooked ==
    ASSUME NEW s, Good(s), NEW t, t = getCookedImage(s)
    PROVE  Good(t) /\ (s.cuX < s.columns => t.wild = s.wild)
<1> DEFINE y == s.cuY + Len(s.hist) - s.histCursor
<1>0. IsScreen(s) /\ s.sel_begin \in Int /\ s.sel_TL \in Int /\ s.sel_BR \in Int
      /\ s.wild \in BOOLEAN /\ s.image \in [DOMAIN s.image -> Cell]
  BY Parts
<1>1. y \in Int /\ 0 =< y /\ s.cuX \in Int /\ 0 =< s.cuX
  <2>1. s.histCursor \in 0..Len(s.hist) /\ s.hist \in Seq(Seq(Cell)) /\ s.cuY \in Nat /\ s.cuX \in Nat
    BY Rest, Numbers
  <2> QED BY <2>1
<1>2. t = IF y < s.lines /\ ~Within(s, loc(s, s.cuX, y)) THEN [s EXCEPT !.wild = TRUE] ELSE s
  BY DEF getCookedImage
<1> HIDE DEF y
<1>3. s.cuX < s.columns /\ y < s.lines => Within(s, loc(s, s.cuX, y))
  BY <1>1, LocInside
<1>4. CASE t = s
  BY <1>4
<1>5. CASE t = [s EXCEPT !.wild = TRUE]
  <2>1. IsScreen(t) /\ Same(s, t) /\ t.image = s.image /\ t.wild = TRUE
        /\ t.sel_begin = s.sel_begin /\ t.sel_TL = s.sel_TL /\ t.sel_BR = s.sel_BR
    BY <1>0, <1>5 DEF IsScreen, Fields, Same
  <2>2. Good(t)
    BY <1>0, <2>1, Frame
  <2> QED BY <1>2, <1>3, <2>2
<1> QED BY <1>2, <1>4, <1>5

LEMMA New ==
    ASSUME NEW l \in Nat \ {0}, NEW c \in Nat \ {0}, NEW m \in Nat
    PROVE  Good(NewScreen(l, c, m))
<1> DEFINE t == NewScreen(l, c, m)
           img == [i \in 0..(l * c - 1) |-> Blank]
           bot == l - 1
           tabs == DefaultStops(c)
<1>1. img \in [0..(l * c - 1) -> Cell]
  BY DEF Cell
<1>2. /\ bot \in 0..(l - 1) /\ 0 \in 0..bot /\ (0 = bot => l = 1) /\ 0 \in 0..c /\ 0 \in 0..(l - 1)
      /\ tabs \subseteq 0..(c - 1) /\ {"Wrap"} \subseteq Mode /\ {"Wrap"} \subseteq Kept
  BY DEF DefaultStops, Mode, Kept
<1>3. << >> \in Seq(Seq(Cell)) /\ Len(<< >>) = 0
  OBVIOUS
<1>4. /\ t.lines = l /\ t.columns = c /\ t.cuX = 0 /\ t.cuY = 0 /\ t.tmargin = 0 /\ t.bmargin = bot
      /\ t.mode = {"Wrap"} /\ t.saved = {"Wrap"} /\ t.sa_cuX = 0 /\ t.sa_cuY = 0
      /\ t.tabstops = tabs /\ t.image = img /\ t.hist = << >> /\ t.histCursor = 0
      /\ t.histMaxLines = m /\ t.sel_begin = -1 /\ t.sel_TL = -1 /\ t.sel_BR = -1 /\ t.wild = FALSE
  BY DEF NewScreen
<1>5. IsScreen(t)
  BY DEF NewScreen, IsScreen, Fields
<1> HIDE DEF t, img, bot, tabs
<1>6. Shape(t)
  <2>1. t.image \in [0..(t.lines * t.columns - 1) -> Cell]
    BY <1>1, <1>4
  <2>2. 0 \in 0..Len(t.hist) /\ Len(t.hist) =< m /\ t.hist \in Seq(Seq(Cell))
    BY <1>3, <1>4
  <2>3. 0 \in Nat /\ -1 \in Int /\ FALSE \in BOOLEAN
    OBVIOUS
  <2> QED BY <1>2, <1>4, <2>1, <2>2, <2>3 DEF Shape
<1> QED BY <1>5, <1>6 DEF Good, t
-----------------------------------------------------------------------------
(* Steps *)

\* What StaysInside allows to touch a cell outside
Outside(s, t) ==
    \/ s.cuX = s.columns
    \/ \E n \in Count : n > s.columns - s.cuX /\ t \in {deleteChars(s, n), insertChars(s, n)}

\* What the steps below show of a screen
Fine(s, t) == Good(t) /\ (t.wild => Outside(s, t))

LEMMA FineScreen ==
    ASSUME NEW s, Good(s), ~s.wild, NEW t, Good(t), s.cuX < s.columns => t.wild = s.wild
    PROVE  Fine(s, t)
<1>1. s.cuX < s.columns \/ s.cuX = s.columns
  BY Numbers
<1> QED BY <1>1 DEF Fine, Outside

LEMMA FineEdit ==
    ASSUME NEW s, Good(s), ~s.wild, NEW n \in Count, NEW t \in {deleteChars(s, n), insertChars(s, n)}
    PROVE  Fine(s, t)
<1>1. n \in Nat /\ s.cuX \in Int /\ s.columns \in Int /\ s.cuX =< s.columns
  BY Numbers, NumbersAssumption
<1>2. Good(t) /\ (s.cuX < s.columns /\ n =< s.columns - s.cuX => t.wild = s.wild)
  BY <1>1, DeleteChars, InsertChars
<1> QED BY <1>1, <1>2 DEF Fine, Outside

\* Every step takes the screen to what one operation makes of it.
LEMMA StepFine ==
    ASSUME Inv, Next
    PROVE  Fine(scr, scr') /\ uses' = uses
<1> USE DEF Does, Becomes
<1>0. Good(scr) /\ ~scr.wild /\ Count \subseteq Nat /\ uses' = uses
  BY NumbersAssumption DEF Inv, Next, Text, Move, Scroll, Edit, Erase, Modes, Cursor, Tabs, Window, Mouse
<1>1. CASE Text
  <2>1. CASE \E c \in Cell : scr' = ShowCharacter(scr, c)
    BY <1>0, <2>1, Show, FineScreen
  <2>2. CASE scr' = Return(scr)
    BY <1>0, <2>2, ReturnToFirst, FineScreen
  <2>3. CASE scr' = NewLine(scr)
    BY <1>0, <2>3, NewLines, FineScreen
  <2> QED BY <1>1, <2>1, <2>2, <2>3 DEF Text
<1>2. CASE Move
  <2>1. PICK k \in Nat : TRUE
    OBVIOUS
  <2>2. CASE scr' = BackSpace(scr)
    BY <1>0, <2>1, <2>2, MoveCursor, FineScreen
  <2>3. CASE \E n \in Count : scr' \in {cursorUp(scr, n), cursorDown(scr, n), cursorLeft(scr, n),
                                        cursorRight(scr, n), setCursorX(scr, n)}
    <3>1. PICK n \in Nat : scr' \in {cursorUp(scr, n), cursorDown(scr, n), cursorLeft(scr, n),
                                     cursorRight(scr, n), setCursorX(scr, n)}
      BY <1>0, <2>3
    <3>2. Good(scr') /\ scr'.wild = scr.wild
      BY <1>0, <3>1, MoveCursor
    <3> QED BY <1>0, <3>2, FineScreen
  <2>4. CASE \E n \in Count : scr' = setCursorY(scr, n)
    BY <1>0, <2>4, SetCursorY, FineScreen
  <2>5. CASE \E y, x \in Count : scr' = setCursorYX(scr, y, x)
    <3>1. PICK y \in Nat, x \in Nat : scr' = setCursorX(setCursorY(scr, y), x)
      BY <1>0, <2>5 DEF setCursorYX
    <3> DEFINE u == setCursorY(scr, y)
    <3>2. Good(u) /\ u.wild = scr.wild
      BY <1>0, SetCursorY
    <3> HIDE DEF u
    <3>3. scr' = setCursorX(u, x)
      BY <3>1 DEF u
    <3>4. Good(scr') /\ scr'.wild = u.wild
      BY <3>2, <3>3, MoveCursor
    <3> QED BY <1>0, <3>2, <3>4, FineScreen
  <2> QED BY <1>2, <2>2, <2>3, <2>4, <2>5 DEF Move
<1>3. CASE Scroll
  <2>1. CASE \E t, b \in Count : scr' = setMargins(scr, t, b)
    BY <1>0, <2>1, SetMargins, FineScreen
  <2>2. CASE scr' = index(scr)
    BY <1>0, <2>2, Index, FineScreen
  <2>3. CASE scr' = reverseIndex(scr)
    BY <1>0, <2>3, ReverseIndex, FineScreen
  <2>4. CASE scr' = NextLine(scr)
    BY <1>0, <2>4, NewLines, FineScreen
  <2> QED BY <1>3, <2>1, <2>2, <2>3, <2>4 DEF Scroll
<1>4. CASE Edit
  <2>1. PICK n \in Count : scr' \in {eraseChars(scr, n), deleteChars(scr, n), insertChars(scr, n),
                                     deleteLines(scr, n), insertLines(scr, n)}
    BY <1>4 DEF Edit
  <2>2. n \in Nat
    BY <1>0
  <2>3. CASE scr' = eraseChars(scr, n)
    BY <1>0, <2>2, <2>3, EraseChars, FineScreen
  <2>4. CASE scr' \in {deleteChars(scr, n), insertChars(scr, n)}
    BY <1>0, <2>4, FineEdit
  <2>5. CASE scr' = deleteLines(scr, n) \/ scr' = insertLines(scr, n)
    BY <1>0, <2>2, <2>5, DeleteLines, InsertLines, FineScreen
  <2> QED BY <2>1, <2>3, <2>4, <2>5
<1>5. CASE Erase
  <2>1. PICK e \in Cell : scr' \in {clearToEndOfScreen(scr), clearToBeginOfScreen(scr),
                                    clearEntireScreen(scr), helpAlign(scr, e), clearToEndOfLine(scr),
                                    clearToBeginOfLine(scr), clearEntireLine(scr)}
    BY <1>5 DEF Erase, Cell
  <2>2. Good(scr') /\ (scr.cuX < scr.columns => scr'.wild = scr.wild)
    BY <1>0, <2>1, EraseParts
  <2> QED BY <1>0, <2>2, FineScreen
<1>6. CASE Modes
  <2>1. CASE \E m \in Mode : scr' \in {setMode(scr, m), resetMode(scr, m)}
    <3>1. Good(scr') /\ scr'.wild = scr.wild
      BY <1>0, <2>1, SetModes
    <3> QED BY <1>0, <3>1, FineScreen
  <2>2. CASE \E m \in Kept : scr' \in {saveMode(scr, m), restoreMode(scr, m)}
    <3>1. Good(scr') /\ scr'.wild = scr.wild
      BY <1>0, <2>2, SavedModes
    <3> QED BY <1>0, <3>1, FineScreen
  <2>3. CASE scr' = reset(scr)
    BY <1>0, <2>3, Reset, FineScreen
  <2> QED BY <1>6, <2>1, <2>2, <2>3 DEF Modes
<1>7. CASE Cursor
  <2>1. scr' \in {saveCursor(scr), restoreCursor(scr)}
    BY <1>7 DEF Cursor
  <2>2. Good(scr') /\ scr'.wild = scr.wild
    BY <1>0, <2>1, SavedCursor
  <2> QED BY <1>0, <2>2, FineScreen
<1>8. CASE Tabs
  <2>1. CASE scr' = Tabulate(scr)
    BY <1>0, <2>1, NextStop, FineScreen
  <2>2. CASE \E set \in BOOLEAN : scr' \in {changeTabStop(scr, set), clearTabStops(scr)}
    <3>1. Good(scr') /\ scr'.wild = scr.wild
      BY <1>0, <2>2, TabStops
    <3> QED BY <1>0, <3>1, FineScreen
  <2> QED BY <1>8, <2>1, <2>2 DEF Tabs
<1>9. CASE Window
  <2>1. CASE \E size \in Sizes : scr' = resizeImage(scr, size[1], size[2])
    <3>1. PICK l \in Nat \ {0}, c \in Nat \ {0} : scr' = resizeImage(scr, l, c)
      BY <2>1, SizesAssumption
    <3> QED BY <1>0, <3>1, Resize, FineScreen
  <2>2. CASE \E c \in 0..Len(scr.hist) : scr' = setHistCursor(scr, c)
    BY <1>0, <2>2, HistCursor, FineScreen
  <2>3. CASE scr' = getCookedImage(scr)
    BY <1>0, <2>3, Cooked, FineScreen
  <2> QED BY <1>9, <2>1, <2>2, <2>3 DEF Window
<1>10. CASE Mouse
  <2>1. CASE \E x \in 0..scr.columns, y \in 0..(scr.lines - 1) :
                scr' \in {setSelBeginXY(scr, x, y), setSelExtentXY(scr, x, y)}
    <3>1. PICK x \in Int, y \in Int : scr' \in {setSelBeginXY(scr, x, y), setSelExtentXY(scr, x, y)}
      BY <2>1
    <3>2. Good(scr') /\ scr'.wild = scr.wild
      BY <1>0, <3>1, Select
    <3> QED BY <1>0, <3>2, FineScreen
  <2>2. CASE scr' = clearSelection(scr)
    BY <1>0, <2>2, ClearSelection, FineScreen
  <2> QED BY <1>10, <2>1, <2>2 DEF Mouse
<1> QED BY <1>0, <1>1, <1>2, <1>3, <1>4, <1>5, <1>6, <1>7, <1>8, <1>9, <1>10 DEF Next
-----------------------------------------------------------------------------
LEMMA Inductive == Spec => []Inv
<1>1. Init => Inv
  <2> SUFFICES ASSUME Init PROVE Inv
    OBVIOUS
  <2>1. PICK k \in Cases : scr = NewScreen(k.size[1], k.size[2], k.max) /\ uses = k.uses
    BY DEF Init
  <2>2. k.size[1] \in Nat \ {0} /\ k.size[2] \in Nat \ {0} /\ k.max \in Nat /\ k.uses \subseteq Groups
    BY CasesAssumption, SizesAssumption
  <2> QED BY <2>1, <2>2, New DEF Inv
<1>2. Inv /\ [Next]_vars => Inv'
  <2> SUFFICES ASSUME Inv, [Next]_vars PROVE Inv'
    OBVIOUS
  <2>1. CASE Next
    <3>1. Fine(scr, scr') /\ uses' = uses
      BY <2>1, StepFine
    <3> QED BY <3>1 DEF Inv, Fine
  <2>2. CASE UNCHANGED vars
    BY <2>2 DEF Inv, vars
  <2> QED BY <2>1, <2>2
<1> QED BY <1>1, <1>2, PTL DEF Spec

\* In every reachable state the cursor, the margins, the view and the history
\* of the screen are in their ranges, whatever the program writes and however
\* the user changes the size of the window (TEScreen.C).
THEOREM TypeCorrect == Spec => []TypeOK
<1>1. Inv => TypeOK
  BY DEF Inv, Good, TypeOK
<1> QED BY <1>1, Inductive, PTL

\* No operation of the screen touches a cell outside of the image, but with
\* the cursor right of the last column or by deleting or inserting more
\* characters than the line has left (TEScreen.C:247-267).
THEOREM Inside == Spec => StaysInside
<1> DEFINE Step == scr'.wild => \/ scr.cuX = scr.columns
                                \/ \E n \in Count : /\ n > scr.columns - scr.cuX
                                                    /\ scr' \in {deleteChars(scr, n), insertChars(scr, n)}
<1>1. Inv /\ [Next]_vars => [Step]_vars
  <2> SUFFICES ASSUME Inv, Next PROVE Step
    BY DEF vars
  <2>1. Fine(scr, scr')
    BY StepFine
  <2> QED BY <2>1 DEF Fine, Outside
<1> QED BY <1>1, Inductive, PTL DEF Spec, StaysInside
-----------------------------------------------------------------------------
(* Cells and lines *)

cell(s, x, y) == s.image[loc(s, x, y)]

\* The image lists the cells line after line.
LEMMA Ordered ==
    ASSUME NEW s, Good(s), NEW x \in 0..Last(s), NEW v \in 0..Last(s),
           NEW y \in 0..(s.lines - 1), NEW w \in 0..(s.lines - 1)
    PROVE  loc(s, x, y) =< loc(s, v, w) <=> y < w \/ (y = w /\ x =< v)
<1>1. s.columns \in Nat \ {0} /\ Last(s) = s.columns - 1 /\ s.lines \in Nat \ {0}
  BY Numbers
<1>2. x \in Int /\ v \in Int /\ y \in Int /\ w \in Int /\ x < s.columns /\ v < s.columns /\ 0 =< x /\ 0 =< v
  BY <1>1
<1>3. y * s.columns \in Int /\ w * s.columns \in Int
  BY <1>1, <1>2
<1>4. \A k, m \in Int : k < m => k * s.columns + s.columns =< m * s.columns
  <2> SUFFICES ASSUME NEW k \in Int, NEW m \in Int, k < m
               PROVE  k * s.columns + s.columns =< m * s.columns
    OBVIOUS
  <2>1. k + 1 \in Int /\ k + 1 =< m
    OBVIOUS
  <2>2. (k + 1) * s.columns =< m * s.columns
    BY <1>1, <2>1, Monotonic
  <2>3. (k + 1) * s.columns = k * s.columns + s.columns
    BY <1>1
  <2> QED BY <2>2, <2>3
<1>5. CASE y < w
  <2>1. y * s.columns + s.columns =< w * s.columns
    BY <1>2, <1>4, <1>5
  <2> HIDE DEF Last
  <2> QED BY <1>1, <1>2, <1>3, <1>5, <2>1 DEF loc
<1>6. CASE w < y
  <2>1. w * s.columns + s.columns =< y * s.columns
    BY <1>2, <1>4, <1>6
  <2> QED BY <1>1, <1>2, <1>3, <1>6, <2>1 DEF loc
<1>7. CASE y = w
  BY <1>2, <1>3, <1>7 DEF loc
<1> QED BY <1>2, <1>5, <1>6, <1>7

LEMMA CellPlace ==
    ASSUME NEW s, Good(s), NEW x \in 0..Last(s), NEW y \in 0..(s.lines - 1)
    PROVE  loc(s, x, y) \in DOMAIN s.image /\ loc(s, x, y) \in Int /\ cell(s, x, y) \in Cell
<1>1. /\ s.columns \in Nat \ {0} /\ Last(s) = s.columns - 1 /\ s.lines \in Nat \ {0}
      /\ s.lines * s.columns \in Int
  BY Numbers
<1>2. x \in Int /\ y \in Int /\ 0 =< x /\ x < s.columns /\ 0 =< y /\ y < s.lines
  BY <1>1
<1>3. loc(s, x, y) \in Int /\ Within(s, loc(s, x, y))
  BY <1>2, LocInside
<1>4. s.image \in [0..(s.lines * s.columns - 1) -> Cell]
  BY Parts
<1>5. loc(s, x, y) \in 0..(s.lines * s.columns - 1)
  BY <1>1, <1>3 DEF Within
<1> QED BY <1>3, <1>4, <1>5 DEF cell

LEMMA SamePlace ==
    ASSUME NEW s, NEW t, t.columns = s.columns
    PROVE  Last(t) = Last(s) /\ \A x, y : loc(t, x, y) = loc(s, x, y)
BY DEF Last, loc

\* Places (x,y) to (v,w) hold c in t, and the others what they hold in s.
Cleared(s, t, x, y, v, w, c) ==
    \A e \in 0..Last(s), f \in 0..(s.lines - 1) :
       cell(t, e, f) = IF (y < f \/ (y = f /\ x =< e)) /\ (f < w \/ (f = w /\ e =< v))
                       THEN c ELSE cell(s, e, f)

\* What clearImage makes of the cells, when it starts and ends on the screen
LEMMA ClearedCells ==
    ASSUME NEW s, Good(s), NEW x \in 0..Last(s), NEW v \in 0..Last(s),
           NEW y \in 0..(s.lines - 1), NEW w \in 0..(s.lines - 1), NEW c \in Cell,
           NEW t, t = clearImage(s, loc(s, x, y), loc(s, v, w), c)
    PROVE  Good(t) /\ Same(s, t) /\ Cleared(s, t, x, y, v, w, c)
<1> DEFINE a == loc(s, x, y)
           b == loc(s, v, w)
           u == IF s.sel_BR > a + loc(s, 0, s.histCursor) /\ s.sel_TL < b + loc(s, 0, s.histCursor)
                THEN clearSelection(s) ELSE s
           img == [i \in DOMAIN s.image |-> IF a =< i /\ i =< b THEN c ELSE s.image[i]]
<1>1. a \in Int /\ b \in Int /\ a \in DOMAIN s.image /\ b \in DOMAIN s.image
  BY CellPlace
<1>2. Within(s, a) /\ Within(s, b)
  <2>1. DOMAIN s.image = 0..(s.lines * s.columns - 1) /\ s.lines * s.columns \in Int
    BY Parts, Numbers
  <2> HIDE DEF a, b
  <2> QED BY <1>1, <2>1 DEF Within
<1>3. Good(t) /\ Same(s, t)
  <2> HIDE DEF a, b
  <2>1. t = clearImage(s, a, b, c)
    BY DEF a, b
  <2> QED BY <1>1, <2>1, ClearImage
<1>4. t = [u EXCEPT !.image = img]
  BY <1>2 DEF clearImage
<1>5. IsScreen(u)
  BY ClearSelection, Parts
<1> HIDE DEF u, img, a, b
<1>6. t.image = img
  BY <1>4, <1>5 DEF IsScreen, Fields
<1>7. ASSUME NEW e \in 0..Last(s), NEW f \in 0..(s.lines - 1)
      PROVE  cell(t, e, f) = IF (y < f \/ (y = f /\ x =< e)) /\ (f < w \/ (f = w /\ e =< v))
                             THEN c ELSE cell(s, e, f)
  <2>1. loc(t, e, f) = loc(s, e, f) /\ loc(s, e, f) \in DOMAIN s.image
    BY <1>3, CellPlace, SamePlace DEF Same
  <2>2. /\ a =< loc(s, e, f) <=> y < f \/ (y = f /\ x =< e)
        /\ loc(s, e, f) =< b <=> f < w \/ (f = w /\ e =< v)
    BY Ordered DEF a, b
  <2> QED BY <1>6, <2>1, <2>2 DEF cell, img
<1> QED BY <1>3, <1>7 DEF Cleared

\* The cells from (x,y) to (v,w) are m columns and n lines further in t, where
\* all others are as in s.
Moved(s, t, x, y, v, w, m, n) ==
    \A e \in 0..Last(s), f \in 0..(s.lines - 1) :
       LET into == /\ y + n < f \/ (y + n = f /\ x + m =< e)
                   /\ f < w + n \/ (f = w + n /\ e =< v + m)
       IN  /\ into /\ e - m \in 0..Last(s) /\ f - n \in 0..(s.lines - 1)
                 => cell(t, e, f) = cell(s, e - m, f - n)
           /\ ~into => cell(t, e, f) = cell(s, e, f)

\* What moveImage makes of the cells when it moves the places from (x,y) to
\* (v,w) by m columns and n lines, and all of that is on the screen
LEMMA MovedCells ==
    ASSUME NEW s, Good(s), NEW x \in 0..Last(s), NEW v \in 0..Last(s),
           NEW y \in 0..(s.lines - 1), NEW w \in 0..(s.lines - 1),
           y < w \/ (y = w /\ x =< v),
           NEW m \in Int, NEW n \in Int,
           x + m \in 0..Last(s), v + m \in 0..Last(s),
           y + n \in 0..(s.lines - 1), w + n \in 0..(s.lines - 1),
           NEW t, t = moveImage(s, loc(s, x + m, y + n), loc(s, x, y), loc(s, v, w))
    PROVE  Good(t) /\ Same(s, t) /\ Moved(s, t, x, y, v, w, m, n)
<1> DEFINE a == loc(s, x, y)
           b == loc(s, v, w)
           d == loc(s, x + m, y + n)
           img == [i \in DOMAIN s.image |-> IF d =< i /\ i =< d + b - a
                                            THEN s.image[i - d + a] ELSE s.image[i]]
<1>0. s.columns \in Int /\ Last(s) \in Int /\ s.lines \in Int
  BY Numbers
<1>1. /\ a \in Int /\ b \in Int /\ d \in Int
      /\ a \in DOMAIN s.image /\ b \in DOMAIN s.image /\ d \in DOMAIN s.image
      /\ a =< b
  BY CellPlace, Ordered
<1>2. \A i, j \in Int : loc(s, i + m, j + n) = loc(s, i, j) + m + n * s.columns
  <2> SUFFICES ASSUME NEW i \in Int, NEW j \in Int
               PROVE  loc(s, i + m, j + n) = loc(s, i, j) + m + n * s.columns
    OBVIOUS
  <2>1. (j + n) * s.columns = j * s.columns + n * s.columns
    BY <1>0
  <2>2. j * s.columns \in Int /\ n * s.columns \in Int
    BY <1>0
  <2> QED BY <2>1, <2>2 DEF loc
<1>3. n * s.columns \in Int
  BY <1>0
<1>4. x \in Int /\ y \in Int /\ v \in Int /\ w \in Int
  BY <1>0
<1>5. d = a + m + n * s.columns /\ loc(s, v + m, w + n) = b + m + n * s.columns
  BY <1>2, <1>4
<1>6. d + b - a = loc(s, v + m, w + n)
  <2> HIDE DEF a, b, d
  <2> QED BY <1>1, <1>3, <1>5
<1>7. loc(s, v + m, w + n) \in DOMAIN s.image /\ loc(s, v + m, w + n) \in Int
  BY CellPlace
<1>8. DOMAIN s.image = 0..(s.lines * s.columns - 1) /\ s.lines * s.columns \in Int
  BY Parts, Numbers
<1>9. t = [s EXCEPT !.image = img] /\ Good(t) /\ Same(s, t)
  <2>1. t = moveImage(s, d, a, b)
    OBVIOUS
  <2>2. d + b - a \in DOMAIN s.image
    BY <1>6, <1>7
  <2> HIDE DEF a, b, d
  <2>3. Within(s, a) /\ Within(s, b) /\ Within(s, d) /\ Within(s, d + b - a) /\ a # b + 1
    <3>1. \A i \in {a, b, d, d + b - a} : 0 =< i /\ i < s.lines * s.columns
      <4> DEFINE size == s.lines * s.columns
      <4>1. \A i \in DOMAIN s.image : 0 =< i /\ i < size
        <5> HIDE DEF size
        <5>1. DOMAIN s.image = 0..(size - 1) /\ size \in Int
          BY <1>8 DEF size
        <5> QED BY <5>1
      <4> QED BY <1>1, <2>2, <4>1
    <3> QED BY <1>1, <3>1 DEF Within
  <2>4. Good(t) /\ Same(s, t)
    BY <1>1, <2>1, MoveImage
  <2> QED BY <1>1, <2>1, <2>3, <2>4 DEF moveImage
<1>10. IsScreen(s)
  BY Parts
<1> HIDE DEF a, b, d, img
<1>11. t.image = img
  BY <1>9, <1>10 DEF IsScreen, Fields
<1>12. ASSUME NEW e \in 0..Last(s), NEW f \in 0..(s.lines - 1)
       PROVE  LET into == /\ y + n < f \/ (y + n = f /\ x + m =< e)
                          /\ f < w + n \/ (f = w + n /\ e =< v + m)
              IN  /\ into /\ e - m \in 0..Last(s) /\ f - n \in 0..(s.lines - 1)
                        => cell(t, e, f) = cell(s, e - m, f - n)
                  /\ ~into => cell(t, e, f) = cell(s, e, f)
  <2>1. loc(t, e, f) = loc(s, e, f) /\ loc(s, e, f) \in DOMAIN s.image /\ loc(s, e, f) \in Int
    BY <1>9, CellPlace, SamePlace DEF Same
  <2>2. /\ d =< loc(s, e, f) <=> y + n < f \/ (y + n = f /\ x + m =< e)
        /\ loc(s, e, f) =< d + b - a <=> f < w + n \/ (f = w + n /\ e =< v + m)
    BY <1>6, Ordered DEF d
  <2>3. e - m \in Int /\ f - n \in Int /\ e - m + m = e /\ f - n + n = f
    BY <1>0
  <2>4. loc(s, e, f) = loc(s, e - m, f - n) + m + n * s.columns
    BY <1>2, <2>3
  <2>5. loc(s, e - m, f - n) \in Int
    BY <2>3, LocInt
  <2>6. loc(s, e, f) - d + a = loc(s, e - m, f - n)
    BY <1>1, <1>3, <1>5, <2>1, <2>4, <2>5
  <2> QED BY <1>11, <2>1, <2>2, <2>6 DEF cell, img
<1> QED BY <1>9, <1>12 DEF Moved
-----------------------------------------------------------------------------
(* Lines as sequences *)

LEMMA LineCells ==
    ASSUME NEW s, Good(s), NEW y \in 0..(s.lines - 1)
    PROVE  /\ Line(s, y) \in [1..s.columns -> Cell] /\ Line(s, y) \in Seq(Cell)
           /\ Len(Line(s, y)) = s.columns
           /\ \A x \in 1..s.columns : Line(s, y)[x] = cell(s, x - 1, y)
<1>1. s.columns \in Nat \ {0} /\ Last(s) = s.columns - 1
  BY Numbers
<1>2. \A x \in 1..s.columns : x - 1 \in 0..Last(s)
  BY <1>1
<1>3. \A x \in 1..s.columns : cell(s, x - 1, y) \in Cell
  BY <1>2, CellPlace
<1>4. Line(s, y) = [x \in 1..s.columns |-> cell(s, x - 1, y)]
  BY DEF Line, cell
<1>5. Line(s, y) \in [1..s.columns -> Cell]
  BY <1>3, <1>4
<1>6. Line(s, y) \in Seq(Cell)
  BY <1>1, <1>5
<1>7. Len(Line(s, y)) = s.columns
  BY <1>1, <1>5
<1> QED BY <1>4, <1>5, <1>6, <1>7

LEMMA BlankCells ==
    ASSUME NEW n \in Nat
    PROVE  /\ Blanks(n) \in Seq(Cell) /\ Len(Blanks(n)) = n
           /\ \A i \in 1..n : Blanks(n)[i] = Blank
BY DEF Blanks, Cell

\* Sequence l is p, q and r in a row.
Joined(l, p, q, r) ==
    /\ Len(l) = Len(p) + Len(q) + Len(r)
    /\ \A i \in 1..(Len(p) + Len(q) + Len(r)) :
          l[i] = IF i =< Len(p) THEN p[i]
                 ELSE IF i =< Len(p) + Len(q) THEN q[i - Len(p)]
                 ELSE r[i - Len(p) - Len(q)]

LEMMA ThreeParts ==
    ASSUME NEW S, NEW p \in Seq(S), NEW q \in Seq(S), NEW r \in Seq(S)
    PROVE  p \o q \o r \in Seq(S) /\ Joined(p \o q \o r, p, q, r)
<1> DEFINE pq == p \o q
<1>0. Len(p) \in Nat /\ Len(q) \in Nat /\ Len(r) \in Nat
  BY LenProperties
<1>1. /\ pq \in Seq(S) /\ Len(pq) = Len(p) + Len(q)
      /\ \A i \in 1..(Len(p) + Len(q)) : pq[i] = IF i =< Len(p) THEN p[i] ELSE q[i - Len(p)]
  BY ConcatProperties
<1> HIDE DEF pq
<1>2. /\ pq \o r \in Seq(S) /\ Len(pq \o r) = Len(pq) + Len(r)
      /\ \A i \in 1..(Len(pq) + Len(r)) : (pq \o r)[i] = IF i =< Len(pq) THEN pq[i] ELSE r[i - Len(pq)]
  <2>1. pq \in Seq(S)
    BY <1>1
  <2> QED BY <2>1, ConcatProperties, Zenon
<1>3. pq \o r = p \o q \o r
  BY DEF pq
<1>4. ASSUME NEW i \in 1..(Len(p) + Len(q) + Len(r))
      PROVE  (pq \o r)[i] = IF i =< Len(p) THEN p[i]
                            ELSE IF i =< Len(p) + Len(q) THEN q[i - Len(p)]
                            ELSE r[i - Len(p) - Len(q)]
  <2>1. i \in 1..(Len(pq) + Len(r)) /\ i \in Int /\ i - Len(pq) = i - Len(p) - Len(q)
    BY <1>0, <1>1
  <2>2. (pq \o r)[i] = IF i =< Len(pq) THEN pq[i] ELSE r[i - Len(pq)]
    BY <1>2, <2>1
  <2>3. i =< Len(pq) => i \in 1..(Len(p) + Len(q))
    BY <1>0, <1>1
  <2> QED BY <1>0, <1>1, <2>1, <2>2, <2>3
<1>5. pq \o r \in Seq(S) /\ Joined(pq \o r, p, q, r)
  BY <1>1, <1>2, <1>4 DEF Joined
<1> QED BY <1>3, <1>5

\* Sequence l is columns m - 1 to n - 1 of line y.
Columns(l, s, y, m, n) ==
    /\ l \in Seq(Cell) /\ Len(l) = n - m + 1
    /\ \A i \in 1..(n - m + 1) : l[i] = cell(s, m + i - 2, y)

\* A part of a line
LEMMA PartCells ==
    ASSUME NEW s, Good(s), NEW y \in 0..(s.lines - 1),
           NEW m \in Int, NEW n \in Int, 1 =< m, m =< n + 1, n =< s.columns
    PROVE  Columns(SubSeq(Line(s, y), m, n), s, y, m, n)
<1> DEFINE l == Line(s, y)
<1>1. l \in [1..s.columns -> Cell] /\ \A x \in 1..s.columns : l[x] = cell(s, x - 1, y)
  BY LineCells
<1>0. s.columns \in Nat
  BY Numbers
<1> HIDE DEF l
<1>2. \A i \in m..n : i \in 1..s.columns /\ l[i] \in Cell
  BY <1>0, <1>1
<1>3. /\ SubSeq(l, m, n) \in Seq(Cell)
      /\ Len(SubSeq(l, m, n)) = IF m =< n THEN n - m + 1 ELSE 0
      /\ \A i \in 1..(n - m + 1) : SubSeq(l, m, n)[i] = l[m + i - 1]
  BY <1>2, SubSeqProperties
<1>4. ASSUME NEW i \in 1..(n - m + 1) PROVE SubSeq(l, m, n)[i] = cell(s, m + i - 2, y)
  <2>1. m + i - 1 \in 1..s.columns /\ (m + i - 1) - 1 = m + i - 2
    BY <1>0
  <2> QED BY <1>1, <1>3, <2>1
<1>5. Len(SubSeq(l, m, n)) = n - m + 1
  BY <1>3
<1> QED BY <1>3, <1>4, <1>5 DEF l, Columns

Replaced(s, t, y, r) ==
    \A e \in 0..Last(s), f \in 0..(s.lines - 1) :
       cell(t, e, f) = IF f = y THEN r[e + 1] ELSE cell(s, e, f)

\* One line of the screen is replaced.
LEMMA OneLine ==
    ASSUME NEW s, Good(s), NEW t, Good(t), Same(s, t), NEW y \in 0..(s.lines - 1),
           NEW r \in Seq(Cell), Len(r) = s.columns, Replaced(s, t, y, r)
    PROVE  Rows(t) = [Rows(s) EXCEPT ![y + 1] = r]
<1>1. /\ s.columns \in Nat \ {0} /\ Last(s) = s.columns - 1 /\ s.lines \in Nat \ {0}
      /\ t.lines = s.lines /\ t.columns = s.columns /\ y \in Int
  BY Numbers DEF Same
<1>2. r = [x \in 1..s.columns |-> r[x]]
  BY LenProperties
<1>3. ASSUME NEW f \in 1..s.lines PROVE Line(t, f - 1) = IF f = y + 1 THEN r ELSE Line(s, f - 1)
  <2>1. f - 1 \in 0..(s.lines - 1)
    BY <1>1
  <2>2. \A x \in 1..s.columns : cell(t, x - 1, f - 1) = IF f - 1 = y THEN r[x] ELSE cell(s, x - 1, f - 1)
    <3> SUFFICES ASSUME NEW x \in 1..s.columns
                 PROVE cell(t, x - 1, f - 1) = IF f - 1 = y THEN r[x] ELSE cell(s, x - 1, f - 1)
      OBVIOUS
    <3>1. x - 1 \in 0..Last(s) /\ (x - 1) + 1 = x
      BY <1>1
    <3> QED BY <2>1, <3>1 DEF Replaced
  <2>3. f = y + 1 <=> f - 1 = y
    BY <1>1
  <2>4. Line(t, f - 1) = [x \in 1..s.columns |-> cell(t, x - 1, f - 1)]
    BY <1>1 DEF Line, cell
  <2>5. Line(s, f - 1) = [x \in 1..s.columns |-> cell(s, x - 1, f - 1)]
    BY DEF Line, cell
  <2> QED BY <1>2, <2>2, <2>3, <2>4, <2>5
<1>4. Rows(t) = [f \in 1..s.lines |-> Line(t, f - 1)] /\ Rows(s) = [f \in 1..s.lines |-> Line(s, f - 1)]
  BY <1>1 DEF Rows
<1> QED BY <1>3, <1>4
-----------------------------------------------------------------------------
(* Editing a line *)

Before(s)   == SubSeq(Line(s, s.cuY), 1, s.cuX)
After(s, n) == SubSeq(Line(s, s.cuY), s.cuX + n + 1, s.columns)
Rest1(s, n) == SubSeq(Line(s, s.cuY), s.cuX + 1, s.columns - n)

\* The parts of the cursor's line, when it is not right of the last column
LEMMA EditParts ==
    ASSUME NEW s, Good(s), NEW n \in Nat, n =< s.columns - s.cuX
    PROVE  /\ Before(s) \in Seq(Cell) /\ Len(Before(s)) = s.cuX
           /\ \A i \in 1..s.cuX : Before(s)[i] = cell(s, i - 1, s.cuY)
           /\ After(s, n) \in Seq(Cell) /\ Len(After(s, n)) = s.columns - s.cuX - n
           /\ \A i \in 1..(s.columns - s.cuX - n) : After(s, n)[i] = cell(s, s.cuX + n + i - 1, s.cuY)
           /\ Rest1(s, n) \in Seq(Cell) /\ Len(Rest1(s, n)) = s.columns - s.cuX - n
           /\ \A i \in 1..(s.columns - s.cuX - n) : Rest1(s, n)[i] = cell(s, s.cuX + i - 1, s.cuY)
<1>1. s.columns \in Nat \ {0} /\ s.cuX \in Nat /\ s.cuY \in 0..(s.lines - 1)
  BY Numbers
<1>2. Columns(Before(s), s, s.cuY, 1, s.cuX)
  <2>1. 1 \in Int /\ s.cuX \in Int /\ 1 =< 1 /\ 1 =< s.cuX + 1 /\ s.cuX =< s.columns
    BY <1>1
  <2> QED BY <1>1, <2>1, PartCells DEF Before
<1>3. Columns(After(s, n), s, s.cuY, s.cuX + n + 1, s.columns)
  <2>1. s.cuX + n + 1 \in Int /\ 1 =< s.cuX + n + 1 /\ s.cuX + n + 1 =< s.columns + 1
        /\ s.columns \in Int /\ s.columns =< s.columns
    BY <1>1
  <2> QED BY <1>1, <2>1, PartCells DEF After
<1>4. Columns(Rest1(s, n), s, s.cuY, s.cuX + 1, s.columns - n)
  <2>1. /\ s.cuX + 1 \in Int /\ 1 =< s.cuX + 1 /\ s.columns - n \in Int
        /\ s.cuX + 1 =< s.columns - n + 1 /\ s.columns - n =< s.columns
    BY <1>1
  <2> QED BY <1>1, <2>1, PartCells DEF Rest1
<1>5. /\ s.cuX - 1 + 1 = s.cuX
      /\ s.columns - (s.cuX + n + 1) + 1 = s.columns - s.cuX - n
      /\ s.columns - n - (s.cuX + 1) + 1 = s.columns - s.cuX - n
      /\ \A i \in Int : /\ 1 + i - 2 = i - 1 /\ (s.cuX + n + 1) + i - 2 = s.cuX + n + i - 1
                        /\ (s.cuX + 1) + i - 2 = s.cuX + i - 1
  BY <1>1
<1>6. /\ Before(s) \in Seq(Cell) /\ Len(Before(s)) = s.cuX
      /\ \A i \in 1..s.cuX : Before(s)[i] = cell(s, i - 1, s.cuY)
  BY <1>1, <1>2, <1>5 DEF Columns
<1>7. /\ After(s, n) \in Seq(Cell) /\ Len(After(s, n)) = s.columns - s.cuX - n
      /\ \A i \in 1..(s.columns - s.cuX - n) : After(s, n)[i] = cell(s, s.cuX + n + i - 1, s.cuY)
  BY <1>1, <1>3, <1>5 DEF Columns
<1>8. /\ Rest1(s, n) \in Seq(Cell) /\ Len(Rest1(s, n)) = s.columns - s.cuX - n
      /\ \A i \in 1..(s.columns - s.cuX - n) : Rest1(s, n)[i] = cell(s, s.cuX + i - 1, s.cuY)
  BY <1>1, <1>4, <1>5 DEF Columns
<1> QED BY <1>6, <1>7, <1>8

\* What clearImage and moveImage make of the image when there is nothing to do
LEMMA NoneCleared ==
    ASSUME NEW s, Good(s), NEW a \in Int, NEW b \in Int, a > b, NEW c \in Cell
    PROVE  clearImage(s, a, b, c).image = s.image
<1> DEFINE u == IF s.sel_BR > a + loc(s, 0, s.histCursor) /\ s.sel_TL < b + loc(s, 0, s.histCursor)
                THEN clearSelection(s) ELSE s
           img == [i \in DOMAIN s.image |-> IF a =< i /\ i =< b THEN c ELSE s.image[i]]
<1>1. clearImage(s, a, b, c) = [u EXCEPT !.image = img]
  BY DEF clearImage
<1>2. IsScreen(u)
  BY ClearSelection, Parts
<1>3. img = s.image
  <2>1. DOMAIN s.image = 0..(s.lines * s.columns - 1) /\ s.lines * s.columns \in Int
    BY Parts, Numbers
  <2>2. \A i \in DOMAIN s.image : ~(a =< i /\ i =< b)
    BY <2>1
  <2>3. img = [i \in DOMAIN s.image |-> s.image[i]]
    BY <2>2
  <2>4. s.image = [i \in DOMAIN s.image |-> s.image[i]]
    BY Parts
  <2> QED BY <2>3, <2>4
<1> HIDE DEF u, img
<1>4. [u EXCEPT !.image = img].image = img
  BY <1>2 DEF IsScreen, Fields
<1> QED BY <1>1, <1>3, <1>4

LEMMA MovedNowhere ==
    ASSUME NEW s, Good(s), NEW a \in Int, NEW b \in Int
    PROVE  moveImage(s, a, a, b).image = s.image
<1> DEFINE img == [i \in DOMAIN s.image |-> IF a =< i /\ i =< a + b - a
                                            THEN s.image[i - a + a] ELSE s.image[i]]
<1>1. IsScreen(s) /\ DOMAIN s.image = 0..(s.lines * s.columns - 1) /\ s.lines * s.columns \in Int
  BY Parts, Numbers
<1>2. img = s.image
  <2>1. \A i \in DOMAIN s.image : i - a + a = i
    BY <1>1
  <2>2. img = [i \in DOMAIN s.image |-> s.image[i]]
    BY <2>1
  <2>3. s.image = [i \in DOMAIN s.image |-> s.image[i]]
    BY Parts
  <2> QED BY <2>2, <2>3
<1>3. moveImage(s, a, a, b) \in {s, [s EXCEPT !.image = img], [s EXCEPT !.wild = TRUE]}
  BY DEF moveImage
<1> HIDE DEF img
<1>4. [s EXCEPT !.image = img].image = img /\ [s EXCEPT !.wild = TRUE].image = s.image
  BY <1>1 DEF IsScreen, Fields
<1> QED BY <1>2, <1>3, <1>4

\* Clearing columns x to v of a line, or none when v is the column before x
LEMMA ClearedPart ==
    ASSUME NEW s, Good(s), NEW y \in 0..(s.lines - 1), NEW x \in 0..s.columns,
           NEW v \in Int, v =< Last(s), x =< v + 1,
           NEW t, t = clearImage(s, loc(s, x, y), loc(s, v, y), Blank)
    PROVE  /\ Good(t) /\ Same(s, t)
           /\ \A e \in 0..Last(s), f \in 0..(s.lines - 1) :
                 cell(t, e, f) = IF f = y /\ x =< e /\ e =< v THEN Blank ELSE cell(s, e, f)
<1>1. s.columns \in Nat \ {0} /\ s.lines \in Nat \ {0} /\ Last(s) = s.columns - 1 /\ x \in Int /\ y \in Int
  BY Numbers
<1>2. Blank \in Cell
  BY DEF Cell
<1>3. CASE x =< v
  <2>1. x \in 0..Last(s) /\ v \in 0..Last(s)
    BY <1>1, <1>3
  <2>2. Good(t) /\ Same(s, t) /\ Cleared(s, t, x, y, v, y, Blank)
    BY <1>2, <2>1, ClearedCells
  <2>3. \A e \in 0..Last(s), f \in 0..(s.lines - 1) :
           (y < f \/ (y = f /\ x =< e)) /\ (f < y \/ (f = y /\ e =< v)) <=> f = y /\ x =< e /\ e =< v
    BY <1>1
  <2> QED BY <2>2, <2>3 DEF Cleared
<1>4. CASE x = v + 1
  <2>1. loc(s, x, y) \in Int /\ loc(s, v, y) \in Int /\ loc(s, x, y) > loc(s, v, y)
    <3>1. y * s.columns \in Int
      BY <1>1
    <3> QED BY <1>1, <1>4, <3>1 DEF loc
  <2>2. Good(t) /\ Same(s, t)
    BY <1>2, <2>1, ClearImage
  <2>3. t.image = s.image
    BY <1>2, <2>1, NoneCleared
  <2>4. \A e, f : cell(t, e, f) = cell(s, e, f)
    BY <2>2, <2>3 DEF cell, loc, Same
  <2>5. \A e \in 0..Last(s) : ~(x =< e /\ e =< v)
    BY <1>1, <1>4
  <2> QED BY <2>2, <2>4, <2>5
<1> QED BY <1>1, <1>3, <1>4

LEMMA ErasesInLine ==
    ASSUME NEW s, Good(s), NEW i \in Nat, NEW n, n = Lower(OrOne(i), s.columns - s.cuX)
    PROVE  Rows(eraseChars(s, i))
             = [Rows(s) EXCEPT ![s.cuY + 1] = Before(s) \o Blanks(n) \o After(s, n)]
<1> DEFINE t == eraseChars(s, i)
           r == Before(s) \o Blanks(n) \o After(s, n)
           p == s.cuX + n - 1
<1>1. /\ s.columns \in Nat \ {0} /\ s.cuX \in 0..s.columns /\ s.cuY \in 0..(s.lines - 1)
      /\ s.lines \in Nat \ {0} /\ Last(s) = s.columns - 1
  BY Numbers
<1>2. n \in Nat /\ n =< s.columns - s.cuX /\ p \in Int /\ p =< Last(s) /\ s.cuX =< p + 1
  BY <1>1 DEF Lower, OrOne
<1>3. t = clearImage(s, loc(s, s.cuX, s.cuY), loc(s, p, s.cuY), Blank)
  <2>1. Higher(0, Lower(s.cuX + OrOne(i) - 1, Last(s))) = p
    BY <1>1 DEF Higher, Lower, OrOne
  <2> QED BY <2>1 DEF eraseChars
<1>4. /\ Good(t) /\ Same(s, t)
      /\ \A e \in 0..Last(s), f \in 0..(s.lines - 1) :
            cell(t, e, f) = IF f = s.cuY /\ s.cuX =< e /\ e =< p THEN Blank ELSE cell(s, e, f)
  <2> HIDE DEF t, p
  <2> QED BY <1>1, <1>2, <1>3, ClearedPart
<1>5. /\ r \in Seq(Cell) /\ Len(r) = s.columns
      /\ \A j \in 1..s.columns : r[j] = IF j =< s.cuX THEN cell(s, j - 1, s.cuY)
                                        ELSE IF j =< s.cuX + n THEN Blank
                                        ELSE cell(s, j - 1, s.cuY)
  <2> DEFINE b == Before(s)
             k == Blanks(n)
             a == After(s, n)
  <2>1. /\ b \in Seq(Cell) /\ Len(b) = s.cuX
        /\ \A j \in 1..s.cuX : b[j] = cell(s, j - 1, s.cuY)
        /\ a \in Seq(Cell) /\ Len(a) = s.columns - s.cuX - n
        /\ \A j \in 1..(s.columns - s.cuX - n) : a[j] = cell(s, s.cuX + n + j - 1, s.cuY)
    BY <1>2, EditParts
  <2>2. k \in Seq(Cell) /\ Len(k) = n /\ \A j \in 1..n : k[j] = Blank
    BY <1>2, BlankCells
  <2> HIDE DEF a, b, k
  <2>3. b \o k \o a \in Seq(Cell) /\ Joined(b \o k \o a, b, k, a)
    BY <2>1, <2>2, ThreeParts
  <2>4. r = b \o k \o a
    BY DEF a, b, k
  <2> HIDE DEF r
  <2>5. Len(b) + Len(k) + Len(a) = s.columns
    BY <1>1, <1>2, <2>1, <2>2
  <2>6. ASSUME NEW j \in 1..s.columns
        PROVE  r[j] = IF j =< s.cuX THEN cell(s, j - 1, s.cuY)
                      ELSE IF j =< s.cuX + n THEN Blank
                      ELSE cell(s, j - 1, s.cuY)
    <3>1. r[j] = IF j =< s.cuX THEN b[j]
                 ELSE IF j =< s.cuX + n THEN k[j - s.cuX]
                 ELSE a[j - s.cuX - n]
      BY <1>2, <2>1, <2>2, <2>3, <2>4, <2>5 DEF Joined
    <3>2. j =< s.cuX => j \in 1..s.cuX
      BY <1>1, <1>2
    <3>3. ~(j =< s.cuX) /\ j =< s.cuX + n => j - s.cuX \in 1..n
      BY <1>1, <1>2
    <3>4. ~(j =< s.cuX + n) => /\ j - s.cuX - n \in 1..(s.columns - s.cuX - n)
                               /\ s.cuX + n + (j - s.cuX - n) - 1 = j - 1
      BY <1>1, <1>2
    <3> QED BY <2>1, <2>2, <3>1, <3>2, <3>3, <3>4
  <2> QED BY <2>3, <2>4, <2>5, <2>6 DEF Joined
<1> HIDE DEF t, r
<1>6. ASSUME NEW e \in 0..Last(s), NEW f \in 0..(s.lines - 1)
      PROVE  cell(t, e, f) = IF f = s.cuY THEN r[e + 1] ELSE cell(s, e, f)
  <2>1. e + 1 \in 1..s.columns /\ (e + 1) - 1 = e /\ e \in Int /\ f \in Int /\ s.cuY \in Int
    BY <1>1
  <2>2. cell(t, e, f) = IF f = s.cuY /\ s.cuX =< e /\ e =< p THEN Blank ELSE cell(s, e, f)
    BY <1>4
  <2>3. r[e + 1] = IF s.cuX =< e /\ e =< p THEN Blank ELSE cell(s, e, s.cuY)
    <3>1. r[e + 1] = IF e + 1 =< s.cuX THEN cell(s, e, s.cuY)
                     ELSE IF e + 1 =< s.cuX + n THEN Blank ELSE cell(s, e, s.cuY)
      BY <1>5, <2>1
    <3>2. s.cuX \in Int /\ n \in Int
      BY <1>1, <1>2
    <3>3. (e + 1 =< s.cuX <=> ~(s.cuX =< e)) /\ (e + 1 =< s.cuX + n <=> e =< p)
      BY <2>1, <3>2
    <3> QED BY <3>1, <3>3
  <2> QED BY <2>2, <2>3
<1>7. Rows(t) = [Rows(s) EXCEPT ![s.cuY + 1] = r]
  <2>1. Replaced(s, t, s.cuY, r)
    BY <1>6 DEF Replaced
  <2> QED BY <1>1, <1>4, <1>5, <2>1, OneLine
<1> QED BY <1>7 DEF t, r

LEMMA DeletesInLine ==
    ASSUME NEW s, Good(s), NEW n \in Nat, 1 =< n, n =< s.columns - s.cuX
    PROVE  Rows(deleteChars(s, n))
             = [Rows(s) EXCEPT ![s.cuY + 1] = Before(s) \o After(s, n) \o Blanks(n)]
<1> DEFINE t == deleteChars(s, n)
           r == Before(s) \o After(s, n) \o Blanks(n)
           p == Higher(0, Lower(s.cuX + n, Last(s)))
           m == moveImage(s, loc(s, s.cuX, s.cuY), loc(s, p, s.cuY), loc(s, Last(s), s.cuY))
           g == s.columns - n
<1>1. /\ s.columns \in Nat \ {0} /\ s.cuX \in Nat /\ s.cuY \in 0..(s.lines - 1) /\ s.lines \in Nat \ {0}
      /\ Last(s) = s.columns - 1
  BY Numbers
<1>2. /\ p \in 0..Last(s) /\ Last(s) \in 0..Last(s) /\ s.cuX \in 0..Last(s) /\ s.cuX =< p
      /\ p = (IF s.cuX + n =< Last(s) THEN s.cuX + n ELSE Last(s))
      /\ g \in 0..Last(s) /\ s.cuX =< g
  BY <1>1 DEF Higher, Lower
<1> HIDE DEF p
<1>3. /\ Good(m) /\ Same(s, m)
      /\ \A e \in 0..Last(s) :
            /\ s.cuX =< e /\ e < g => cell(m, e, s.cuY) = cell(s, e + n, s.cuY)
            /\ e < s.cuX => cell(m, e, s.cuY) = cell(s, e, s.cuY)
      /\ \A e \in 0..Last(s), f \in 0..(s.lines - 1) \ {s.cuY} : cell(m, e, f) = cell(s, e, f)
  <2> DEFINE d == s.cuX - p
             y == s.cuY
             z == 0
  <2>0. p \in Int /\ s.cuX \in Int /\ Last(s) \in Int /\ p =< Last(s)
    BY <1>1, <1>2
  <2>a. d \in Int /\ p + d = s.cuX /\ Last(s) + d \in 0..Last(s)
    <3>1. s.cuX =< p /\ 0 =< s.cuX
      BY <1>1, <1>2
    <3> HIDE DEF y, z
    <3>2. \A a, b, c \in Int : 0 =< a /\ a =< b /\ b =< c =>
             a - b \in Int /\ b + (a - b) = a /\ c + (a - b) \in 0..c
      OBVIOUS
    <3> QED BY <2>0, <3>1, <3>2
  <2>b. z \in Int /\ y + z = y /\ y \in 0..(s.lines - 1)
    BY <1>1
  <2>1. /\ d \in Int /\ p + d = s.cuX /\ Last(s) + d \in 0..Last(s) /\ z \in Int
        /\ y + z = y /\ y \in 0..(s.lines - 1) /\ p =< Last(s)
        /\ p + d \in 0..Last(s)
    BY <1>2, <2>0, <2>a, <2>b
  <2>2. m = moveImage(s, loc(s, p + d, y + z), loc(s, p, y), loc(s, Last(s), y))
    BY <2>1
  <2> HIDE DEF m, d, y, z
  <2>3. Good(m) /\ Same(s, m) /\ Moved(s, m, p, y, Last(s), y, d, z)
    BY <1>2, <2>1, <2>2, MovedCells
  <2>4. ASSUME NEW e \in 0..Last(s), s.cuX =< e, e < g
        PROVE  cell(m, e, s.cuY) = cell(s, e + n, s.cuY)
    <3>1. s.cuX + n =< Last(s) /\ d = -n
      BY <1>1, <1>2, <2>4 DEF d
    <3>2. /\ e - d = e + n /\ e + n \in 0..Last(s) /\ e =< Last(s) + d
          /\ y - z = y /\ y \in 0..(s.lines - 1) /\ p + d =< e
      BY <1>1, <2>1, <2>4, <3>1 DEF z
    <3> QED BY <2>1, <2>3, <3>2 DEF y, Moved
  <2>5. ASSUME NEW e \in 0..Last(s), e < s.cuX
        PROVE  cell(m, e, s.cuY) = cell(s, e, s.cuY)
    <3>1. ~(p + d =< e) /\ y + z = y /\ ~(y < y)
      BY <1>1, <2>1, <2>5 DEF y
    <3> QED BY <2>1, <2>3, <3>1 DEF y, Moved
  <2>6. ASSUME NEW e \in 0..Last(s), NEW f \in 0..(s.lines - 1) \ {s.cuY}
        PROVE  cell(m, e, f) = cell(s, e, f)
    <3>1. ~(y + z < f /\ f < y + z) /\ y + z # f
      BY <1>1, <2>1 DEF y
    <3> QED BY <2>3, <3>1 DEF Moved
  <2> QED BY <2>3, <2>4, <2>5, <2>6
<1>4. t = clearImage(m, loc(m, g, m.cuY), loc(m, Last(m), m.cuY), Blank)
  <2>1. OrOne(n) = n
    BY DEF OrOne
  <2>2. /\ loc(m, g, m.cuY) = loc(s, g, s.cuY) /\ loc(m, Last(m), m.cuY) = loc(s, Last(s), s.cuY)
    BY <1>3 DEF Same, loc, Last
  <2> QED BY <2>1, <2>2 DEF deleteChars, p
<1> HIDE DEF m
<1>5. /\ Good(t) /\ Same(s, t)
      /\ \A e \in 0..Last(s), f \in 0..(s.lines - 1) :
            cell(t, e, f) = IF f = s.cuY /\ g =< e THEN Blank ELSE cell(m, e, f)
  <2>0. m.cuY = s.cuY /\ m.lines = s.lines /\ m.columns = s.columns /\ Last(m) = Last(s)
    BY <1>3 DEF Same, Last
  <2>1. Blank \in Cell
    BY DEF Cell
  <2> HIDE DEF t, g
  <2>2. Good(t) /\ Same(m, t) /\ Cleared(m, t, g, m.cuY, Last(m), m.cuY, Blank)
    BY <1>1, <1>2, <1>3, <1>4, <2>0, <2>1, ClearedCells
  <2>3. Same(s, t)
    BY <1>3, <2>2 DEF Same
  <2>4. ASSUME NEW e \in 0..Last(s), NEW f \in 0..(s.lines - 1)
        PROVE  cell(t, e, f) = IF f = s.cuY /\ g =< e THEN Blank ELSE cell(m, e, f)
    <3>1. f \in Int /\ s.cuY \in Int /\ e =< Last(s)
      BY <1>1
    <3> QED BY <2>0, <2>2, <3>1 DEF Cleared
  <2> QED BY <2>2, <2>3, <2>4
<1>6. /\ r \in Seq(Cell) /\ Len(r) = s.columns
      /\ \A i \in 1..s.columns : r[i] = IF i =< s.cuX THEN cell(s, i - 1, s.cuY)
                                        ELSE IF i =< g THEN cell(s, i - 1 + n, s.cuY)
                                        ELSE Blank
  <2> DEFINE b == Before(s)
             k == Blanks(n)
             a == After(s, n)
  <2>1. /\ b \in Seq(Cell) /\ Len(b) = s.cuX
        /\ \A i \in 1..s.cuX : b[i] = cell(s, i - 1, s.cuY)
        /\ a \in Seq(Cell) /\ Len(a) = s.columns - s.cuX - n
        /\ \A i \in 1..(s.columns - s.cuX - n) : a[i] = cell(s, s.cuX + n + i - 1, s.cuY)
    BY EditParts
  <2>2. k \in Seq(Cell) /\ Len(k) = n /\ \A i \in 1..n : k[i] = Blank
    BY BlankCells
  <2> HIDE DEF a, b, k
  <2>3. b \o a \o k \in Seq(Cell) /\ Joined(b \o a \o k, b, a, k)
    BY <2>1, <2>2, ThreeParts
  <2>4. r = b \o a \o k
    BY DEF a, b, k
  <2> HIDE DEF r
  <2>5. Len(b) + Len(a) + Len(k) = s.columns /\ Len(b) + Len(a) = g
    BY <1>1, <2>1, <2>2
  <2>6. ASSUME NEW i \in 1..s.columns
        PROVE  r[i] = IF i =< s.cuX THEN cell(s, i - 1, s.cuY)
                      ELSE IF i =< g THEN cell(s, i - 1 + n, s.cuY)
                      ELSE Blank
    <3>1. r[i] = IF i =< s.cuX THEN b[i]
                 ELSE IF i =< g THEN a[i - s.cuX]
                 ELSE k[i - s.cuX - Len(a)]
      BY <2>1, <2>2, <2>3, <2>4, <2>5 DEF Joined
    <3>2. i =< s.cuX => i \in 1..s.cuX
      BY <1>1
    <3>3. ~(i =< s.cuX) /\ i =< g => /\ i - s.cuX \in 1..(s.columns - s.cuX - n)
                                     /\ s.cuX + n + (i - s.cuX) - 1 = i - 1 + n
      BY <1>1
    <3>4. ~(i =< g) => i - s.cuX - Len(a) \in 1..n
      <4>1. Len(a) = s.columns - s.cuX - n
        BY <2>1
      <4>2. i - s.cuX - Len(a) = i - s.columns + n
        BY <1>1, <4>1
      <4>3. ~(i =< g) => i - s.columns + n \in 1..n
        BY <1>1
      <4> QED BY <4>2, <4>3
    <3> QED BY <2>1, <2>2, <3>1, <3>2, <3>3, <3>4
  <2> QED BY <2>3, <2>4, <2>5, <2>6 DEF Joined
<1> HIDE DEF t, r
<1>7. ASSUME NEW e \in 0..Last(s), NEW f \in 0..(s.lines - 1)
      PROVE  cell(t, e, f) = IF f = s.cuY THEN r[e + 1] ELSE cell(s, e, f)
  <2>1. /\ e + 1 \in 1..s.columns /\ (e + 1) - 1 = e /\ (e + 1) - 1 + n = e + n
        /\ e \in Int /\ g \in Int /\ s.cuX \in Int
    BY <1>1
  <2>2. cell(t, e, f) = IF f = s.cuY /\ g =< e THEN Blank ELSE cell(m, e, f)
    BY <1>5
  <2>3. CASE f # s.cuY
    BY <1>3, <2>2, <2>3
  <2>4. CASE f = s.cuY
    <3>1. r[e + 1] = IF e < s.cuX THEN cell(s, e, s.cuY)
                     ELSE IF e < g THEN cell(s, e + n, s.cuY) ELSE Blank
      BY <1>6, <2>1
    <3>2. cell(t, e, f) = IF e < s.cuX THEN cell(s, e, s.cuY)
                          ELSE IF e < g THEN cell(s, e + n, s.cuY) ELSE Blank
      BY <1>2, <1>3, <2>1, <2>2, <2>4
    <3> QED BY <2>4, <3>1, <3>2
  <2> QED BY <2>3, <2>4
<1>8. Rows(t) = [Rows(s) EXCEPT ![s.cuY + 1] = r]
  <2>1. Replaced(s, t, s.cuY, r)
    BY <1>7 DEF Replaced
  <2> QED BY <1>1, <1>5, <1>6, <2>1, OneLine
<1> QED BY <1>8 DEF t, r

LEMMA InsertsInLine ==
    ASSUME NEW s, Good(s), NEW n \in Nat, 1 =< n, s.cuX + n < s.columns
    PROVE  Rows(insertChars(s, n))
             = [Rows(s) EXCEPT ![s.cuY + 1] = Before(s) \o Blanks(n) \o Rest1(s, n)]
<1> DEFINE t == insertChars(s, n)
           r == Before(s) \o Blanks(n) \o Rest1(s, n)
           p == Higher(0, Lower(Last(s) - n, Last(s)))
           q == Higher(0, Lower(s.cuX + n, Last(s)))
           m == moveImage(s, loc(s, q, s.cuY), loc(s, s.cuX, s.cuY), loc(s, p, s.cuY))
<1>1. /\ s.columns \in Nat \ {0} /\ s.cuX \in Nat /\ s.cuY \in 0..(s.lines - 1) /\ s.lines \in Nat \ {0}
      /\ Last(s) = s.columns - 1
  BY Numbers
<1>2. /\ p = Last(s) - n /\ q = s.cuX + n /\ q - 1 \in 0..Last(s) /\ s.cuX =< q - 1
      /\ p \in 0..Last(s) /\ q \in 0..Last(s) /\ s.cuX \in 0..Last(s) /\ s.cuX =< p
      /\ p + n = Last(s) /\ p + n \in 0..Last(s) /\ n =< s.columns - s.cuX
  BY <1>1 DEF Higher, Lower
<1> HIDE DEF p, q
<1>3. /\ Good(m) /\ Same(s, m)
      /\ \A e \in 0..Last(s) :
            /\ s.cuX + n =< e => cell(m, e, s.cuY) = cell(s, e - n, s.cuY)
            /\ e < s.cuX => cell(m, e, s.cuY) = cell(s, e, s.cuY)
      /\ \A e \in 0..Last(s), f \in 0..(s.lines - 1) \ {s.cuY} : cell(m, e, f) = cell(s, e, f)
  <2> DEFINE x == s.cuX
             y == s.cuY
             z == 0
  <2>1. /\ z \in Int /\ y + z = y /\ y \in 0..(s.lines - 1) /\ x \in 0..Last(s) /\ x =< p
        /\ x + n \in 0..Last(s) /\ n \in Int
    BY <1>1, <1>2
  <2>2. m = moveImage(s, loc(s, x + n, y + z), loc(s, x, y), loc(s, p, y))
    BY <1>2, <2>1
  <2> HIDE DEF m, x, y, z
  <2>3. Good(m) /\ Same(s, m) /\ Moved(s, m, x, y, p, y, n, z)
    BY <1>2, <2>1, <2>2, MovedCells
  <2>4. ASSUME NEW e \in 0..Last(s), s.cuX + n =< e
        PROVE  cell(m, e, s.cuY) = cell(s, e - n, s.cuY)
    <3>1. /\ e - n \in 0..Last(s) /\ e =< p + n /\ y - z = y /\ x + n =< e
      BY <1>1, <1>2, <2>1, <2>4 DEF x, z
    <3> QED BY <2>1, <2>3, <3>1 DEF y, Moved
  <2>5. ASSUME NEW e \in 0..Last(s), e < s.cuX
        PROVE  cell(m, e, s.cuY) = cell(s, e, s.cuY)
    <3>1. ~(x + n =< e) /\ ~(y < y)
      BY <1>1, <2>1, <2>5 DEF x
    <3> QED BY <2>1, <2>3, <3>1 DEF y, Moved
  <2>6. ASSUME NEW e \in 0..Last(s), NEW f \in 0..(s.lines - 1) \ {s.cuY}
        PROVE  cell(m, e, f) = cell(s, e, f)
    <3>1. ~(y + z < f /\ f < y + z) /\ y + z # f
      BY <1>1, <2>1 DEF y
    <3> QED BY <2>3, <3>1 DEF Moved
  <2> QED BY <2>3, <2>4, <2>5, <2>6
<1>4. t = clearImage(m, loc(m, s.cuX, m.cuY), loc(m, q - 1, m.cuY), Blank)
  <2>1. OrOne(n) = n
    BY DEF OrOne
  <2>2. /\ loc(m, s.cuX, m.cuY) = loc(s, s.cuX, s.cuY) /\ loc(m, q - 1, m.cuY) = loc(s, q - 1, s.cuY)
    BY <1>3 DEF Same, loc
  <2> QED BY <2>1, <2>2 DEF insertChars, p, q
<1> HIDE DEF m
<1>5. /\ Good(t) /\ Same(s, t)
      /\ \A e \in 0..Last(s), f \in 0..(s.lines - 1) :
            cell(t, e, f) = IF f = s.cuY /\ s.cuX =< e /\ e < s.cuX + n THEN Blank ELSE cell(m, e, f)
  <2>0. m.cuY = s.cuY /\ m.lines = s.lines /\ m.columns = s.columns /\ Last(m) = Last(s)
    BY <1>3 DEF Same, Last
  <2>1. Blank \in Cell
    BY DEF Cell
  <2> HIDE DEF t
  <2>2. Good(t) /\ Same(m, t) /\ Cleared(m, t, s.cuX, m.cuY, q - 1, m.cuY, Blank)
    BY <1>1, <1>2, <1>3, <1>4, <2>0, <2>1, ClearedCells
  <2>3. Same(s, t)
    BY <1>3, <2>2 DEF Same
  <2>4. ASSUME NEW e \in 0..Last(s), NEW f \in 0..(s.lines - 1)
        PROVE  cell(t, e, f) = IF f = s.cuY /\ s.cuX =< e /\ e < s.cuX + n THEN Blank ELSE cell(m, e, f)
    <3>1. f \in Int /\ s.cuY \in Int /\ (e =< q - 1 <=> e < s.cuX + n)
      BY <1>1, <1>2
    <3> QED BY <2>0, <2>2, <3>1 DEF Cleared
  <2> QED BY <2>2, <2>3, <2>4
<1>6. /\ r \in Seq(Cell) /\ Len(r) = s.columns
      /\ \A i \in 1..s.columns : r[i] = IF i =< s.cuX THEN cell(s, i - 1, s.cuY)
                                        ELSE IF i =< s.cuX + n THEN Blank
                                        ELSE cell(s, i - 1 - n, s.cuY)
  <2> DEFINE b == Before(s)
             k == Blanks(n)
             a == Rest1(s, n)
  <2>1. /\ b \in Seq(Cell) /\ Len(b) = s.cuX
        /\ \A i \in 1..s.cuX : b[i] = cell(s, i - 1, s.cuY)
        /\ a \in Seq(Cell) /\ Len(a) = s.columns - s.cuX - n
        /\ \A i \in 1..(s.columns - s.cuX - n) : a[i] = cell(s, s.cuX + i - 1, s.cuY)
    BY <1>2, EditParts
  <2>2. k \in Seq(Cell) /\ Len(k) = n /\ \A i \in 1..n : k[i] = Blank
    BY BlankCells
  <2> HIDE DEF a, b, k
  <2>3. b \o k \o a \in Seq(Cell) /\ Joined(b \o k \o a, b, k, a)
    BY <2>1, <2>2, ThreeParts
  <2>4. r = b \o k \o a
    BY DEF a, b, k
  <2> HIDE DEF r
  <2>5. Len(b) + Len(k) + Len(a) = s.columns
    BY <1>1, <2>1, <2>2
  <2>6. ASSUME NEW i \in 1..s.columns
        PROVE  r[i] = IF i =< s.cuX THEN cell(s, i - 1, s.cuY)
                      ELSE IF i =< s.cuX + n THEN Blank
                      ELSE cell(s, i - 1 - n, s.cuY)
    <3>1. r[i] = IF i =< s.cuX THEN b[i]
                 ELSE IF i =< s.cuX + n THEN k[i - s.cuX]
                 ELSE a[i - s.cuX - n]
      BY <2>1, <2>2, <2>3, <2>4, <2>5 DEF Joined
    <3>2. i =< s.cuX => i \in 1..s.cuX
      BY <1>1
    <3>3. ~(i =< s.cuX) /\ i =< s.cuX + n => i - s.cuX \in 1..n
      BY <1>1
    <3>4. ~(i =< s.cuX + n) => /\ i - s.cuX - n \in 1..(s.columns - s.cuX - n)
                               /\ s.cuX + (i - s.cuX - n) - 1 = i - 1 - n
      BY <1>1
    <3> QED BY <2>1, <2>2, <3>1, <3>2, <3>3, <3>4
  <2> QED BY <2>3, <2>4, <2>5, <2>6 DEF Joined
<1> HIDE DEF t, r
<1>7. ASSUME NEW e \in 0..Last(s), NEW f \in 0..(s.lines - 1)
      PROVE  cell(t, e, f) = IF f = s.cuY THEN r[e + 1] ELSE cell(s, e, f)
  <2>1. /\ e + 1 \in 1..s.columns /\ (e + 1) - 1 = e /\ (e + 1) - 1 - n = e - n
        /\ e \in Int /\ s.cuX \in Int
    BY <1>1
  <2>2. cell(t, e, f) = IF f = s.cuY /\ s.cuX =< e /\ e < s.cuX + n THEN Blank ELSE cell(m, e, f)
    BY <1>5
  <2>3. CASE f # s.cuY
    BY <1>3, <2>2, <2>3
  <2>4. CASE f = s.cuY
    <3>1. r[e + 1] = IF e < s.cuX THEN cell(s, e, s.cuY)
                     ELSE IF e < s.cuX + n THEN Blank ELSE cell(s, e - n, s.cuY)
      BY <1>6, <2>1
    <3>2. cell(t, e, f) = IF e < s.cuX THEN cell(s, e, s.cuY)
                          ELSE IF e < s.cuX + n THEN Blank ELSE cell(s, e - n, s.cuY)
      BY <1>2, <1>3, <2>1, <2>2, <2>4
    <3> QED BY <2>4, <3>1, <3>2
  <2> QED BY <2>3, <2>4
<1>8. Rows(t) = [Rows(s) EXCEPT ![s.cuY + 1] = r]
  <2>1. Replaced(s, t, s.cuY, r)
    BY <1>7 DEF Replaced
  <2> QED BY <1>1, <1>5, <1>6, <2>1, OneLine
<1> QED BY <1>8 DEF t, r

\* A deletion beyond the end of the line: the last n columns are cleared.
LEMMA DeletesBack ==
    ASSUME NEW s, Good(s), NEW n \in Nat, s.cuX < s.columns, n =< s.columns, n > s.columns - s.cuX
    PROVE  Rows(deleteChars(s, n))
             = [Rows(s) EXCEPT ![s.cuY + 1] =
                  SubSeq(Line(s, s.cuY), 1, s.columns - n) \o After(s, n) \o Blanks(n)]
<1> DEFINE t == deleteChars(s, n)
           g == s.columns - n
           l == SubSeq(Line(s, s.cuY), 1, g)
           a == After(s, n)
           k == Blanks(n)
           r == l \o a \o k
           m == moveImage(s, loc(s, s.cuX, s.cuY), loc(s, Last(s), s.cuY), loc(s, Last(s), s.cuY))
<1>1. /\ s.columns \in Nat \ {0} /\ s.cuX \in 0..Last(s) /\ s.cuX \in 0..s.columns
      /\ s.cuY \in 0..(s.lines - 1) /\ s.lines \in Nat \ {0}
      /\ Last(s) = s.columns - 1 /\ Last(s) \in 0..Last(s)
  BY Numbers
<1>2. g \in 0..Last(s) /\ g < s.cuX /\ g \in 0..s.columns
  BY <1>1
<1>3. /\ Good(m) /\ Same(s, m)
      /\ \A e \in 0..Last(s), f \in 0..(s.lines - 1) :
            f # s.cuY \/ e # s.cuX => cell(m, e, f) = cell(s, e, f)
  <2> DEFINE v == Last(s)
             y == s.cuY
             d == s.cuX - v
             z == 0
  <2>1. /\ v \in 0..Last(s) /\ y \in 0..(s.lines - 1) /\ d \in Int /\ z \in Int
        /\ v + d = s.cuX /\ v + d \in 0..Last(s) /\ y + z = y /\ y + z \in 0..(s.lines - 1)
        /\ y < y \/ (y = y /\ v =< v)
    BY <1>1
  <2>2. m = moveImage(s, loc(s, v + d, y + z), loc(s, v, y), loc(s, v, y))
    BY <2>1
  <2> HIDE DEF m, v, y, d, z
  <2>3. Good(m) /\ Same(s, m) /\ Moved(s, m, v, y, v, y, d, z)
    BY <2>1, <2>2, MovedCells
  <2>4. ASSUME NEW e \in 0..Last(s), NEW f \in 0..(s.lines - 1), f # s.cuY \/ e # s.cuX
        PROVE  cell(m, e, f) = cell(s, e, f)
    <3>1. /\ ~(/\ y + z < f \/ (y + z = f /\ v + d =< e)
               /\ f < y + z \/ (f = y + z /\ e =< v + d))
      BY <1>1, <2>1, <2>4 DEF y
    <3> QED BY <2>3, <3>1 DEF Moved
  <2> QED BY <2>3, <2>4
<1>4. t = clearImage(m, loc(m, g, s.cuY), loc(m, Last(s), s.cuY), Blank)
  <2>1. OrOne(n) = n /\ Higher(0, Lower(s.cuX + n, Last(s))) = Last(s)
    BY <1>1 DEF OrOne, Higher, Lower
  <2>2. /\ loc(m, g, s.cuY) = loc(s, g, s.cuY) /\ loc(m, Last(s), s.cuY) = loc(s, Last(s), s.cuY)
    BY <1>3 DEF Same, loc
  <2> QED BY <2>1, <2>2 DEF deleteChars
<1> HIDE DEF m
<1>5. /\ Good(t) /\ Same(s, t)
      /\ \A e \in 0..Last(s), f \in 0..(s.lines - 1) :
            cell(t, e, f) = IF f = s.cuY /\ g =< e THEN Blank ELSE cell(s, e, f)
  <2>0. m.lines = s.lines /\ m.columns = s.columns /\ Last(m) = Last(s)
    BY <1>3 DEF Same, Last
  <2> HIDE DEF t, g
  <2>1. /\ Good(t) /\ Same(m, t)
        /\ \A e \in 0..Last(s), f \in 0..(s.lines - 1) :
              cell(t, e, f) = IF f = s.cuY /\ g =< e /\ e =< Last(s) THEN Blank ELSE cell(m, e, f)
    <3>1. /\ g \in 0..m.columns /\ s.cuY \in 0..(m.lines - 1) /\ Last(s) \in Int
          /\ Last(s) =< Last(m) /\ g =< Last(s) + 1
      BY <1>1, <1>2, <2>0
    <3> QED BY <1>3, <1>4, <2>0, <3>1, ClearedPart
  <2>2. Same(s, t)
    BY <1>3, <2>1 DEF Same
  <2>3. \A e \in 0..Last(s) : e =< Last(s) /\ (~(g =< e) => e # s.cuX)
    BY <1>1, <1>2
  <2> QED BY <1>3, <2>1, <2>2, <2>3
<1>6. /\ r \in Seq(Cell) /\ Len(r) = s.columns
      /\ \A i \in 1..s.columns : r[i] = IF i =< g THEN cell(s, i - 1, s.cuY) ELSE Blank
  <2>1. l \in Seq(Cell) /\ Len(l) = g /\ \A i \in 1..g : l[i] = cell(s, i - 1, s.cuY)
    <3> HIDE DEF g
    <3>1. 1 \in Int /\ g \in Int /\ 1 =< 1 /\ 1 =< g + 1 /\ g =< s.columns
      BY <1>1, <1>2
    <3>2. Columns(l, s, s.cuY, 1, g)
      BY <1>1, <3>1, PartCells
    <3>3. g - 1 + 1 = g /\ \A i \in Int : 1 + i - 2 = i - 1
      BY <3>1
    <3> HIDE DEF l
    <3> QED BY <3>2, <3>3 DEF Columns
  <2>2. a \in Seq(Cell) /\ Len(a) = 0
    <3> DEFINE w == Line(s, s.cuY)
               x == s.cuX + n + 1
    <3>1. x \in Int /\ s.columns \in Int /\ ~(x =< s.columns)
      BY <1>1
    <3>2. \A i \in x..s.columns : w[i] \in Cell
      BY <3>1
    <3> HIDE DEF w, x
    <3>3. SubSeq(w, x, s.columns) \in Seq(Cell) /\ Len(SubSeq(w, x, s.columns)) = 0
      BY <3>1, <3>2, SubSeqProperties
    <3> QED BY <3>3 DEF After, w, x
  <2>3. k \in Seq(Cell) /\ Len(k) = n /\ \A i \in 1..n : k[i] = Blank
    BY BlankCells
  <2> HIDE DEF l, a, k
  <2>4. r \in Seq(Cell) /\ Joined(r, l, a, k)
    BY <2>1, <2>2, <2>3, ThreeParts
  <2> HIDE DEF r
  <2>5. Len(l) + Len(a) + Len(k) = s.columns /\ Len(l) + Len(a) = g /\ g + n = s.columns
    BY <1>1, <1>2, <2>1, <2>2, <2>3
  <2>6. ASSUME NEW i \in 1..s.columns
        PROVE  r[i] = IF i =< g THEN cell(s, i - 1, s.cuY) ELSE Blank
    <3>1. i =< g => i \in 1..g
      BY <1>1, <1>2
    <3>2. ~(i =< g) => i - Len(l) - Len(a) \in 1..n
      <4>1. Len(l) = g /\ Len(a) = 0 /\ g + n = s.columns /\ g \in Int /\ i \in Int /\ i =< s.columns
        BY <1>1, <1>2, <2>1, <2>2
      <4>2. i - Len(l) - Len(a) = i - g
        BY <4>1
      <4> HIDE DEF g
      <4>3. ~(i =< g) => i - g \in 1..n
        BY <4>1
      <4> QED BY <4>2, <4>3
    <3>3. r[i] = IF i =< g THEN l[i] ELSE k[i - Len(l) - Len(a)]
      BY <1>2, <2>1, <2>2, <2>4, <2>5 DEF Joined
    <3> QED BY <2>1, <2>3, <3>1, <3>2, <3>3
  <2> QED BY <2>4, <2>5, <2>6 DEF Joined
<1> HIDE DEF t, r
<1>7. ASSUME NEW e \in 0..Last(s), NEW f \in 0..(s.lines - 1)
      PROVE  cell(t, e, f) = IF f = s.cuY THEN r[e + 1] ELSE cell(s, e, f)
  <2>1. e + 1 \in 1..s.columns /\ (e + 1) - 1 = e /\ (e + 1 =< g <=> ~(g =< e))
    BY <1>1, <1>2
  <2>2. r[e + 1] = IF g =< e THEN Blank ELSE cell(s, e, s.cuY)
    BY <1>6, <2>1
  <2> QED BY <1>5, <2>2
<1>8. Rows(t) = [Rows(s) EXCEPT ![s.cuY + 1] = r]
  <2>1. Replaced(s, t, s.cuY, r)
    BY <1>7 DEF Replaced
  <2> QED BY <1>1, <1>5, <1>6, <2>1, OneLine
<1> QED BY <1>8 DEF t, r, l, a, k

EndCell(s) == Line(s, s.cuY)[IF s.cuX = 0 THEN 1 ELSE s.columns]

\* An insertion up to the end of the line: the last column is not cleared.
LEMMA InsertsToEnd ==
    ASSUME NEW s, Good(s), NEW n \in Nat, 1 =< n, n = s.columns - s.cuX
    PROVE  Rows(insertChars(s, n))
             = [Rows(s) EXCEPT ![s.cuY + 1] = Before(s) \o Blanks(n - 1) \o <<EndCell(s)>>]
<1> DEFINE t == insertChars(s, n)
           b == Before(s)
           k == Blanks(n - 1)
           a == <<EndCell(s)>>
           r == b \o k \o a
           p == IF s.cuX = 0 THEN 0 ELSE s.cuX - 1
           m == moveImage(s, loc(s, Last(s), s.cuY), loc(s, s.cuX, s.cuY), loc(s, p, s.cuY))
<1>1. /\ s.columns \in Nat \ {0} /\ s.cuX \in 0..Last(s) /\ s.cuX \in 0..s.columns
      /\ s.cuY \in 0..(s.lines - 1) /\ s.lines \in Nat \ {0}
      /\ Last(s) = s.columns - 1 /\ Last(s) \in 0..Last(s)
  BY Numbers
<1>2. /\ EndCell(s) \in Cell
      /\ EndCell(s) = cell(s, IF s.cuX = 0 THEN 0 ELSE Last(s), s.cuY)
  <2> DEFINE x == IF s.cuX = 0 THEN 1 ELSE s.columns
  <2>1. x \in 1..s.columns /\ x - 1 = (IF s.cuX = 0 THEN 0 ELSE Last(s)) /\ x - 1 \in 0..Last(s)
    BY <1>1
  <2> HIDE DEF x
  <2>2. Line(s, s.cuY)[x] = cell(s, x - 1, s.cuY)
    BY <1>1, <2>1, LineCells
  <2>3. cell(s, x - 1, s.cuY) \in Cell
    BY <1>1, <2>1, CellPlace
  <2> QED BY <2>1, <2>2, <2>3 DEF EndCell, x
<1>3. /\ Good(m) /\ Same(s, m)
      /\ \A e \in 0..Last(s), f \in 0..(s.lines - 1) :
            cell(m, e, f) = IF f = s.cuY /\ e = Last(s) THEN EndCell(s) ELSE cell(s, e, f)
  <2>1. CASE s.cuX = 0
    <3> DEFINE x == 0
               y == s.cuY
               d == Last(s)
    <3>1. /\ x \in 0..Last(s) /\ y \in 0..(s.lines - 1) /\ d \in Int /\ x \in Int
          /\ x + d = Last(s) /\ x + d \in 0..Last(s) /\ y + x = y /\ y + x \in 0..(s.lines - 1)
          /\ y < y \/ (y = y /\ x =< x)
      BY <1>1
    <3>2. m = moveImage(s, loc(s, x + d, y + x), loc(s, x, y), loc(s, x, y))
      BY <2>1, <3>1
    <3> HIDE DEF m, x, y, d
    <3>3. Good(m) /\ Same(s, m) /\ Moved(s, m, x, y, x, y, d, x)
      BY <3>1, <3>2, MovedCells
    <3>4. ASSUME NEW e \in 0..Last(s), NEW f \in 0..(s.lines - 1)
          PROVE  cell(m, e, f) = IF f = s.cuY /\ e = Last(s) THEN EndCell(s) ELSE cell(s, e, f)
      <4> DEFINE into == /\ y + x < f \/ (y + x = f /\ x + d =< e)
                         /\ f < y + x \/ (f = y + x /\ e =< x + d)
      <4>1. into <=> f = s.cuY /\ e = Last(s)
        BY <1>1, <3>1 DEF y
      <4>2. f = s.cuY /\ e = Last(s) => e - d = 0 /\ f - x = s.cuY
        BY <1>1 DEF d, x
      <4>3. /\ into /\ e - d \in 0..Last(s) /\ f - x \in 0..(s.lines - 1)
                  => cell(m, e, f) = cell(s, e - d, f - x)
            /\ ~into => cell(m, e, f) = cell(s, e, f)
        BY <3>3 DEF Moved
      <4> HIDE DEF into
      <4>4. 0 \in 0..Last(s)
        BY <1>1
      <4> QED BY <1>1, <1>2, <2>1, <4>1, <4>2, <4>3, <4>4
    <3> QED BY <3>3, <3>4
  <2>2. CASE s.cuX # 0
    <3>1. loc(s, s.cuX, s.cuY) = loc(s, p, s.cuY) + 1
      <4>1. s.cuY * s.columns \in Int
        BY <1>1
      <4> QED BY <1>1, <2>2, <4>1 DEF loc
    <3>2. m = s
      BY <3>1 DEF moveImage
    <3> QED BY <1>2, <2>2, <3>2, Parts
  <2> QED BY <2>1, <2>2
<1>4. t = clearImage(m, loc(m, s.cuX, s.cuY), loc(m, Last(s) - 1, s.cuY), Blank)
  <2>1. /\ OrOne(n) = n /\ Higher(0, Lower(s.cuX + n, Last(s))) = Last(s)
        /\ Higher(0, Lower(Last(s) - n, Last(s))) = p
    BY <1>1 DEF OrOne, Higher, Lower
  <2>2. /\ loc(m, s.cuX, s.cuY) = loc(s, s.cuX, s.cuY)
        /\ loc(m, Last(s) - 1, s.cuY) = loc(s, Last(s) - 1, s.cuY)
    BY <1>3 DEF Same, loc
  <2> QED BY <2>1, <2>2 DEF insertChars
<1> HIDE DEF m, p
<1>5. /\ Good(t) /\ Same(s, t)
      /\ \A e \in 0..Last(s), f \in 0..(s.lines - 1) :
            cell(t, e, f) = IF f = s.cuY /\ s.cuX =< e /\ e =< Last(s) - 1 THEN Blank
                            ELSE cell(m, e, f)
  <2>0. m.lines = s.lines /\ m.columns = s.columns /\ Last(m) = Last(s)
    BY <1>3 DEF Same, Last
  <2> HIDE DEF t
  <2>1. /\ Good(t) /\ Same(m, t)
        /\ \A e \in 0..Last(s), f \in 0..(s.lines - 1) :
              cell(t, e, f) = IF f = s.cuY /\ s.cuX =< e /\ e =< Last(s) - 1 THEN Blank
                              ELSE cell(m, e, f)
    <3>1. /\ s.cuX \in 0..m.columns /\ s.cuY \in 0..(m.lines - 1) /\ Last(s) - 1 \in Int
          /\ Last(s) - 1 =< Last(m) /\ s.cuX =< Last(s) - 1 + 1
      BY <1>1, <2>0
    <3> QED BY <1>3, <1>4, <2>0, <3>1, ClearedPart
  <2>2. Same(s, t)
    BY <1>3, <2>1 DEF Same
  <2> QED BY <2>1, <2>2
<1>6. /\ r \in Seq(Cell) /\ Len(r) = s.columns
      /\ \A i \in 1..s.columns : r[i] = IF i =< s.cuX THEN cell(s, i - 1, s.cuY)
                                        ELSE IF i =< Last(s) THEN Blank ELSE EndCell(s)
  <2>1. b \in Seq(Cell) /\ Len(b) = s.cuX /\ \A i \in 1..s.cuX : b[i] = cell(s, i - 1, s.cuY)
    BY EditParts
  <2>2. n - 1 \in Nat
    OBVIOUS
  <2>3. k \in Seq(Cell) /\ Len(k) = n - 1 /\ \A i \in 1..(n - 1) : k[i] = Blank
    BY <2>2, BlankCells
  <2>4. a \in Seq(Cell) /\ Len(a) = 1 /\ a[1] = EndCell(s)
    BY <1>2
  <2> HIDE DEF b, k, a
  <2>5. r \in Seq(Cell) /\ Joined(r, b, k, a)
    BY <2>1, <2>3, <2>4, ThreeParts
  <2> HIDE DEF r
  <2>6. Len(b) + Len(k) + Len(a) = s.columns /\ Len(b) + Len(k) = Last(s)
    BY <1>1, <2>1, <2>3, <2>4
  <2>7. ASSUME NEW i \in 1..s.columns
        PROVE  r[i] = IF i =< s.cuX THEN cell(s, i - 1, s.cuY)
                      ELSE IF i =< Last(s) THEN Blank ELSE EndCell(s)
    <3>1. i =< s.cuX => i \in 1..s.cuX
      BY <1>1
    <3>2. ~(i =< s.cuX) /\ i =< Last(s) => i - Len(b) \in 1..(n - 1)
      BY <1>1, <2>1
    <3>3. ~(i =< Last(s)) => i - Len(b) - Len(k) = 1
      <4>0. Len(b) = s.cuX /\ Len(k) = n - 1 /\ s.cuX \in Int /\ i \in Int /\ s.columns \in Int
        BY <1>1, <2>1, <2>3
      <4>1. i - Len(b) - Len(k) = i - s.columns + 1
        BY <4>0
      <4>2. ~(i =< Last(s)) => i = s.columns
        BY <1>1
      <4> QED BY <1>1, <4>1, <4>2
    <3>4. r[i] = IF i =< s.cuX THEN b[i]
                 ELSE IF i =< Last(s) THEN k[i - Len(b)] ELSE a[i - Len(b) - Len(k)]
      BY <2>1, <2>5, <2>6 DEF Joined
    <3> QED BY <2>1, <2>3, <2>4, <3>1, <3>2, <3>3, <3>4
  <2> QED BY <2>5, <2>6, <2>7 DEF Joined
<1> HIDE DEF t, r
<1>7. ASSUME NEW e \in 0..Last(s), NEW f \in 0..(s.lines - 1)
      PROVE  cell(t, e, f) = IF f = s.cuY THEN r[e + 1] ELSE cell(s, e, f)
  <2>1. /\ e + 1 \in 1..s.columns /\ (e + 1) - 1 = e /\ (e + 1 =< s.cuX <=> ~(s.cuX =< e))
        /\ (e + 1 =< Last(s) <=> e =< Last(s) - 1) /\ (e =< Last(s) - 1 <=> e # Last(s))
    BY <1>1
  <2>2. r[e + 1] = IF ~(s.cuX =< e) THEN cell(s, e, s.cuY)
                   ELSE IF e # Last(s) THEN Blank ELSE EndCell(s)
    BY <1>6, <2>1
  <2>3. ~(s.cuX =< e) => e # Last(s)
    BY <1>1
  <2> QED BY <1>3, <1>5, <2>1, <2>2, <2>3
<1>8. Rows(t) = [Rows(s) EXCEPT ![s.cuY + 1] = r]
  <2>1. Replaced(s, t, s.cuY, r)
    BY <1>7 DEF Replaced
  <2> QED BY <1>1, <1>5, <1>6, <2>1, OneLine
<1> QED BY <1>8 DEF t, r, b, k, a

\* Characters are erased, deleted and inserted in the cursor's line as in a
\* list of characters, and no other line changes, for lines of every length: all
\* erasures, deletions of at most a line from a cursor on it, and insertions of at
\* most what is left of it, with what the code does at both ends (TEScreen.C:235-267).
THEOREM LineEdited == Spec => []EditsInLine
<1>1. Inv => EditsInLine
  <2> SUFFICES ASSUME Inv, NEW k \in Count, NEW n, n = OrOne(k), NEW m,
                      m = Lower(n, scr.columns - scr.cuX)
      PROVE /\ Rows(eraseChars(scr, k))
                 = [Rows(scr) EXCEPT ![scr.cuY + 1] = Before(scr) \o Blanks(m) \o After(scr, m)]
            /\ scr.columns - scr.cuX > 0 /\ n =< scr.columns =>
                 Rows(deleteChars(scr, k))
                   = [Rows(scr) EXCEPT ![scr.cuY + 1] =
                        SubSeq(Line(scr, scr.cuY), 1, Lower(scr.cuX, scr.columns - n))
                        \o After(scr, n) \o Blanks(n)]
            /\ n < scr.columns - scr.cuX =>
                 Rows(insertChars(scr, k))
                   = [Rows(scr) EXCEPT ![scr.cuY + 1] = Before(scr) \o Blanks(n) \o Rest1(scr, n)]
            /\ n = scr.columns - scr.cuX =>
                 Rows(insertChars(scr, k))
                   = [Rows(scr) EXCEPT ![scr.cuY + 1] = Before(scr) \o Blanks(n - 1) \o <<EndCell(scr)>>]
    BY Zenon DEF EditsInLine, Before, After, Rest1, EndCell
  <2>1. /\ Good(scr) /\ k \in Nat /\ n \in Nat /\ 1 =< n
        /\ scr.columns \in Nat \ {0} /\ scr.cuX \in 0..scr.columns
    BY NumbersAssumption, Numbers DEF Inv, OrOne
  <2>2. /\ deleteChars(scr, k) = deleteChars(scr, n) /\ insertChars(scr, k) = insertChars(scr, n)
    <3>1. OrOne(k) = OrOne(n)
      BY DEF OrOne
    <3> QED BY <3>1 DEF deleteChars, insertChars
  <2>3. Rows(eraseChars(scr, k))
           = [Rows(scr) EXCEPT ![scr.cuY + 1] = Before(scr) \o Blanks(m) \o After(scr, m)]
    BY <2>1, ErasesInLine
  <2>4. ASSUME n =< scr.columns - scr.cuX
        PROVE  Rows(deleteChars(scr, n))
                 = [Rows(scr) EXCEPT ![scr.cuY + 1] =
                      SubSeq(Line(scr, scr.cuY), 1, Lower(scr.cuX, scr.columns - n))
                      \o After(scr, n) \o Blanks(n)]
    <3>1. Lower(scr.cuX, scr.columns - n) = scr.cuX
      BY <2>1, <2>4 DEF Lower
    <3>2. SubSeq(Line(scr, scr.cuY), 1, Lower(scr.cuX, scr.columns - n)) = Before(scr)
      BY <3>1 DEF Before
    <3> QED BY <2>1, <2>4, <3>2, DeletesInLine
  <2>5. ASSUME scr.columns - scr.cuX > 0, n =< scr.columns, n > scr.columns - scr.cuX
        PROVE  Rows(deleteChars(scr, n))
                 = [Rows(scr) EXCEPT ![scr.cuY + 1] =
                      SubSeq(Line(scr, scr.cuY), 1, Lower(scr.cuX, scr.columns - n))
                      \o After(scr, n) \o Blanks(n)]
    <3>1. Lower(scr.cuX, scr.columns - n) = scr.columns - n /\ scr.cuX < scr.columns
      BY <2>1, <2>5 DEF Lower
    <3> QED BY <2>1, <2>5, <3>1, DeletesBack
  <2>6. ASSUME n < scr.columns - scr.cuX
        PROVE  Rows(insertChars(scr, n))
                 = [Rows(scr) EXCEPT ![scr.cuY + 1] = Before(scr) \o Blanks(n) \o Rest1(scr, n)]
    <3>1. scr.cuX + n < scr.columns
      BY <2>1, <2>6
    <3> QED BY <2>1, <3>1, InsertsInLine
  <2>7. ASSUME n = scr.columns - scr.cuX
        PROVE  Rows(insertChars(scr, n))
                 = [Rows(scr) EXCEPT ![scr.cuY + 1] = Before(scr) \o Blanks(n - 1) \o <<EndCell(scr)>>]
    BY <2>1, <2>7, InsertsToEnd
  <2>8. n =< scr.columns - scr.cuX \/ n > scr.columns - scr.cuX
    BY <2>1
  <2> QED BY <2>2, <2>3, <2>4, <2>5, <2>6, <2>7, <2>8
<1> QED BY <1>1, Inductive, PTL
-----------------------------------------------------------------------------
(* Scrolling a region *)

\* Sequence l is p, q, r and u in a row.
Joined4(l, p, q, r, u) ==
    /\ Len(l) = Len(p) + Len(q) + Len(r) + Len(u)
    /\ \A i \in 1..(Len(p) + Len(q) + Len(r) + Len(u)) :
          l[i] = IF i =< Len(p) THEN p[i]
                 ELSE IF i =< Len(p) + Len(q) THEN q[i - Len(p)]
                 ELSE IF i =< Len(p) + Len(q) + Len(r) THEN r[i - Len(p) - Len(q)]
                 ELSE u[i - Len(p) - Len(q) - Len(r)]

LEMMA FourParts ==
    ASSUME NEW S, NEW p \in Seq(S), NEW q \in Seq(S), NEW r \in Seq(S), NEW u \in Seq(S)
    PROVE  p \o q \o r \o u \in Seq(S) /\ Joined4(p \o q \o r \o u, p, q, r, u)
<1> DEFINE pqr == p \o q \o r
<1>0. Len(p) \in Nat /\ Len(q) \in Nat /\ Len(r) \in Nat /\ Len(u) \in Nat
  BY LenProperties
<1>1. pqr \in Seq(S) /\ Joined(pqr, p, q, r)
  BY ThreeParts
<1> HIDE DEF pqr
<1>2. /\ pqr \o u \in Seq(S) /\ Len(pqr \o u) = Len(pqr) + Len(u)
      /\ \A i \in 1..(Len(pqr) + Len(u)) : (pqr \o u)[i] = IF i =< Len(pqr) THEN pqr[i] ELSE u[i - Len(pqr)]
  BY <1>1, ConcatProperties, Zenon
<1>3. pqr \o u = p \o q \o r \o u
  BY DEF pqr
<1>4. Len(pqr) = Len(p) + Len(q) + Len(r)
  BY <1>1 DEF Joined
<1>5. ASSUME NEW i \in 1..(Len(p) + Len(q) + Len(r) + Len(u))
      PROVE  (pqr \o u)[i] = IF i =< Len(p) THEN p[i]
                             ELSE IF i =< Len(p) + Len(q) THEN q[i - Len(p)]
                             ELSE IF i =< Len(p) + Len(q) + Len(r) THEN r[i - Len(p) - Len(q)]
                             ELSE u[i - Len(p) - Len(q) - Len(r)]
  <2>1. i \in 1..(Len(pqr) + Len(u)) /\ i \in Int /\ i - Len(pqr) = i - Len(p) - Len(q) - Len(r)
    BY <1>0, <1>4
  <2>2. (pqr \o u)[i] = IF i =< Len(pqr) THEN pqr[i] ELSE u[i - Len(pqr)]
    BY <1>2, <2>1
  <2>3. i =< Len(pqr) => i \in 1..(Len(p) + Len(q) + Len(r))
    BY <1>0, <1>4
  <2>4. \A j \in 1..(Len(p) + Len(q) + Len(r)) :
           pqr[j] = IF j =< Len(p) THEN p[j]
                    ELSE IF j =< Len(p) + Len(q) THEN q[j - Len(p)]
                    ELSE r[j - Len(p) - Len(q)]
    BY <1>1 DEF Joined
  <2> QED BY <1>0, <1>4, <2>1, <2>2, <2>3, <2>4
<1>6. Len(pqr \o u) = Len(p) + Len(q) + Len(r) + Len(u)
  BY <1>2, <1>4
<1> QED BY <1>2, <1>3, <1>5, <1>6 DEF Joined4

\* The lines of the screen as a sequence
LEMMA RowLines ==
    ASSUME NEW s, Good(s)
    PROVE  /\ Rows(s) \in Seq(Seq(Cell)) /\ Len(Rows(s)) = s.lines
           /\ \A y \in 1..s.lines : Rows(s)[y] = Line(s, y - 1) /\ Rows(s)[y] \in Seq(Cell)
<1>1. s.lines \in Nat \ {0}
  BY Numbers
<1>2. ASSUME NEW y \in 1..s.lines PROVE Line(s, y - 1) \in Seq(Cell)
  <2>1. y - 1 \in 0..(s.lines - 1)
    BY <1>1
  <2> QED BY <2>1, LineCells
<1>3. Rows(s) \in [1..s.lines -> Seq(Cell)]
  BY <1>2 DEF Rows
<1>4. Rows(s) \in Seq(Seq(Cell))
  BY <1>1, <1>3
<1>5. Len(Rows(s)) = s.lines
  BY <1>1, <1>3
<1>6. \A y \in 1..s.lines : Rows(s)[y] = Line(s, y - 1)
  BY DEF Rows
<1> QED BY <1>2, <1>4, <1>5, <1>6

\* Sequence l is rows m to n.
RowsFrom(l, s, m, n) ==
    /\ l \in Seq(Seq(Cell)) /\ Len(l) = n - m + 1
    /\ \A i \in 1..(n - m + 1) : l[i] = Rows(s)[m + i - 1]

LEMMA PartRows ==
    ASSUME NEW s, Good(s), NEW m \in Int, NEW n \in Int, 1 =< m, m =< n + 1, n =< s.lines
    PROVE  RowsFrom(SubSeq(Rows(s), m, n), s, m, n)
<1> DEFINE l == Rows(s)
<1>1. \A y \in 1..s.lines : l[y] \in Seq(Cell)
  BY RowLines
<1>0. s.lines \in Nat
  BY Numbers
<1> HIDE DEF l
<1>2. \A i \in m..n : i \in 1..s.lines /\ l[i] \in Seq(Cell)
  BY <1>0, <1>1
<1>3. /\ SubSeq(l, m, n) \in Seq(Seq(Cell))
      /\ Len(SubSeq(l, m, n)) = IF m =< n THEN n - m + 1 ELSE 0
      /\ \A i \in 1..(n - m + 1) : SubSeq(l, m, n)[i] = l[m + i - 1]
  BY <1>2, SubSeqProperties
<1>4. Len(SubSeq(l, m, n)) = n - m + 1
  BY <1>3
<1> QED BY <1>3, <1>4 DEF l, RowsFrom

LEMMA EmptyRows ==
    ASSUME NEW s, Good(s), NEW n \in Nat
    PROVE  /\ Empty(s, n) \in Seq(Seq(Cell)) /\ Len(Empty(s, n)) = n
           /\ \A i \in 1..n : Empty(s, n)[i] = Blanks(s.columns)
<1>1. Blanks(s.columns) \in Seq(Cell)
  <2>1. s.columns \in Nat
    BY Numbers
  <2> QED BY <2>1, BlankCells
<1> HIDE DEF Blanks
<1> QED BY <1>1 DEF Empty

\* Lines from to b of t are those of s n lines further down, or n blank lines.
LinesUp(s, t, from, b, n) ==
    \A f \in 0..(s.lines - 1) :
       Line(t, f) = IF from =< f /\ f =< b - n THEN Line(s, f + n)
                    ELSE IF from =< f /\ f =< b THEN Blanks(s.columns) ELSE Line(s, f)

LinesDown(s, t, from, b, n) ==
    \A f \in 0..(s.lines - 1) :
       Line(t, f) = IF from + n =< f /\ f =< b THEN Line(s, f - n)
                    ELSE IF from =< f /\ f =< b THEN Blanks(s.columns) ELSE Line(s, f)

\* The rows of a screen whose lines moved
LEMMA RowsUp ==
    ASSUME NEW s, Good(s), NEW t, Good(t), t.lines = s.lines,
           NEW from \in Nat, NEW n \in Nat, 1 =< n, from + n =< s.bmargin,
           LinesUp(s, t, from, s.bmargin, n)
    PROVE  Rows(t) = Up(s, from, n)
<1> DEFINE b == s.bmargin
           p == SubSeq(Rows(s), 1, from)
           q == SubSeq(Rows(s), from + n + 1, b + 1)
           r == Empty(s, n)
           u == SubSeq(Rows(s), b + 2, s.lines)
           l == p \o q \o r \o u
<1>1. b \in Nat /\ s.lines \in Nat \ {0} /\ b < s.lines /\ from + n =< b
  BY Numbers
<1>2. RowsFrom(p, s, 1, from)
  <2>1. 1 \in Int /\ 1 =< from + 1 /\ from =< s.lines /\ from \in Int
    BY <1>1
  <2> QED BY <2>1, PartRows
<1>3. RowsFrom(q, s, from + n + 1, b + 1)
  <2> HIDE DEF b
  <2>1. from + n + 1 \in Int /\ b + 1 \in Int /\ 1 =< from + n + 1 /\ from + n + 1 =< b + 1 + 1 /\ b + 1 =< s.lines
    BY <1>1
  <2> QED BY <2>1, PartRows
<1>4. RowsFrom(u, s, b + 2, s.lines)
  <2> HIDE DEF b
  <2>1. b + 2 \in Int /\ s.lines \in Int /\ 1 =< b + 2 /\ b + 2 =< s.lines + 1 /\ s.lines =< s.lines
    BY <1>1
  <2> QED BY <2>1, PartRows
<1>5. r \in Seq(Seq(Cell)) /\ Len(r) = n /\ \A i \in 1..n : r[i] = Blanks(s.columns)
  BY EmptyRows
<1>6. Rows(t) \in Seq(Seq(Cell)) /\ Len(Rows(t)) = s.lines /\ \A y \in 1..s.lines : Rows(t)[y] = Line(t, y - 1)
  BY RowLines
<1>7. Up(s, from, n) = l
  BY DEF Up
<1>a. \A f \in 0..(s.lines - 1) :
         Line(t, f) = IF from =< f /\ f =< b - n THEN Line(s, f + n)
                      ELSE IF from =< f /\ f =< b THEN Blanks(s.columns) ELSE Line(s, f)
  BY DEF LinesUp
<1> HIDE DEF b, p, q, r, u
<1>8. l \in Seq(Seq(Cell)) /\ Joined4(l, p, q, r, u)
  BY <1>2, <1>3, <1>4, <1>5, FourParts DEF RowsFrom
<1> HIDE DEF l
<1>9. Len(p) = from /\ Len(q) = b + 1 - from - n /\ Len(u) = s.lines - b - 1
  BY <1>1, <1>2, <1>3, <1>4 DEF RowsFrom
<1>10. Len(l) = s.lines
  <2>1. Len(l) = Len(p) + Len(q) + Len(r) + Len(u)
    BY <1>8 DEF Joined4
  <2> QED BY <1>1, <1>5, <1>9, <2>1
<1>11. ASSUME NEW i \in 1..s.lines PROVE Rows(t)[i] = l[i]
  <2>1. l[i] = IF i =< from THEN p[i]
               ELSE IF i =< b + 1 - n THEN q[i - from]
               ELSE IF i =< b + 1 THEN r[i - b - 1 + n] ELSE u[i - b - 1]
    <3>1. /\ Len(p) + Len(q) = b + 1 - n /\ Len(p) + Len(q) + Len(r) = b + 1
          /\ Len(p) + Len(q) + Len(r) + Len(u) = s.lines
          /\ i - Len(p) = i - from /\ i - Len(p) - Len(q) = i - b - 1 + n
          /\ i - Len(p) - Len(q) - Len(r) = i - b - 1
      BY <1>1, <1>5, <1>9
    <3>2. \A j \in 1..s.lines :
            l[j] = IF j =< Len(p) THEN p[j]
                   ELSE IF j =< Len(p) + Len(q) THEN q[j - Len(p)]
                   ELSE IF j =< Len(p) + Len(q) + Len(r) THEN r[j - Len(p) - Len(q)]
                   ELSE u[j - Len(p) - Len(q) - Len(r)]
      BY <1>8, <3>1 DEF Joined4
    <3> QED BY <1>9, <3>1, <3>2
  <2>2. i - 1 \in 0..(s.lines - 1) /\ Rows(t)[i] = Line(t, i - 1)
    BY <1>1, <1>6
  <2>3. CASE i =< from
    <3>1. p[i] = Rows(s)[1 + i - 1] /\ 1 + i - 1 = i
      BY <1>1, <1>2, <2>3 DEF RowsFrom
    <3>2. Rows(s)[i] = Line(s, i - 1)
      BY RowLines
    <3>3. ~(from =< i - 1)
      BY <1>1, <2>3
    <3> QED BY <1>a, <2>1, <2>2, <2>3, <3>1, <3>2, <3>3
  <2>4. CASE ~(i =< from) /\ i =< b + 1 - n
    <3>1. q[i - from] = Rows(s)[(from + n + 1) + (i - from) - 1]
      <4>1. i - from \in 1..((b + 1) - (from + n + 1) + 1)
        BY <1>1, <2>4
      <4> QED BY <1>3, <4>1 DEF RowsFrom
    <3>2. (from + n + 1) + (i - from) - 1 = i + n /\ i + n \in 1..s.lines /\ i + n - 1 = i - 1 + n
      BY <1>1, <2>4
    <3>3. Rows(s)[i + n] = Line(s, i + n - 1)
      BY <3>2, RowLines
    <3>4. from =< i - 1 /\ i - 1 =< b - n
      BY <1>1, <2>4
    <3> QED BY <1>a, <2>1, <2>2, <2>4, <3>1, <3>2, <3>3, <3>4
  <2>5. CASE ~(i =< from) /\ ~(i =< b + 1 - n) /\ i =< b + 1
    <3>1. i - b - 1 + n \in 1..n /\ from =< i - 1 /\ ~(i - 1 =< b - n) /\ i - 1 =< b
      BY <1>1, <2>5
    <3>2. r[i - b - 1 + n] = Blanks(s.columns)
      BY <1>5, <3>1
    <3> QED BY <1>a, <2>1, <2>2, <2>5, <3>1, <3>2
  <2>6. CASE ~(i =< from) /\ ~(i =< b + 1 - n) /\ ~(i =< b + 1)
    <3>1. u[i - b - 1] = Rows(s)[(b + 2) + (i - b - 1) - 1]
      <4>1. i - b - 1 \in 1..(s.lines - (b + 2) + 1)
        BY <1>1, <2>6
      <4> QED BY <1>4, <4>1 DEF RowsFrom
    <3>2. (b + 2) + (i - b - 1) - 1 = i /\ ~(i - 1 =< b - n) /\ ~(i - 1 =< b)
      BY <1>1, <2>6
    <3>3. Rows(s)[i] = Line(s, i - 1)
      BY RowLines
    <3> QED BY <1>a, <2>1, <2>2, <2>6, <3>1, <3>2, <3>3
  <2> QED BY <2>3, <2>4, <2>5, <2>6
<1> QED BY <1>6, <1>7, <1>8, <1>10, <1>11, SeqEqual

LEMMA RowsDown ==
    ASSUME NEW s, Good(s), NEW t, Good(t), t.lines = s.lines,
           NEW from \in Nat, NEW n \in Nat, from + n =< s.bmargin,
           LinesDown(s, t, from, s.bmargin, n)
    PROVE  Rows(t) = Down(s, from, n)
<1> DEFINE b == s.bmargin
           p == SubSeq(Rows(s), 1, from)
           q == Empty(s, n)
           r == SubSeq(Rows(s), from + 1, b + 1 - n)
           u == SubSeq(Rows(s), b + 2, s.lines)
           l == p \o q \o r \o u
<1>1. b \in Nat /\ s.lines \in Nat \ {0} /\ b < s.lines /\ from + n =< b
  BY Numbers
<1>2. RowsFrom(p, s, 1, from)
  <2>1. 1 \in Int /\ 1 =< from + 1 /\ from =< s.lines /\ from \in Int
    BY <1>1
  <2> QED BY <2>1, PartRows
<1>3. RowsFrom(r, s, from + 1, b + 1 - n)
  <2> HIDE DEF b
  <2>1. from + 1 \in Int /\ b + 1 - n \in Int /\ 1 =< from + 1 /\ from + 1 =< b + 1 - n + 1 /\ b + 1 - n =< s.lines
    BY <1>1
  <2> QED BY <2>1, PartRows
<1>4. RowsFrom(u, s, b + 2, s.lines)
  <2> HIDE DEF b
  <2>1. b + 2 \in Int /\ s.lines \in Int /\ 1 =< b + 2 /\ b + 2 =< s.lines + 1 /\ s.lines =< s.lines
    BY <1>1
  <2> QED BY <2>1, PartRows
<1>5. q \in Seq(Seq(Cell)) /\ Len(q) = n /\ \A i \in 1..n : q[i] = Blanks(s.columns)
  BY EmptyRows
<1>6. Rows(t) \in Seq(Seq(Cell)) /\ Len(Rows(t)) = s.lines /\ \A y \in 1..s.lines : Rows(t)[y] = Line(t, y - 1)
  BY RowLines
<1>7. Down(s, from, n) = l
  BY DEF Down
<1>a. \A f \in 0..(s.lines - 1) :
         Line(t, f) = IF from + n =< f /\ f =< b THEN Line(s, f - n)
                      ELSE IF from =< f /\ f =< b THEN Blanks(s.columns) ELSE Line(s, f)
  BY DEF LinesDown
<1> HIDE DEF b, p, q, r, u
<1>8. l \in Seq(Seq(Cell)) /\ Joined4(l, p, q, r, u)
  BY <1>2, <1>3, <1>4, <1>5, FourParts DEF RowsFrom
<1> HIDE DEF l
<1>9. Len(p) = from /\ Len(r) = b + 1 - n - from /\ Len(u) = s.lines - b - 1
  BY <1>1, <1>2, <1>3, <1>4 DEF RowsFrom
<1>10. Len(l) = s.lines
  <2>1. Len(l) = Len(p) + Len(q) + Len(r) + Len(u)
    BY <1>8 DEF Joined4
  <2> QED BY <1>1, <1>5, <1>9, <2>1
<1>11. ASSUME NEW i \in 1..s.lines PROVE Rows(t)[i] = l[i]
  <2>1. l[i] = IF i =< from THEN p[i]
               ELSE IF i =< from + n THEN q[i - from]
               ELSE IF i =< b + 1 THEN r[i - from - n] ELSE u[i - b - 1]
    <3>1. /\ Len(p) + Len(q) = from + n /\ Len(p) + Len(q) + Len(r) = b + 1
          /\ Len(p) + Len(q) + Len(r) + Len(u) = s.lines
          /\ i - Len(p) = i - from /\ i - Len(p) - Len(q) = i - from - n
          /\ i - Len(p) - Len(q) - Len(r) = i - b - 1
      <4>1. /\ Len(p) = from /\ Len(q) = n /\ Len(r) = b + 1 - n - from /\ Len(u) = s.lines - b - 1
        BY <1>5, <1>9
      <4>2. i \in Int /\ b \in Int /\ s.lines \in Int
        BY <1>1
      <4> QED BY <4>1, <4>2
    <3>2. \A j \in 1..s.lines :
            l[j] = IF j =< Len(p) THEN p[j]
                   ELSE IF j =< Len(p) + Len(q) THEN q[j - Len(p)]
                   ELSE IF j =< Len(p) + Len(q) + Len(r) THEN r[j - Len(p) - Len(q)]
                   ELSE u[j - Len(p) - Len(q) - Len(r)]
      BY <1>8, <3>1 DEF Joined4
    <3> QED BY <1>9, <3>1, <3>2
  <2>2. i - 1 \in 0..(s.lines - 1) /\ Rows(t)[i] = Line(t, i - 1)
    BY <1>1, <1>6
  <2>3. CASE i =< from
    <3>1. p[i] = Rows(s)[1 + i - 1] /\ 1 + i - 1 = i
      BY <1>1, <1>2, <2>3 DEF RowsFrom
    <3>2. Rows(s)[i] = Line(s, i - 1)
      BY RowLines
    <3>3. ~(from =< i - 1) /\ ~(from + n =< i - 1)
      BY <1>1, <2>3
    <3> QED BY <1>a, <2>1, <2>2, <2>3, <3>1, <3>2, <3>3
  <2>4. CASE ~(i =< from) /\ i =< from + n
    <3>1. i - from \in 1..n /\ from =< i - 1 /\ ~(from + n =< i - 1) /\ i - 1 =< b
      BY <1>1, <2>4
    <3>2. q[i - from] = Blanks(s.columns)
      BY <1>5, <3>1
    <3> QED BY <1>a, <2>1, <2>2, <2>4, <3>1, <3>2
  <2>5. CASE ~(i =< from) /\ ~(i =< from + n) /\ i =< b + 1
    <3>1. r[i - from - n] = Rows(s)[(from + 1) + (i - from - n) - 1]
      <4>1. i - from - n \in 1..((b + 1 - n) - (from + 1) + 1)
        BY <1>1, <2>5
      <4> QED BY <1>3, <4>1 DEF RowsFrom
    <3>2. (from + 1) + (i - from - n) - 1 = i - n /\ i - n \in 1..s.lines /\ i - n - 1 = i - 1 - n
      BY <1>1, <2>5
    <3>3. Rows(s)[i - n] = Line(s, i - n - 1)
      BY <3>2, RowLines
    <3>4. from + n =< i - 1 /\ i - 1 =< b
      BY <1>1, <2>5
    <3> QED BY <1>a, <2>1, <2>2, <2>5, <3>1, <3>2, <3>3, <3>4
  <2>6. CASE ~(i =< from) /\ ~(i =< from + n) /\ ~(i =< b + 1)
    <3>1. u[i - b - 1] = Rows(s)[(b + 2) + (i - b - 1) - 1]
      <4>1. i - b - 1 \in 1..(s.lines - (b + 2) + 1)
        BY <1>1, <2>6
      <4> QED BY <1>4, <4>1 DEF RowsFrom
    <3>2. (b + 2) + (i - b - 1) - 1 = i /\ ~(i - 1 =< b)
      BY <1>1, <2>6
    <3>3. Rows(s)[i] = Line(s, i - 1)
      BY RowLines
    <3> QED BY <1>a, <2>1, <2>2, <2>6, <3>1, <3>2, <3>3
  <2> QED BY <2>3, <2>4, <2>5, <2>6
<1> QED BY <1>6, <1>7, <1>8, <1>10, <1>11, SeqEqual

\* Two lines with the same cells, and a line of blanks
LEMMA SameLine ==
    ASSUME NEW s, NEW t, t.columns = s.columns, NEW e, NEW f,
           \A x \in 1..s.columns : cell(t, x - 1, f) = cell(s, x - 1, e)
    PROVE  Line(t, f) = Line(s, e)
<1>1. Line(t, f) = [x \in 1..s.columns |-> cell(t, x - 1, f)]
  BY DEF Line, cell
<1>2. Line(s, e) = [x \in 1..s.columns |-> cell(s, x - 1, e)]
  BY DEF Line, cell
<1> QED BY <1>1, <1>2

LEMMA BlankLine ==
    ASSUME NEW t, NEW f, \A x \in 1..t.columns : cell(t, x - 1, f) = Blank
    PROVE  Line(t, f) = Blanks(t.columns)
<1>1. Line(t, f) = [x \in 1..t.columns |-> cell(t, x - 1, f)]
  BY DEF Line, cell
<1> QED BY <1>1 DEF Blanks

LEMMA LinesScrolledUp ==
    ASSUME NEW s, Good(s), NEW from \in Nat, NEW n \in Nat, 1 =< n, from + n =< s.bmargin,
           NEW t, t = scrollUp(s, from, n)
    PROVE  Good(t) /\ Same(s, t) /\ LinesUp(s, t, from, s.bmargin, n)
<1> DEFINE m == moveImage(s, loc(s, 0, from), loc(s, 0, from + n), loc(s, Last(s), s.bmargin))
           c == clearLines(m, s.bmargin - n + 1, s.bmargin)
           b == s.bmargin
           a == from + n
           d == 0 - n
           z == 0
           v == Last(s)
           g == b - n + 1
<1>1. /\ s.columns \in Nat \ {0} /\ s.lines \in Nat \ {0} /\ b \in Nat /\ b < s.lines
      /\ v = s.columns - 1 /\ a =< b
  BY Numbers
<1>2. Good(t) /\ Same(s, t)
  <2>1. n \in Int
    OBVIOUS
  <2> QED BY <2>1, ScrollUp
<1>3. t = MoveSelection(c, from, from - n)
  <2>1. ~(n =< 0 \/ from + n > s.bmargin)
    BY <1>1
  <2> QED BY <2>1 DEF scrollUp
<1>4. /\ z \in 0..v /\ v \in 0..v /\ a \in 0..(s.lines - 1) /\ b \in 0..(s.lines - 1)
      /\ a < b \/ (a = b /\ z =< v)
      /\ d \in Int /\ z \in Int /\ z + z = 0 /\ v + z = v
      /\ a + d = from /\ a + d \in 0..(s.lines - 1) /\ b + d \in 0..(s.lines - 1)
      /\ g \in 0..(s.lines - 1) /\ b + d = b - n /\ \A f \in Int : f - d = f + n
  BY <1>1
<1>5. m = moveImage(s, loc(s, z + z, a + d), loc(s, z, a), loc(s, v, b))
  BY <1>4
<1> HIDE DEF m, b, a, d, z, v, g
<1>6. Good(m) /\ Same(s, m) /\ Moved(s, m, z, a, v, b, z, d)
  <2>1. /\ z \in 0..Last(s) /\ v \in 0..Last(s) /\ z + z \in 0..Last(s) /\ v + z \in 0..Last(s)
        /\ loc(s, v, b) = loc(s, v, b)
    BY <1>4 DEF v, z
  <2> QED BY <1>4, <1>5, <2>1, MovedCells
<1>7. /\ m.lines = s.lines /\ m.columns = s.columns /\ Last(m) = v
  BY <1>6 DEF Same, Last, v
<1>8. c = clearImage(m, loc(m, z, g), loc(m, v, b), Blank)
  BY <1>7 DEF c, clearLines, z, g, b
<1> HIDE DEF c
<1>9. Good(c) /\ Same(m, c) /\ Cleared(m, c, z, g, v, b, Blank)
  <2>1. /\ z \in 0..Last(m) /\ v \in 0..Last(m) /\ g \in 0..(m.lines - 1) /\ b \in 0..(m.lines - 1)
        /\ Blank \in Cell
    BY <1>4, <1>7 DEF Cell
  <2> QED BY <1>6, <1>8, <2>1, ClearedCells
<1>10. t.image = c.image /\ t.columns = s.columns /\ c.columns = s.columns
  <2>1. from \in Int /\ from - n \in Int
    OBVIOUS
  <2>2. t.image = c.image
    BY <1>3, <1>9, <2>1, SelectionMoves
  <2> QED BY <1>2, <1>6, <1>9, <2>2 DEF Same
<1>11. ASSUME NEW e \in 0..v, NEW f \in 0..(s.lines - 1)
       PROVE  cell(t, e, f) = IF from =< f /\ f =< b - n THEN cell(s, e, f + n)
                              ELSE IF from =< f /\ f =< b THEN Blank ELSE cell(s, e, f)
  <2>0. e \in Int /\ f \in Int /\ z =< e /\ e =< v /\ e - z = e /\ f - d = f + n
        /\ z + z =< e /\ e =< v + z /\ e \in 0..Last(s) /\ e \in 0..Last(m) /\ f \in 0..(m.lines - 1)
    BY <1>1, <1>4, <1>7 DEF z, v
  <2>1. cell(t, e, f) = cell(c, e, f)
    BY <1>10 DEF cell, loc
  <2>2. cell(c, e, f) = IF g =< f /\ f =< b THEN Blank ELSE cell(m, e, f)
    <3>1. cell(c, e, f) = IF (g < f \/ (g = f /\ z =< e)) /\ (f < b \/ (f = b /\ e =< v))
                          THEN Blank ELSE cell(m, e, f)
      BY <1>9, <2>0 DEF Cleared
    <3> QED BY <1>1, <1>4, <2>0, <3>1
  <2>3. /\ from =< f /\ f =< b - n => cell(m, e, f) = cell(s, e, f + n)
        /\ ~(from =< f /\ f =< b - n) => cell(m, e, f) = cell(s, e, f)
    <3> DEFINE into == /\ a + d < f \/ (a + d = f /\ z + z =< e)
                       /\ f < b + d \/ (f = b + d /\ e =< v + z)
    <3>1. into <=> from =< f /\ f =< b - n
      BY <1>1, <1>4, <2>0
    <3>2. /\ into /\ e - z \in 0..Last(s) /\ f - d \in 0..(s.lines - 1)
                => cell(m, e, f) = cell(s, e - z, f - d)
          /\ ~into => cell(m, e, f) = cell(s, e, f)
      BY <1>6, <2>0 DEF Moved
    <3>3. from =< f /\ f =< b - n => f - d \in 0..(s.lines - 1)
      BY <1>1, <2>0
    <3> HIDE DEF into
    <3> QED BY <2>0, <3>1, <3>2, <3>3
  <2>4. g =< f <=> ~(f =< b - n)
    BY <1>1, <2>0 DEF g
  <2>5. g =< f => from =< f
    BY <1>1, <2>0 DEF g, a
  <2> QED BY <2>1, <2>2, <2>3, <2>4, <2>5
<1>12. ASSUME NEW f \in 0..(s.lines - 1)
       PROVE  Line(t, f) = IF from =< f /\ f =< b - n THEN Line(s, f + n)
                           ELSE IF from =< f /\ f =< b THEN Blanks(s.columns) ELSE Line(s, f)
  <2>1. \A x \in 1..s.columns : x - 1 \in 0..v
    BY <1>1
  <2>2. CASE from =< f /\ f =< b - n
    <3>1. \A x \in 1..s.columns : cell(t, x - 1, f) = cell(s, x - 1, f + n)
      BY <1>11, <2>1, <2>2
    <3> QED BY <1>10, <2>2, <3>1, SameLine
  <2>3. CASE ~(from =< f /\ f =< b - n) /\ from =< f /\ f =< b
    <3>1. \A x \in 1..t.columns : cell(t, x - 1, f) = Blank
      BY <1>10, <1>11, <2>1, <2>3
    <3>2. Line(t, f) = Blanks(t.columns)
      BY <3>1, BlankLine
    <3> QED BY <1>10, <2>3, <3>2
  <2>4. CASE ~(from =< f /\ f =< b - n) /\ ~(from =< f /\ f =< b)
    <3>1. \A x \in 1..s.columns : cell(t, x - 1, f) = cell(s, x - 1, f)
      BY <1>11, <2>1, <2>4
    <3>2. Line(t, f) = Line(s, f)
      BY <1>10, <3>1, SameLine
    <3> QED BY <2>4, <3>2
  <2> QED BY <2>2, <2>3, <2>4
<1>13. LinesUp(s, t, from, b, n)
  BY <1>12 DEF LinesUp
<1> QED BY <1>2, <1>13 DEF b

LEMMA LinesScrolledDown ==
    ASSUME NEW s, Good(s), NEW from \in Nat, NEW n \in Nat, 1 =< n, from + n =< s.bmargin,
           NEW t, t = scrollDown(s, from, n)
    PROVE  Good(t) /\ Same(s, t) /\ LinesDown(s, t, from, s.bmargin, n)
<1> DEFINE m == moveImage(s, loc(s, 0, from + n), loc(s, 0, from), loc(s, Last(s), s.bmargin - n))
           c == clearLines(m, from, from + n - 1)
           b == s.bmargin
           w == b - n
           z == 0
           v == Last(s)
           g == from + n - 1
<1>1. /\ s.columns \in Nat \ {0} /\ s.lines \in Nat \ {0} /\ b \in Nat /\ b < s.lines
      /\ v = s.columns - 1 /\ from + n =< b
  BY Numbers
<1>2. Good(t) /\ Same(s, t)
  <2>1. n \in Int
    OBVIOUS
  <2> QED BY <2>1, ScrollDown
<1>3. t = MoveSelection(c, from, n - from)
  <2>1. ~(n =< 0 \/ from > s.bmargin) /\ Lower(n, s.bmargin - from) = n
    BY <1>1 DEF Lower
  <2> QED BY <2>1 DEF scrollDown
<1>4. /\ z \in 0..v /\ v \in 0..v /\ from \in 0..(s.lines - 1) /\ w \in 0..(s.lines - 1)
      /\ from < w \/ (from = w /\ z =< v)
      /\ n \in Int /\ z \in Int /\ z + z = 0 /\ v + z = v
      /\ from + n \in 0..(s.lines - 1) /\ w + n = b /\ w + n \in 0..(s.lines - 1)
      /\ g \in 0..(s.lines - 1) /\ b \in 0..(s.lines - 1)
  BY <1>1
<1>5. m = moveImage(s, loc(s, z + z, from + n), loc(s, z, from), loc(s, v, w))
  BY <1>4
<1> HIDE DEF m, b, w, z, v, g
<1>6. Good(m) /\ Same(s, m) /\ Moved(s, m, z, from, v, w, z, n)
  <2>1. /\ z \in 0..Last(s) /\ v \in 0..Last(s) /\ z + z \in 0..Last(s) /\ v + z \in 0..Last(s)
    BY <1>4 DEF v, z
  <2> QED BY <1>4, <1>5, <2>1, MovedCells
<1>7. /\ m.lines = s.lines /\ m.columns = s.columns /\ Last(m) = v
  BY <1>6 DEF Same, Last, v
<1>8. c = clearImage(m, loc(m, z, from), loc(m, v, g), Blank)
  BY <1>7 DEF c, clearLines, z, g
<1> HIDE DEF c
<1>9. Good(c) /\ Same(m, c) /\ Cleared(m, c, z, from, v, g, Blank)
  <2>1. /\ z \in 0..Last(m) /\ v \in 0..Last(m) /\ g \in 0..(m.lines - 1) /\ from \in 0..(m.lines - 1)
        /\ Blank \in Cell
    BY <1>4, <1>7 DEF Cell
  <2> QED BY <1>6, <1>8, <2>1, ClearedCells
<1>10. t.image = c.image /\ t.columns = s.columns /\ c.columns = s.columns
  <2>1. from \in Int /\ n - from \in Int
    OBVIOUS
  <2>2. t.image = c.image
    BY <1>3, <1>9, <2>1, SelectionMoves
  <2> QED BY <1>2, <1>6, <1>9, <2>2 DEF Same
<1>11. ASSUME NEW e \in 0..v, NEW f \in 0..(s.lines - 1)
       PROVE  cell(t, e, f) = IF from + n =< f /\ f =< b THEN cell(s, e, f - n)
                              ELSE IF from =< f /\ f =< b THEN Blank ELSE cell(s, e, f)
  <2>0. e \in Int /\ f \in Int /\ z =< e /\ e =< v /\ e - z = e
        /\ z + z =< e /\ e =< v + z /\ e \in 0..Last(s) /\ e \in 0..Last(m) /\ f \in 0..(m.lines - 1)
    BY <1>1, <1>4, <1>7 DEF z, v
  <2>1. cell(t, e, f) = cell(c, e, f)
    BY <1>10 DEF cell, loc
  <2>2. cell(c, e, f) = IF from =< f /\ f =< g THEN Blank ELSE cell(m, e, f)
    <3>1. cell(c, e, f) = IF (from < f \/ (from = f /\ z =< e)) /\ (f < g \/ (f = g /\ e =< v))
                          THEN Blank ELSE cell(m, e, f)
      BY <1>9, <2>0 DEF Cleared
    <3> QED BY <1>1, <1>4, <2>0, <3>1
  <2>3. /\ from + n =< f /\ f =< b => cell(m, e, f) = cell(s, e, f - n)
        /\ ~(from + n =< f /\ f =< b) => cell(m, e, f) = cell(s, e, f)
    <3> DEFINE into == /\ from + n < f \/ (from + n = f /\ z + z =< e)
                       /\ f < w + n \/ (f = w + n /\ e =< v + z)
    <3>1. into <=> from + n =< f /\ f =< b
      BY <1>1, <1>4, <2>0
    <3>2. /\ into /\ e - z \in 0..Last(s) /\ f - n \in 0..(s.lines - 1)
                => cell(m, e, f) = cell(s, e - z, f - n)
          /\ ~into => cell(m, e, f) = cell(s, e, f)
      BY <1>6, <2>0 DEF Moved
    <3>3. from + n =< f /\ f =< b => f - n \in 0..(s.lines - 1)
      BY <1>1, <2>0
    <3> HIDE DEF into
    <3> QED BY <2>0, <3>1, <3>2, <3>3
  <2>4. f =< g <=> ~(from + n =< f)
    BY <1>1, <2>0 DEF g
  <2>5. f =< g => f =< b
    BY <1>1, <2>0 DEF g
  <2> QED BY <2>1, <2>2, <2>3, <2>4, <2>5
<1>12. ASSUME NEW f \in 0..(s.lines - 1)
       PROVE  Line(t, f) = IF from + n =< f /\ f =< b THEN Line(s, f - n)
                           ELSE IF from =< f /\ f =< b THEN Blanks(s.columns) ELSE Line(s, f)
  <2>1. \A x \in 1..s.columns : x - 1 \in 0..v
    BY <1>1
  <2>2. CASE from + n =< f /\ f =< b
    <3>1. \A x \in 1..s.columns : cell(t, x - 1, f) = cell(s, x - 1, f - n)
      BY <1>11, <2>1, <2>2
    <3> QED BY <1>10, <2>2, <3>1, SameLine
  <2>3. CASE ~(from + n =< f /\ f =< b) /\ from =< f /\ f =< b
    <3>1. \A x \in 1..t.columns : cell(t, x - 1, f) = Blank
      BY <1>10, <1>11, <2>1, <2>3
    <3>2. Line(t, f) = Blanks(t.columns)
      BY <3>1, BlankLine
    <3> QED BY <1>10, <2>3, <3>2
  <2>4. CASE ~(from + n =< f /\ f =< b) /\ ~(from =< f /\ f =< b)
    <3>1. \A x \in 1..s.columns : cell(t, x - 1, f) = cell(s, x - 1, f)
      BY <1>11, <2>1, <2>4
    <3>2. Line(t, f) = Line(s, f)
      BY <1>10, <3>1, SameLine
    <3> QED BY <2>4, <3>2
  <2> QED BY <2>2, <2>3, <2>4
<1>13. LinesDown(s, t, from, b, n)
  BY <1>12 DEF LinesDown
<1> QED BY <1>2, <1>13 DEF b

\* What scrollUp and scrollDown make of the list of lines
LEMMA RowsScrolled ==
    ASSUME NEW s, Good(s), NEW from \in Nat, NEW n \in Nat, 1 =< n, from + n =< s.bmargin
    PROVE  /\ Rows(scrollUp(s, from, n)) = Up(s, from, n)
           /\ Rows(scrollDown(s, from, n)) = Down(s, from, n)
<1> DEFINE t == scrollUp(s, from, n)
           u == scrollDown(s, from, n)
<1>1. Good(t) /\ Same(s, t) /\ LinesUp(s, t, from, s.bmargin, n)
  BY LinesScrolledUp
<1>2. Good(u) /\ Same(s, u) /\ LinesDown(s, u, from, s.bmargin, n)
  BY LinesScrolledDown
<1> HIDE DEF t, u
<1>3. Rows(t) = Up(s, from, n)
  BY <1>1, RowsUp DEF Same
<1>4. Rows(u) = Down(s, from, n)
  BY <1>2, RowsDown DEF Same
<1> QED BY <1>3, <1>4 DEF t, u

LEMMA SameRows ==
    ASSUME NEW s, NEW t, t.image = s.image, t.columns = s.columns, t.lines = s.lines
    PROVE  Rows(t) = Rows(s)
  BY DEF Rows, Line, loc

\* On the bottom margin there is no room for another line.
LEMMA NoneInserted ==
    ASSUME NEW s, Good(s), NEW n \in Nat, 1 =< n
    PROVE  Rows(scrollDown(s, s.bmargin, n)) = Down(s, s.bmargin, 0)
<1> DEFINE b == s.bmargin
           z == 0
           p == loc(s, z, b)
           q == loc(s, Last(s), b)
           m == moveImage(s, p, p, q)
           c == clearLines(m, b, b - 1)
           t == MoveSelection(c, b, 0 - b)
<1>1. b \in Nat /\ b < s.lines /\ s.lines \in Nat \ {0} /\ s.columns \in Nat \ {0} /\ Last(s) = s.columns - 1
  BY Numbers
<1>2. scrollDown(s, b, n) = t
  <2>1. /\ ~(n =< 0 \/ b > s.bmargin)
        /\ Lower(n, s.bmargin - b) = 0 /\ b + 0 = b /\ s.bmargin - 0 = b /\ b + 0 - 1 = b - 1
    BY <1>1 DEF Lower
  <2> HIDE DEF b, t
  <2>2. scrollDown(s, b, n) = MoveSelection(clearLines(moveImage(s, loc(s, 0, b + 0), loc(s, 0, b),
                                                                 loc(s, Last(s), s.bmargin - 0)),
                                                       b, b + 0 - 1), b, 0 - b)
    BY <2>1, Zenon DEF scrollDown
  <2> QED BY <2>1, <2>2, Zenon DEF t
<1> HIDE DEF b, t, z
<1>3. p \in Int /\ q \in Int
  <2>1. z \in Int /\ Last(s) \in Int /\ b \in Int
    BY <1>1 DEF z
  <2> QED BY <2>1, LocInt
<1> HIDE DEF p, q
<1>4. Good(m) /\ Same(s, m) /\ m.image = s.image
  BY <1>3, MoveImage, MovedNowhere
<1> HIDE DEF m
<1>5. Good(c) /\ Same(m, c) /\ c.image = m.image
  <2>1. Good(c) /\ Same(m, c)
    <3>1. b \in Int /\ b - 1 \in Int
      BY <1>1
    <3> QED BY <1>4, <3>1, ClearLines
  <2>2. /\ loc(m, 0, b) \in Int /\ loc(m, Last(m), b - 1) \in Int
        /\ loc(m, 0, b) > loc(m, Last(m), b - 1)
    <3>1. m.columns = s.columns /\ Last(m) = s.columns - 1
      BY <1>4 DEF Same, Last
    <3>2. (b - 1) * s.columns = b * s.columns - s.columns /\ b * s.columns \in Int
      BY <1>1
    <3> QED BY <1>1, <3>1, <3>2 DEF loc
  <2>3. Blank \in Cell
    BY DEF Cell
  <2> QED BY <1>4, <2>1, <2>2, <2>3, NoneCleared DEF clearLines
<1> HIDE DEF c
<1>6. Good(t) /\ Same(c, t) /\ t.image = c.image
  <2>1. b \in Int /\ 0 - b \in Int
    BY <1>1
  <2> QED BY <1>5, <2>1, SelectionMoves DEF t
<1>7. Rows(t) = Rows(s)
  <2>1. t.image = s.image /\ t.columns = s.columns /\ t.lines = s.lines
    BY <1>4, <1>5, <1>6 DEF Same
  <2> QED BY <2>1, SameRows
<1>8. Rows(s) = Down(s, b, z)
  <2>1. LinesDown(s, s, b, s.bmargin, z)
    <3>1. \A f \in 0..(s.lines - 1) : f - z = f /\ (b + z =< f <=> b =< f)
      BY <1>1 DEF z
    <3> QED BY <3>1 DEF LinesDown
  <2>2. z \in Nat /\ b + z =< s.bmargin
    BY <1>1 DEF z, b
  <2> QED BY <1>1, <2>1, <2>2, RowsDown
<1> QED BY <1>2, <1>7, <1>8 DEF b, z

\* scrollUp and scrollDown for every number of lines
LEMMA Scrolled ==
    ASSUME NEW s, Good(s), NEW from \in Nat, NEW n \in Nat, 1 =< n
    PROVE  /\ Rows(scrollUp(s, from, n)) = Deleted(s, from, n)
           /\ Rows(scrollDown(s, from, n)) = Inserted(s, from, n)
<1> DEFINE room == s.bmargin - from
<1>1. s.bmargin \in Nat /\ room \in Int
  BY Numbers
<1>2. CASE n =< room
  <2>1. from + n =< s.bmargin /\ from =< s.bmargin /\ Lower(n, room) = n
    BY <1>1, <1>2 DEF Lower
  <2> QED BY <1>2, <2>1, RowsScrolled DEF Deleted, Inserted
<1>3. CASE ~(n =< room)
  <2>1. scrollUp(s, from, n) = s
    <3>1. from + n > s.bmargin
      BY <1>1, <1>3
    <3> QED BY <3>1 DEF scrollUp
  <2>2. Rows(scrollUp(s, from, n)) = Deleted(s, from, n)
    BY <1>3, <2>1 DEF Deleted
  <2>3. CASE from > s.bmargin
    <3>1. scrollDown(s, from, n) = s /\ ~(from =< s.bmargin)
      BY <1>1, <2>3 DEF scrollDown
    <3> QED BY <2>2, <3>1 DEF Inserted
  <2>4. CASE from = s.bmargin
    <3>1. from =< s.bmargin /\ Lower(n, s.bmargin - from) = 0
      BY <1>1, <2>4 DEF Lower
    <3> QED BY <2>2, <2>4, <3>1, NoneInserted DEF Inserted
  <2>5. CASE from < s.bmargin
    <3>1. /\ room \in Nat /\ 1 =< room /\ from + room =< s.bmargin /\ from =< s.bmargin
          /\ Lower(n, room) = room /\ Lower(room, room) = room
          /\ ~(n =< 0 \/ from > s.bmargin) /\ ~(room =< 0 \/ from > s.bmargin)
      BY <1>1, <1>3, <2>5 DEF Lower
    <3>2. scrollDown(s, from, n) = scrollDown(s, from, room)
      BY <3>1 DEF scrollDown
    <3> HIDE DEF room
    <3>3. Rows(scrollDown(s, from, room)) = Down(s, from, room)
      BY <3>1, RowsScrolled
    <3> QED BY <2>2, <3>1, <3>2, <3>3 DEF Inserted, room
  <2> QED BY <1>1, <2>3, <2>4, <2>5
<1> QED BY <1>1, <1>2, <1>3

\* Between the margins a line feed, a reverse line feed and the deletion and
\* insertion of any number of lines act on the list of lines, and nothing below the
\* bottom margin moves, for screens of every size; the last line is never deleted
\* nor pushed out by them, so that a deletion that reaches the bottom margin deletes
\* none (TEScreen.C:185-210, 274-289, 722-759).
THEOREM RegionScrolled == Spec => []ScrollsRegion
<1>1. Inv => ScrollsRegion
  <2> SUFFICES ASSUME Inv PROVE ScrollsRegion
    OBVIOUS
  <2>0. /\ Good(scr) /\ scr.tmargin \in Nat /\ scr.bmargin \in Nat /\ scr.cuY \in Nat
    BY Numbers DEF Inv
  <2>1. ASSUME scr.cuY >= scr.bmargin
        PROVE  Rows(index(scr)) = Deleted(scr, scr.tmargin, 1)
    <3> DEFINE u == IF scr.tmargin = 0 /\ scr.bmargin = scr.lines - 1 THEN addHistLine(scr) ELSE scr
    <3>1. /\ Good(u) /\ u.image = scr.image /\ u.columns = scr.columns /\ u.lines = scr.lines
          /\ u.bmargin = scr.bmargin
      BY <2>0, AddHistLine
    <3>2. index(scr) = scrollUp(u, scr.tmargin, 1)
      BY <2>1 DEF index
    <3> HIDE DEF u
    <3>3. Rows(scrollUp(u, scr.tmargin, 1)) = Deleted(u, scr.tmargin, 1)
      BY <2>0, <3>1, Scrolled
    <3>4. Rows(u) = Rows(scr) /\ Empty(u, 1) = Empty(scr, 1)
      BY <3>1 DEF Rows, Line, loc, Empty
    <3>5. Deleted(u, scr.tmargin, 1) = Deleted(scr, scr.tmargin, 1)
      BY <3>1, <3>4 DEF Up, Deleted
    <3> QED BY <3>2, <3>3, <3>5
  <2>2. ASSUME scr.cuY =< scr.tmargin
        PROVE  Rows(reverseIndex(scr)) = Inserted(scr, scr.tmargin, 1)
    <3>1. reverseIndex(scr) = scrollDown(scr, scr.tmargin, 1)
      BY <2>2 DEF reverseIndex
    <3> QED BY <2>0, <3>1, Scrolled
  <2>3. ASSUME NEW n \in Count
        PROVE  /\ Rows(deleteLines(scr, n)) = Deleted(scr, scr.cuY, OrOne(n))
               /\ Rows(insertLines(scr, n)) = Inserted(scr, scr.cuY, OrOne(n))
    <3>1. OrOne(n) \in Nat /\ 1 =< OrOne(n)
      BY NumbersAssumption DEF OrOne
    <3> QED BY <2>0, <3>1, Scrolled DEF deleteLines, insertLines
  <2> QED BY <2>1, <2>2, <2>3 DEF ScrollsRegion
<1> QED BY <1>1, Inductive, PTL
-----------------------------------------------------------------------------
(* The history *)

\* The first line is cut where its last blanks begin.
LEMMA FirstLinePadded ==
    ASSUME NEW s, Good(s)
    PROVE  FirstLine(s) \o Blanks(s.columns - Len(FirstLine(s))) = Line(s, 0)
<1> DEFINE upto == {x \in 0..Last(s) : \E y \in x..Last(s) : s.image[y] # Blank}
           len == Cardinality(upto)
           l == FirstLine(s)
<1>1. s.columns \in Nat \ {0} /\ s.lines \in Nat \ {0} /\ Last(s) = s.columns - 1 /\ Last(s) \in Nat
  BY Numbers
<1>2. upto \subseteq 0..Last(s) /\ \A x \in upto : 0..x \subseteq upto
  <2>1. ASSUME NEW x \in upto, NEW w \in 0..x PROVE w \in upto
    <3>1. PICK y \in x..Last(s) : s.image[y] # Blank
      BY <2>1
    <3>2. w \in 0..Last(s) /\ y \in w..Last(s)
      BY <1>1, <2>1, <3>1
    <3> QED BY <3>1, <3>2
  <2> QED BY <2>1
<1>3. \A x \in 0..Last(s) : x \notin upto => s.image[x] = Blank
  <2> SUFFICES ASSUME NEW x \in 0..Last(s), s.image[x] # Blank PROVE x \in upto
    OBVIOUS
  <2>1. x \in x..Last(s)
    BY <1>1
  <2> QED BY <2>1
<1>4. l = [x \in 1..len |-> s.image[x - 1]]
  BY DEF FirstLine
<1>5. l \in Seq(Cell)
  BY FirstLineCells
<1> HIDE DEF upto
<1>6. len \in Nat /\ len =< s.columns /\ upto = 0..(len - 1)
  <2>1. 0 \in Int /\ Last(s) \in Int
    BY <1>1
  <2>2. IsFiniteSet(0..Last(s)) /\ Cardinality(0..Last(s)) = s.columns
    <3>1. IsFiniteSet(0..Last(s)) /\ Cardinality(0..Last(s)) = IF 0 > Last(s) THEN 0 ELSE Last(s) - 0 + 1
      BY <2>1, FS_Interval
    <3> QED BY <1>1, <3>1
  <2>3. IsFiniteSet(upto) /\ len =< s.columns
    <3>1. upto \subseteq 0..Last(s)
      BY <1>2
    <3>2. IsFiniteSet(upto) /\ Cardinality(upto) =< Cardinality(0..Last(s))
      BY <2>2, <3>1, FS_Subset
    <3> QED BY <2>2, <3>2
  <2>4. len \in Nat
    BY <2>3, FS_CardinalityType
  <2> HIDE DEF len
  <2>5. ASSUME NEW x \in upto PROVE x \in 0..(len - 1)
    <3>1. x \in Int /\ 0 =< x
      BY <1>2
    <3>2. 0..x \in SUBSET upto
      BY <1>2
    <3>3. Cardinality(0..x) = x + 1
      <4>1. Cardinality(0..x) = IF 0 > x THEN 0 ELSE x - 0 + 1
        BY <2>1, <3>1, FS_Interval
      <4> QED BY <3>1, <4>1
    <3>4. Cardinality(0..x) =< len
      BY <2>3, <3>2, FS_Subset DEF len
    <3> QED BY <2>4, <3>1, <3>3, <3>4
  <2>6. upto = 0..(len - 1)
    <3>1. len - 1 \in Int
      BY <2>4
    <3>2. IsFiniteSet(0..(len - 1)) /\ Cardinality(0..(len - 1)) = len
      <4>1. IsFiniteSet(0..(len - 1))
            /\ Cardinality(0..(len - 1)) = IF 0 > len - 1 THEN 0 ELSE (len - 1) - 0 + 1
        BY <2>1, <3>1, FS_Interval
      <4> QED BY <2>4, <4>1
    <3>3. upto \in SUBSET (0..(len - 1))
      BY <2>5
    <3> QED BY <3>2, <3>3, FS_Subset DEF len
  <2> QED BY <2>3, <2>4, <2>6
<1> HIDE DEF len
<1>7. Len(l) = len /\ \A x \in 1..len : l[x] = s.image[x - 1]
  <2> HIDE DEF l
  <2>1. DOMAIN l = 1..len
    BY <1>4
  <2>2. DOMAIN l = 1..Len(l) /\ Len(l) \in Nat
    BY <1>5, LenProperties
  <2> QED BY <1>4, <1>5, <1>6, <2>1, <2>2
<1> HIDE DEF l
<1> DEFINE k == Blanks(s.columns - Len(l))
           n == Line(s, 0)
<1>8. k \in Seq(Cell) /\ Len(k) = s.columns - len /\ \A i \in 1..(s.columns - len) : k[i] = Blank
  <2>1. s.columns - Len(l) \in Nat
    BY <1>1, <1>6, <1>7
  <2> QED BY <1>7, <2>1, BlankCells
<1>9. n \in Seq(Cell) /\ Len(n) = s.columns /\ \A x \in 1..s.columns : n[x] = s.image[x - 1]
  <2>1. 0 \in 0..(s.lines - 1)
    BY <1>1
  <2>2. /\ n \in Seq(Cell) /\ Len(n) = s.columns
        /\ \A x \in 1..s.columns : n[x] = cell(s, x - 1, 0)
    BY <2>1, LineCells
  <2>3. \A x \in 1..s.columns : loc(s, x - 1, 0) = x - 1
    BY <1>1 DEF loc
  <2> QED BY <2>2, <2>3 DEF cell
<1> HIDE DEF k, n
<1>10. /\ l \o k \in Seq(Cell) /\ Len(l \o k) = Len(l) + Len(k)
       /\ \A i \in 1..(Len(l) + Len(k)) : (l \o k)[i] = IF i =< Len(l) THEN l[i] ELSE k[i - Len(l)]
  BY <1>5, <1>8, ConcatProperties, Zenon
<1>11. Len(l) + Len(k) = s.columns
  BY <1>1, <1>6, <1>7, <1>8
<1>12. ASSUME NEW i \in 1..s.columns PROVE (l \o k)[i] = n[i]
  <2>1. (l \o k)[i] = IF i =< len THEN l[i] ELSE k[i - len]
    BY <1>7, <1>10, <1>11
  <2>2. n[i] = s.image[i - 1]
    BY <1>9
  <2>3. CASE i =< len
    <3>1. i \in 1..len
      BY <1>6, <2>3
    <3> QED BY <1>7, <2>1, <2>2, <2>3, <3>1
  <2>4. CASE ~(i =< len)
    <3>1. i - len \in 1..(s.columns - len) /\ i - 1 \in 0..Last(s) /\ i - 1 \notin 0..(len - 1)
      BY <1>1, <1>6, <2>4
    <3> QED BY <1>3, <1>6, <1>8, <2>1, <2>2, <2>4, <3>1
  <2> QED BY <2>3, <2>4
<1>13. l \o k = n
  BY <1>9, <1>10, <1>11, <1>12, SeqEqual
<1> QED BY <1>13 DEF l, k, n

\* What HistoryKeeps says of a screen and the next one
Keeps(s, t) ==
    LET h == s.hist
        g == t.hist
        seen == SubSeq(h, s.histCursor + 1, Len(h))
        first == g[Len(g)]
    IN  /\ first \o Blanks(s.columns - Len(first)) = Line(s, 0)
        /\ SubSeq(g, 1, Len(g) - 1) = IF Len(h) < s.histMaxLines THEN h ELSE Tail(h)
        /\ IF seen = <<>> \/ (seen = h /\ Len(g) = Len(h))
           THEN t.histCursor = Len(g)
           ELSE SubSeq(g, t.histCursor + 1, Len(g) - 1) = seen

\* The rest of a sequence after its first k elements
LEMMA Tails ==
    ASSUME NEW S, NEW h \in Seq(S), NEW k \in 0..Len(h)
    PROVE  /\ SubSeq(h, k + 1, Len(h)) \in Seq(S) /\ Len(SubSeq(h, k + 1, Len(h))) = Len(h) - k
           /\ \A i \in 1..(Len(h) - k) : SubSeq(h, k + 1, Len(h))[i] = h[k + i]
           /\ SubSeq(h, k + 1, Len(h)) = <<>> <=> k = Len(h)
           /\ SubSeq(h, k + 1, Len(h)) = h <=> k = 0
<1> DEFINE t == SubSeq(h, k + 1, Len(h))
<1>1. Len(h) \in Nat /\ k \in Nat /\ k =< Len(h) /\ k + 1 \in Int
  BY LenProperties
<1>2. \A i \in (k + 1)..Len(h) : h[i] \in S
  BY <1>1, ElementOfSeq
<1>3. /\ t \in Seq(S) /\ Len(t) = IF k + 1 =< Len(h) THEN Len(h) - (k + 1) + 1 ELSE 0
      /\ \A i \in 1..(Len(h) - (k + 1) + 1) : t[i] = h[(k + 1) + i - 1]
  BY <1>1, <1>2, SubSeqProperties
<1>4. Len(t) = Len(h) - k
  BY <1>1, <1>3
<1>5. \A i \in 1..(Len(h) - k) : t[i] = h[k + i]
  <2> SUFFICES ASSUME NEW i \in 1..(Len(h) - k) PROVE t[i] = h[k + i]
    OBVIOUS
  <2>1. i \in 1..(Len(h) - (k + 1) + 1) /\ (k + 1) + i - 1 = k + i
    BY <1>1
  <2> HIDE DEF t
  <2> QED BY <1>3, <2>1
<1> HIDE DEF t
<1>6. t = <<>> <=> k = Len(h)
  <2>1. Len(<<>>) = 0 /\ (t # <<>> => Len(t) \in Nat \ {0})
    BY <1>3, EmptySeq
  <2> QED BY <1>1, <1>4, <2>1
<1>7. t = h <=> k = 0
  <2>1. k = 0 => t = h
    <3>1. SubSeq(h, 1, Len(h)) = h
      BY SubSeqFull
    <3> QED BY <3>1 DEF t
  <2>2. t = h => k = 0
    BY <1>1, <1>4
  <2> QED BY <2>1, <2>2
<1> QED BY <1>3, <1>4, <1>5, <1>6, <1>7 DEF t

LEMMA AddedKeeps ==
    ASSUME NEW s, Good(s), s.histMaxLines # 0, NEW t, Added(s, t, FirstLine(s))
    PROVE  Keeps(s, t)
<1> DEFINE h == s.hist
           g == t.hist
           l == FirstLine(s)
           k == s.histCursor
           S == Seq(Cell)
           seen == SubSeq(h, k + 1, Len(h))
           o == Tail(h)
<1>1. /\ h \in Seq(S) /\ Len(h) \in Nat /\ k \in 0..Len(h) /\ l \in S
      /\ s.histMaxLines \in Nat \ {0} /\ Len(h) =< s.histMaxLines
  BY Rest, FirstLineCells, LenProperties
<1>2. l \o Blanks(s.columns - Len(l)) = Line(s, 0)
  BY FirstLinePadded
<1>3. /\ seen \in Seq(S) /\ Len(seen) = Len(h) - k
      /\ \A i \in 1..(Len(h) - k) : seen[i] = h[k + i]
      /\ seen = <<>> <=> k = Len(h)
      /\ seen = h <=> k = 0
  <2> HIDE DEF h, k, S
  <2> QED BY <1>1, Tails
<1> SUFFICES /\ g[Len(g)] = l
             /\ SubSeq(g, 1, Len(g) - 1) = IF Len(h) < s.histMaxLines THEN h ELSE o
             /\ IF seen = <<>> \/ (seen = h /\ Len(g) = Len(h))
                THEN t.histCursor = Len(g)
                ELSE SubSeq(g, t.histCursor + 1, Len(g) - 1) = seen
  BY <1>2 DEF Keeps
<1>4. CASE Len(h) >= s.histMaxLines
  <2> DEFINE c == IF k = 0 THEN Len(h) ELSE k
  <2>1. g = Append(o, l) /\ t.histCursor = IF c # Len(h) THEN c - 1 ELSE c
    BY <1>4 DEF Added
  <2>2. /\ o \in Seq(S) /\ Len(o) = Len(h) - 1 /\ Len(h) # 0
        /\ \A i \in 1..(Len(h) - 1) : o[i] = h[i + 1]
    <3>1. h # <<>> /\ Len(h) # 0
      BY <1>1, <1>4, EmptySeq
    <3> HIDE DEF h
    <3> QED BY <1>1, <3>1, HeadTailProperties
  <2> HIDE DEF h, g, l, k, S, seen, o
  <2>3. /\ g \in Seq(S) /\ Len(g) = Len(h) /\ g[Len(h)] = l
        /\ \A i \in 1..(Len(h) - 1) : g[i] = o[i]
    <3>1. /\ g \in Seq(S) /\ Len(g) = Len(o) + 1 /\ g[Len(o) + 1] = l
          /\ \A i \in 1..Len(o) : g[i] = o[i]
      BY <1>1, <2>1, <2>2, AppendProperties
    <3>2. Len(o) + 1 = Len(h)
      BY <1>1, <2>2
    <3> QED BY <2>2, <3>1, <3>2
  <2>4. \A m \in 1..Len(h) : /\ SubSeq(g, m, Len(h) - 1) \in Seq(S)
                             /\ Len(SubSeq(g, m, Len(h) - 1)) = Len(h) - m
                             /\ \A i \in 1..(Len(h) - m) : SubSeq(g, m, Len(h) - 1)[i] = h[m + i]
    <3> SUFFICES ASSUME NEW m \in 1..Len(h)
                 PROVE  /\ SubSeq(g, m, Len(h) - 1) \in Seq(S)
                        /\ Len(SubSeq(g, m, Len(h) - 1)) = Len(h) - m
                        /\ \A i \in 1..(Len(h) - m) : SubSeq(g, m, Len(h) - 1)[i] = h[m + i]
      OBVIOUS
    <3>1. m \in Int /\ Len(h) - 1 \in Int /\ \A i \in m..(Len(h) - 1) : g[i] \in S
      <4>1. \A i \in m..(Len(h) - 1) : i \in 1..Len(g)
        BY <1>1, <2>3
      <4> QED BY <1>1, <2>3, <4>1, ElementOfSeq
    <3>2. /\ SubSeq(g, m, Len(h) - 1) \in Seq(S)
          /\ Len(SubSeq(g, m, Len(h) - 1)) = IF m =< Len(h) - 1 THEN (Len(h) - 1) - m + 1 ELSE 0
          /\ \A i \in 1..((Len(h) - 1) - m + 1) : SubSeq(g, m, Len(h) - 1)[i] = g[m + i - 1]
      BY <3>1, SubSeqProperties
    <3>3. ASSUME NEW i \in 1..(Len(h) - m) PROVE SubSeq(g, m, Len(h) - 1)[i] = h[m + i]
      <4>1. /\ i \in 1..((Len(h) - 1) - m + 1) /\ m + i - 1 \in 1..(Len(h) - 1)
            /\ (m + i - 1) + 1 = m + i
        BY <1>1
      <4> QED BY <2>2, <2>3, <3>2, <4>1
    <3>4. Len(SubSeq(g, m, Len(h) - 1)) = Len(h) - m
      BY <1>1, <3>2
    <3> QED BY <3>2, <3>3, <3>4
  <2>5. SubSeq(g, 1, Len(h) - 1) = o
    <3>1. 1 \in 1..Len(h) /\ \A i \in Int : 1 + i = i + 1
      BY <1>1, <2>2
    <3> DEFINE q == SubSeq(g, 1, Len(h) - 1)
    <3>2. q \in Seq(S) /\ Len(q) = Len(h) - 1 /\ \A i \in 1..(Len(h) - 1) : q[i] = h[1 + i]
      BY <2>4, <3>1
    <3> HIDE DEF q
    <3>3. \A i \in 1..Len(q) : q[i] = o[i]
      BY <2>2, <3>1, <3>2
    <3>4. q = o
      BY <2>2, <3>2, <3>3, SeqEqual
    <3> QED BY <3>4 DEF q
  <2>6. seen = <<>> \/ (seen = h /\ Len(g) = Len(h)) => t.histCursor = Len(g)
    BY <1>1, <1>3, <2>1, <2>2, <2>3
  <2>7. ASSUME ~(seen = <<>> \/ (seen = h /\ Len(g) = Len(h)))
        PROVE  SubSeq(g, t.histCursor + 1, Len(h) - 1) = seen
    <3>1. k \in 1..Len(h) /\ t.histCursor + 1 = k
      BY <1>1, <1>3, <2>1, <2>3, <2>7
    <3> DEFINE q == SubSeq(g, k, Len(h) - 1)
    <3>2. q \in Seq(S) /\ Len(q) = Len(h) - k /\ \A i \in 1..(Len(h) - k) : q[i] = h[k + i]
      BY <2>4, <3>1
    <3> HIDE DEF q
    <3>3. q = seen
      BY <1>3, <3>2, SeqEqual
    <3> QED BY <3>1, <3>3 DEF q
  <2> QED BY <1>4, <1>1, <2>3, <2>5, <2>6, <2>7
<1>5. CASE ~(Len(h) >= s.histMaxLines)
  <2>1. g = Append(h, l) /\ t.histCursor = IF k = Len(h) THEN k + 1 ELSE k
    BY <1>5 DEF Added
  <2> HIDE DEF h, g, l, k, S, seen, o
  <2>2. /\ g \in Seq(S) /\ Len(g) = Len(h) + 1 /\ g[Len(h) + 1] = l
        /\ \A i \in 1..Len(h) : g[i] = h[i]
    BY <1>1, <2>1, AppendProperties
  <2>3. Len(g) - 1 = Len(h) /\ g[Len(g)] = l
    BY <1>1, <2>2
  <2>4. SubSeq(g, 1, Len(h)) = h
    <3>1. 1 \in Int /\ Len(h) \in Int /\ \A i \in 1..Len(h) : g[i] \in S
      BY <1>1, <2>2, ElementOfSeq
    <3> DEFINE q == SubSeq(g, 1, Len(h))
    <3>2. /\ q \in Seq(S) /\ Len(q) = IF 1 =< Len(h) THEN Len(h) - 1 + 1 ELSE 0
          /\ \A i \in 1..(Len(h) - 1 + 1) : q[i] = g[1 + i - 1]
      BY <3>1, SubSeqProperties
    <3> HIDE DEF q
    <3>3. Len(q) = Len(h)
      BY <1>1, <3>2
    <3>4. \A i \in 1..Len(q) : q[i] = h[i]
      <4> SUFFICES ASSUME NEW i \in 1..Len(q) PROVE q[i] = h[i]
        OBVIOUS
      <4>1. i \in 1..Len(h) /\ i \in 1..(Len(h) - 1 + 1) /\ 1 + i - 1 = i
        BY <1>1, <3>3
      <4> QED BY <2>2, <3>2, <4>1
    <3>5. q = h
      BY <1>1, <3>2, <3>3, <3>4, SeqEqual
    <3> QED BY <3>5 DEF q
  <2>5. seen = <<>> \/ (seen = h /\ Len(g) = Len(h)) => t.histCursor = Len(g)
    BY <1>1, <1>3, <2>1, <2>2
  <2>6. ASSUME ~(seen = <<>> \/ (seen = h /\ Len(g) = Len(h)))
        PROVE  SubSeq(g, t.histCursor + 1, Len(h)) = seen
    <3>1. t.histCursor = k /\ k + 1 \in Int /\ Len(h) \in Int /\ k + 1 =< Len(h)
      BY <1>1, <1>3, <2>1, <2>6
    <3>2. \A i \in (k + 1)..Len(h) : g[i] \in S
      <4>1. \A i \in (k + 1)..Len(h) : i \in 1..Len(h) /\ g[i] = h[i]
        BY <1>1, <2>2
      <4> QED BY <1>1, <4>1, ElementOfSeq
    <3> DEFINE q == SubSeq(g, k + 1, Len(h))
    <3>3. /\ q \in Seq(S) /\ Len(q) = IF k + 1 =< Len(h) THEN Len(h) - (k + 1) + 1 ELSE 0
          /\ \A i \in 1..(Len(h) - (k + 1) + 1) : q[i] = g[(k + 1) + i - 1]
      BY <3>1, <3>2, SubSeqProperties
    <3> HIDE DEF q
    <3>4. Len(q) = Len(h) - k
      BY <1>1, <3>1, <3>3
    <3>5. \A i \in 1..Len(q) : q[i] = seen[i]
      <4> SUFFICES ASSUME NEW i \in 1..Len(q) PROVE q[i] = seen[i]
        OBVIOUS
      <4>1. /\ i \in 1..(Len(h) - k) /\ i \in 1..(Len(h) - (k + 1) + 1)
            /\ (k + 1) + i - 1 = k + i /\ k + i \in 1..Len(h)
        BY <1>1, <3>4
      <4> QED BY <1>3, <2>2, <3>3, <4>1
    <3>6. q = seen
      BY <1>3, <3>3, <3>4, <3>5, SeqEqual
    <3> QED BY <3>1, <3>6 DEF q
  <2>7. Len(h) < s.histMaxLines
    BY <1>1, <1>5
  <2>8. SubSeq(g, 1, Len(g) - 1) = IF Len(h) < s.histMaxLines THEN h ELSE o
    BY <2>3, <2>4, <2>7
  <2>9. IF seen = <<>> \/ (seen = h /\ Len(g) = Len(h))
        THEN t.histCursor = Len(g)
        ELSE SubSeq(g, t.histCursor + 1, Len(g) - 1) = seen
    BY <2>3, <2>5, <2>6
  <2> QED BY <2>3, <2>8, <2>9
<1> QED BY <1>1, <1>4, <1>5

\* What an operation may do to the history
Logs(s, t) == t.hist = s.hist \/ (s.histMaxLines # 0 /\ Added(s, t, FirstLine(s)))

\* A screen as s to its history: its first line and its view are the same
Alike(s, u) ==
    /\ u.hist = s.hist /\ u.histCursor = s.histCursor /\ u.histMaxLines = s.histMaxLines
    /\ u.image = s.image /\ u.columns = s.columns

LEMMA AlikeLogs ==
    ASSUME NEW s, NEW u, Alike(s, u), NEW t, Logs(u, t)
    PROVE  Logs(s, t)
<1>1. FirstLine(u) = FirstLine(s)
  BY DEF Alike, FirstLine, Last
<1> QED BY <1>1 DEF Alike, Logs, Added

\* What is done after a line was added
LEMMA AfterLogs ==
    ASSUME NEW s, NEW u, Logs(s, u), NEW t, t.hist = u.hist, t.histCursor = u.histCursor
    PROVE  Logs(s, t)
BY DEF Logs, Added

LEMMA IndexLogs ==
    ASSUME NEW s, Good(s), NEW t, t = index(s)
    PROVE  Logs(s, t)
<1>0. IsScreen(s) /\ s.tmargin \in Nat
  BY Parts, Numbers
<1>1. CASE s.cuY >= s.bmargin
  <2> DEFINE u == IF s.tmargin = 0 /\ s.bmargin = s.lines - 1 THEN addHistLine(s) ELSE s
  <2>1. Good(u) /\ Logs(s, u)
    BY AddHistLine DEF Logs, Appended
  <2>2. t = scrollUp(u, s.tmargin, 1)
    BY <1>1 DEF index
  <2> HIDE DEF u
  <2>3. Same(u, t)
    BY <1>0, <2>1, <2>2, ScrollUp, 1 \in Int
  <2> QED BY <2>1, <2>3, AfterLogs DEF Same
<1>2. CASE ~(s.cuY >= s.bmargin)
  <2>1. t = [s EXCEPT !.cuY = s.cuY + 1]
    BY <1>2 DEF index
  <2> QED BY <1>0, <2>1 DEF Logs, IsScreen, Fields
<1> QED BY <1>1, <1>2

LEMMA ReturnAlike ==
    ASSUME NEW s, Good(s)
    PROVE  Good(Return(s)) /\ Alike(s, Return(s))
<1>1. IsScreen(s)
  BY Parts
<1>2. Alike(s, Return(s))
  BY <1>1 DEF Return, Alike, IsScreen, Fields
<1> QED BY <1>2, ReturnToFirst

LEMMA NewLineLogs ==
    ASSUME NEW s, Good(s), NEW t \in {NextLine(s), NewLine(s)}
    PROVE  Logs(s, t)
<1> DEFINE r == Return(s)
<1>1. Good(r) /\ Alike(s, r)
  BY ReturnAlike
<1>2. t = index(r) \/ t = index(s)
  BY DEF NextLine, NewLine
<1> HIDE DEF r
<1>3. CASE t = index(r)
  <2>1. Logs(r, t)
    BY <1>1, <1>3, IndexLogs
  <2> QED BY <1>1, <2>1, AlikeLogs
<1> QED BY <1>2, <1>3, IndexLogs

LEMMA ShowLogs ==
    ASSUME NEW s, Good(s), NEW c \in Cell, NEW t, t = ShowCharacter(s, c)
    PROVE  Logs(s, t)
<1> DEFINE r == IF s.cuX < s.columns THEN s
                ELSE IF "Wrap" \in s.mode THEN NextLine(s)
                ELSE [s EXCEPT !.cuX = Last(s)]
           w == IF "Insert" \in s.mode THEN insertChars(r, 1) ELSE r
           i == loc(w, w.cuX, w.cuY)
           at == i + w.histCursor * w.columns
           v == IF w.sel_TL =< at /\ at =< w.sel_BR /\ w.image[i] # c
                THEN clearSelection(w) ELSE w
<1>1. Good(r) /\ Logs(s, r)
  <2>1. CASE s.cuX < s.columns
    BY <2>1 DEF Logs
  <2>2. CASE ~(s.cuX < s.columns) /\ "Wrap" \in s.mode
    <3>1. r = NextLine(s)
      BY <2>2
    <3> HIDE DEF r
    <3> QED BY <3>1, NewLines, NewLineLogs
  <2>3. CASE ~(s.cuX < s.columns) /\ "Wrap" \notin s.mode
    <3>1. r = [s EXCEPT !.cuX = Last(s)] /\ Last(s) \in 0..s.columns /\ IsScreen(s)
      BY <2>3, Numbers, Parts
    <3> HIDE DEF r
    <3>2. r.hist = s.hist
      BY <3>1 DEF IsScreen, Fields
    <3> QED BY <3>1, <3>2, SetX DEF Logs
  <2> QED BY <2>1, <2>2, <2>3
<1> HIDE DEF r
<1>2. Good(w) /\ w.hist = r.hist /\ w.histCursor = r.histCursor
  <2>1. CASE "Insert" \in s.mode
    <3>1. PICK k \in Nat : k = 1
      OBVIOUS
    <3>2. w = insertChars(r, k)
      BY <2>1, <3>1
    <3> HIDE DEF w
    <3> QED BY <1>1, <3>2, InsertChars DEF Same
  <2>2. CASE "Insert" \notin s.mode
    BY <1>1, <2>2
  <2> QED BY <2>1, <2>2
<1>3. t = [v EXCEPT !.image[i] = c, !.cuX = w.cuX + 1]
  BY DEF ShowCharacter, r
<1> HIDE DEF w, i
<1>4. IsScreen(v) /\ v.hist = w.hist /\ v.histCursor = w.histCursor
  BY <1>2, ClearSelection, Parts DEF Same
<1> HIDE DEF v
<1>5. t.hist = v.hist /\ t.histCursor = v.histCursor
  <2> DEFINE u == [v EXCEPT !.image = [v.image EXCEPT ![i] = c]]
             x == w.cuX + 1
  <2>1. t = [u EXCEPT !.cuX = x]
    BY <1>3, <1>4 DEF IsScreen, Fields
  <2> HIDE DEF x
  <2>2. IsScreen(u) /\ u.hist = v.hist /\ u.histCursor = v.histCursor
    BY <1>4 DEF IsScreen, Fields
  <2> HIDE DEF u
  <2> QED BY <2>1, <2>2 DEF IsScreen, Fields
<1> QED BY <1>1, <1>2, <1>4, <1>5, AfterLogs

\* Operations that leave the history as it is
LEMMA HistKept ==
    ASSUME NEW s, Good(s), NEW n \in Nat, NEW k \in Nat
    PROVE  /\ \A t \in {BackSpace(s), cursorUp(s, n), cursorDown(s, n), cursorLeft(s, n),
                        cursorRight(s, n), setCursorX(s, n), setCursorY(s, n), Return(s)} :
                 t.hist = s.hist
           /\ setCursorYX(s, n, k).hist = s.hist
           /\ setMargins(s, n, k).hist = s.hist
           /\ \A m : \A t \in {setMode(s, m), resetMode(s, m), saveMode(s, m), restoreMode(s, m)} :
                 t.hist = s.hist
           /\ \A t \in {saveCursor(s), restoreCursor(s), Tabulate(s), clearTabStops(s)} :
                 t.hist = s.hist
           /\ \A set : changeTabStop(s, set).hist = s.hist
           /\ \A c : setHistCursor(s, c).hist = s.hist
           /\ getCookedImage(s).hist = s.hist
           /\ \A x, y : setSelBeginXY(s, x, y).hist = s.hist /\ setSelExtentXY(s, x, y).hist = s.hist
           /\ clearSelection(s).hist = s.hist
<1>0. IsScreen(s)
  BY Parts
<1> USE <1>0 DEF IsScreen, Fields
<1>1. \A t \in {BackSpace(s), cursorUp(s, n), cursorDown(s, n), cursorLeft(s, n),
                cursorRight(s, n), setCursorX(s, n), setCursorY(s, n), Return(s)} : t.hist = s.hist
  <2>1. BackSpace(s).hist = s.hist /\ Return(s).hist = s.hist
    BY DEF BackSpace, Return
  <2>2. cursorUp(s, n).hist = s.hist /\ cursorDown(s, n).hist = s.hist
    BY DEF cursorUp, cursorDown
  <2>3. cursorLeft(s, n).hist = s.hist /\ cursorRight(s, n).hist = s.hist
    BY DEF cursorLeft, cursorRight
  <2>4. setCursorX(s, n).hist = s.hist /\ setCursorY(s, n).hist = s.hist
    BY DEF setCursorX, setCursorY
  <2> QED BY <2>1, <2>2, <2>3, <2>4
<1>2. setCursorYX(s, n, k).hist = s.hist
  <2> DEFINE u == setCursorY(s, n)
  <2>1. IsScreen(u) /\ u.hist = s.hist
    BY DEF setCursorY
  <2> HIDE DEF u
  <2>2. setCursorX(u, k).hist = u.hist
    BY <2>1 DEF setCursorX
  <2> QED BY <2>1, <2>2 DEF setCursorYX, u
<1>3. setMargins(s, n, k).hist = s.hist
  BY DEF setMargins
<1>4. ASSUME NEW m PROVE \A t \in {setMode(s, m), resetMode(s, m), saveMode(s, m), restoreMode(s, m)} :
                            t.hist = s.hist
  <2>1. saveMode(s, m).hist = s.hist /\ restoreMode(s, m).hist = s.hist
    BY DEF saveMode, restoreMode
  <2> DEFINE on == [s EXCEPT !.mode = s.mode \cup {m}]
             off == [s EXCEPT !.mode = s.mode \ {m}]
  <2>2. IsScreen(on) /\ on.hist = s.hist /\ IsScreen(off) /\ off.hist = s.hist
    OBVIOUS
  <2>3. /\ setMode(s, m) = IF m = "Origin" THEN [on EXCEPT !.cuX = 0, !.cuY = s.tmargin] ELSE on
        /\ resetMode(s, m) = IF m = "Origin" THEN [off EXCEPT !.cuX = 0, !.cuY = 0] ELSE off
    BY DEF setMode, resetMode, home
  <2> HIDE DEF on, off
  <2>4. setMode(s, m).hist = s.hist
    <3>1. [on EXCEPT !.cuX = 0, !.cuY = s.tmargin].hist = s.hist
      BY <2>2
    <3> QED BY <2>2, <2>3, <3>1
  <2>5. resetMode(s, m).hist = s.hist
    <3>1. [off EXCEPT !.cuX = 0, !.cuY = 0].hist = s.hist
      BY <2>2
    <3> QED BY <2>2, <2>3, <3>1
  <2> QED BY <2>1, <2>4, <2>5
<1>5. \A t \in {saveCursor(s), restoreCursor(s), Tabulate(s), clearTabStops(s)} : t.hist = s.hist
  BY DEF saveCursor, restoreCursor, Tabulate, clearTabStops
<1>6. /\ \A set : changeTabStop(s, set).hist = s.hist
      /\ \A c : setHistCursor(s, c).hist = s.hist
      /\ getCookedImage(s).hist = s.hist
  BY DEF changeTabStop, setHistCursor, getCookedImage
<1>7. \A x, y : setSelBeginXY(s, x, y).hist = s.hist /\ setSelExtentXY(s, x, y).hist = s.hist
  BY DEF setSelBeginXY, setSelExtentXY
<1>8. clearSelection(s).hist = s.hist
  BY DEF clearSelection
<1> QED BY <1>1, <1>2, <1>3, <1>4, <1>5, <1>6, <1>7, <1>8

LEMMA ClearedHist ==
    ASSUME NEW s, IsScreen(s), NEW a, NEW b, NEW c
    PROVE  clearImage(s, a, b, c).hist = s.hist
<1> DEFINE u == IF s.sel_BR > a + loc(s, 0, s.histCursor) /\ s.sel_TL < b + loc(s, 0, s.histCursor)
                THEN clearSelection(s) ELSE s
           img == [i \in DOMAIN s.image |-> IF a =< i /\ i =< b THEN c ELSE s.image[i]]
<1>1. IsScreen(u) /\ u.hist = s.hist
  BY DEF clearSelection, IsScreen, Fields
<1>2. clearImage(s, a, b, c) \in {[u EXCEPT !.image = img], [u EXCEPT !.wild = TRUE]}
  BY DEF clearImage
<1> HIDE DEF u, img
<1> QED BY <1>1, <1>2 DEF IsScreen, Fields

LEMMA ErasedHist ==
    ASSUME NEW s, Good(s), NEW e
    PROVE  \A t \in {clearToEndOfScreen(s), clearToBeginOfScreen(s), clearEntireScreen(s),
                     helpAlign(s, e), clearToEndOfLine(s), clearToBeginOfLine(s),
                     clearEntireLine(s)} : t.hist = s.hist
<1>1. IsScreen(s)
  BY Parts
<1>2. \A a, b, c : clearImage(s, a, b, c).hist = s.hist
  BY <1>1, ClearedHist
<1> QED BY <1>2 DEF clearToEndOfScreen, clearToBeginOfScreen, clearEntireScreen, helpAlign,
                     clearToEndOfLine, clearToBeginOfLine, clearEntireLine, clearLines

LEMMA ScrolledHist ==
    ASSUME NEW s, Good(s), NEW n \in Nat
    PROVE  /\ \A t \in {deleteLines(s, n), insertLines(s, n), reverseIndex(s)} : t.hist = s.hist
           /\ \A t \in {eraseChars(s, n), deleteChars(s, n), insertChars(s, n)} : t.hist = s.hist
<1>1. IsScreen(s) /\ s.cuY \in Nat /\ s.tmargin \in Nat /\ OrOne(n) \in Int /\ 1 \in Int
  BY Parts, Numbers DEF OrOne
<1>2. \A f \in Nat, k \in Int : Same(s, scrollUp(s, f, k)) /\ Same(s, scrollDown(s, f, k))
  BY ScrollUp, ScrollDown
<1>3. deleteLines(s, n).hist = s.hist /\ insertLines(s, n).hist = s.hist
  BY <1>1, <1>2 DEF deleteLines, insertLines, Same
<1>4. reverseIndex(s).hist = s.hist
  <2>1. CASE s.cuY =< s.tmargin
    BY <1>1, <1>2, <2>1 DEF reverseIndex, Same
  <2>2. CASE ~(s.cuY =< s.tmargin)
    <3>1. reverseIndex(s) = [s EXCEPT !.cuY = s.cuY - 1]
      BY <2>2 DEF reverseIndex
    <3> QED BY <1>1, <3>1 DEF IsScreen, Fields
  <2> QED BY <2>1, <2>2
<1>5. eraseChars(s, n).hist = s.hist
  BY <1>1, ClearedHist DEF eraseChars
<1>6. deleteChars(s, n).hist = s.hist /\ insertChars(s, n).hist = s.hist
  BY DeleteChars, InsertChars DEF Same
<1> QED BY <1>3, <1>4, <1>5, <1>6

LEMMA ResizedHist ==
    ASSUME NEW s, Good(s), NEW l, NEW c
    PROVE  resizeImage(s, l, c).hist = s.hist /\ reset(s).hist = s.hist
<1>1. IsScreen(s)
  BY Parts
<1>2. resizeImage(s, l, c).hist = s.hist
  <2> DEFINE u == clearSelection(s)
  <2>1. IsScreen(u) /\ u.hist = s.hist
    BY <1>1 DEF clearSelection, IsScreen, Fields
  <2>2. \E img, x, y, b, tabs :
           resizeImage(s, l, c) = [u EXCEPT !.image = img, !.lines = l, !.columns = c, !.cuX = x, !.cuY = y,
                                            !.tmargin = 0, !.bmargin = b, !.tabstops = tabs]
    BY Zenon DEF resizeImage
  <2> HIDE DEF u
  <2>3. PICK img, x, y, b, tabs :
           resizeImage(s, l, c) = [u EXCEPT !.image = img, !.lines = l, !.columns = c, !.cuX = x, !.cuY = y,
                                            !.tmargin = 0, !.bmargin = b, !.tabstops = tabs]
    BY <2>2
  <2> QED BY <2>1, <2>3 DEF IsScreen, Fields
<1>3. reset(s).hist = s.hist
  <2> DEFINE h == home(s)
             bot == s.lines - 1
             u == [h EXCEPT !.mode = {"Wrap"}, !.saved = {"Wrap"}, !.tmargin = 0, !.bmargin = bot]
             v == saveCursor(u)
             w == clearEntireScreen(v)
  <2>1. reset(s) = home(w)
    BY DEF reset
  <2>2. IsScreen(h) /\ h.hist = s.hist
    BY <1>1 DEF home, IsScreen, Fields
  <2> HIDE DEF h, bot
  <2>3. IsScreen(u) /\ u.hist = h.hist
    BY <2>2 DEF IsScreen, Fields
  <2> HIDE DEF u
  <2>4. IsScreen(v) /\ v.hist = u.hist
    BY <2>3 DEF saveCursor, IsScreen, Fields
  <2> HIDE DEF v
  <2>5. w.hist = v.hist /\ IsScreen(w)
    <3> DEFINE a == loc(v, 0, 0)
               b == loc(v, Last(v), v.lines - 1)
               z == IF v.sel_BR > a + loc(v, 0, v.histCursor) /\ v.sel_TL < b + loc(v, 0, v.histCursor)
                    THEN clearSelection(v) ELSE v
               img == [i \in DOMAIN v.image |-> IF a =< i /\ i =< b THEN Blank ELSE v.image[i]]
    <3>1. IsScreen(z) /\ z.hist = v.hist
      BY <2>4 DEF clearSelection, IsScreen, Fields
    <3>2. w \in {[z EXCEPT !.image = img], [z EXCEPT !.wild = TRUE]}
      BY DEF clearEntireScreen, clearLines, clearImage
    <3> HIDE DEF z, img, w
    <3> QED BY <3>1, <3>2 DEF IsScreen, Fields
  <2> HIDE DEF w
  <2>6. home(w).hist = w.hist
    BY <2>5 DEF home, IsScreen, Fields
  <2> QED BY <2>1, <2>2, <2>3, <2>4, <2>5, <2>6
<1> QED BY <1>2, <1>3

\* A step leaves the history alone or adds the line that was the first.
LEMMA StepLogs ==
    ASSUME Inv, Next
    PROVE  Logs(scr, scr')
<1> USE DEF Does, Becomes
<1>0. Good(scr) /\ Count \subseteq Nat /\ 0 \in Nat
  BY NumbersAssumption DEF Inv
<1>1. CASE Text
  <2>1. CASE \E c \in Cell : scr' = ShowCharacter(scr, c)
    BY <1>0, <2>1, ShowLogs
  <2>2. CASE scr' = Return(scr)
    BY <1>0, <2>2, HistKept DEF Logs
  <2>3. CASE scr' = NewLine(scr)
    BY <1>0, <2>3, NewLineLogs
  <2> QED BY <1>1, <2>1, <2>2, <2>3 DEF Text
<1>2. CASE Move
  <2>1. PICK n \in Nat, k \in Nat :
          \/ scr' \in {BackSpace(scr), cursorUp(scr, n), cursorDown(scr, n), cursorLeft(scr, n),
                       cursorRight(scr, n), setCursorX(scr, n), setCursorY(scr, n)}
          \/ scr' = setCursorYX(scr, n, k)
    BY <1>0, <1>2 DEF Move
  <2> QED BY <1>0, <2>1, HistKept DEF Logs
<1>3. CASE Scroll
  <2>1. CASE \E t, b \in Count : scr' = setMargins(scr, t, b)
    <3>1. PICK n \in Nat, k \in Nat : scr' = setMargins(scr, n, k)
      BY <1>0, <2>1
    <3>2. setMargins(scr, n, k).hist = scr.hist
      BY <1>0, HistKept
    <3> QED BY <3>1, <3>2 DEF Logs
  <2>2. CASE scr' = index(scr)
    BY <1>0, <2>2, IndexLogs
  <2>3. CASE scr' = reverseIndex(scr)
    BY <1>0, <2>3, ScrolledHist DEF Logs
  <2>4. CASE scr' = NextLine(scr)
    BY <1>0, <2>4, NewLineLogs
  <2> QED BY <1>3, <2>1, <2>2, <2>3, <2>4 DEF Scroll
<1>4. CASE Edit
  <2>1. PICK n \in Nat : scr' \in {eraseChars(scr, n), deleteChars(scr, n), insertChars(scr, n),
                                   deleteLines(scr, n), insertLines(scr, n)}
    BY <1>0, <1>4 DEF Edit
  <2> QED BY <1>0, <2>1, ScrolledHist DEF Logs
<1>5. CASE Erase
  <2>1. PICK e \in Cell : scr' \in {clearToEndOfScreen(scr), clearToBeginOfScreen(scr),
                                    clearEntireScreen(scr), helpAlign(scr, e), clearToEndOfLine(scr),
                                    clearToBeginOfLine(scr), clearEntireLine(scr)}
    BY <1>5 DEF Erase, Cell
  <2> QED BY <1>0, <2>1, ErasedHist DEF Logs
<1>6. CASE Modes
  <2>1. PICK m : scr' \in {setMode(scr, m), resetMode(scr, m), saveMode(scr, m), restoreMode(scr, m),
                           reset(scr)}
    BY <1>6 DEF Modes
  <2> QED BY <1>0, <2>1, HistKept, ResizedHist DEF Logs
<1>7. CASE Cursor
  BY <1>0, <1>7, HistKept DEF Cursor, Logs
<1>8. CASE Tabs
  BY <1>0, <1>8, HistKept DEF Tabs, Logs
<1>9. CASE Window
  BY <1>0, <1>9, HistKept, ResizedHist DEF Window, Logs
<1>10. CASE Mouse
  BY <1>0, <1>10, HistKept DEF Mouse, Logs
<1> QED BY <1>1, <1>2, <1>3, <1>4, <1>5, <1>6, <1>7, <1>8, <1>9, <1>10 DEF Next

\* A line that scrolls off the whole screen becomes the last one of the history
\* as it was, the oldest line goes only when the history is full, and who looks
\* at older lines goes on seeing the same (TEScreen.C:185-196, 1140-1175).
THEOREM LinesKept == Spec => HistoryKeeps
<1> DEFINE Step == scr'.hist # scr.hist =>
              LET h == scr.hist
                  g == scr'.hist
                  seen == SubSeq(h, scr.histCursor + 1, Len(h))
                  first == g[Len(g)]
              IN  /\ first \o Blanks(scr.columns - Len(first)) = Line(scr, 0)
                  /\ SubSeq(g, 1, Len(g) - 1) = IF Len(h) < scr.histMaxLines THEN h ELSE Tail(h)
                  /\ IF seen = <<>> \/ (seen = h /\ Len(g) = Len(h))
                     THEN scr'.histCursor = Len(g)
                     ELSE SubSeq(g, scr'.histCursor + 1, Len(g) - 1) = seen
<1>1. Inv /\ [Next]_vars => [Step]_vars
  <2> SUFFICES ASSUME Inv, Next, scr'.hist # scr.hist PROVE Keeps(scr, scr')
    BY Zenon DEF Keeps, vars
  <2>1. Good(scr) /\ scr.histMaxLines # 0 /\ Added(scr, scr', FirstLine(scr))
    BY StepLogs DEF Logs, Inv
  <2> QED BY <2>1, AddedKeeps
<1> QED BY <1>1, Inductive, PTL DEF Spec, HistoryKeeps
=============================================================================
