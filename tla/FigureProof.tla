----------------------------- MODULE FigureProof ------------------------------
(***************************************************************************)
(* A figure that is not cut at the border is drawn as it should be,        *)
(* whatever the sizes of the screen and whatever its points.  So are a     *)
(* line and the outline of a triangle that are cut, if they may be two     *)
(* pixels further off; and a filled triangle that is cut does not run over *)
(* its edges, but for five pixels.                                         *)
(*                                                                         *)
(* Lines and outlines are made of the segments of TerminalProof.  An edge  *)
(* of a filled triangle makes the walk of a segment along the rows.  A     *)
(* pixel between the columns of a row is then at most half a pixel outside *)
(* of the edges that have the row, and this bounds how far it is outside   *)
(* of the third (NotFarOutside).                                           *)
(*                                                                         *)
(* A line that is cut begins and ends at quotients.  The first cut of an   *)
(* end moves it beside the true line by less than a pixel, a second one by *)
(* less than one more (ClippedToScreen); the segment between two such ends *)
(* is as near to the true line as they are, but for its own error.         *)
(*                                                                         *)
(* An outline is cut at one border after the other, corner by corner       *)
(* (ClipLinks).  Two corners that follow each other then have both a       *)
(* border, or are both near to one edge of the triangle (Links), so the    *)
(* segment between them runs along the border or beside that edge.         *)
(*                                                                         *)
(* The corners of a cut triangle that is filled are not far outside of its *)
(* edges (ClipEncloses).  The spans are folded over the cut edges          *)
(* (SpansHold), and going round them every row from the highest corner to  *)
(* the lowest is stored at both sides (RingStoresBothSides), so what was   *)
(* in memory before shows in the first row of the panel only.              *)
(***************************************************************************)
EXTENDS TerminalProof

-------------------------------------------------------------------------------
(* Figures: what the screen shows.                                         *)

\* A figure that is drawn without cutting: whole on the screen, or not at all since it is
\* turned away from the viewer.
DrawnWhole ==
    \/ figure = None
    \/ OnScreen(figure.points)
    \/ /\ figure.shape \in {"GL_POLY_LINES", "GL_POLY_FILL"}
       /\ Culled(figure.culling, Clockwise(figure.points))

Triangles == {<<p, q, r>> : p \in Points, q \in Points, r \in Points}

Outline(points) == UNION {Segment(points[i], Following(points, i)) : i \in 1 .. 3}

\* A triangle that is filled.
IsFilled(fig) ==
    fig # None /\ fig.shape = "GL_POLY_FILL" /\ ~Culled(fig.culling, Clockwise(fig.points))

\* The pixels of any other such figure.
Pixels(fig) ==
    IF fig = None THEN {}
    ELSE IF fig.shape = "line" THEN Segment(fig.points[1], fig.points[2])
    ELSE IF fig.shape = "rectangle"
    THEN Window(fig.points[1][1], fig.points[1][2], fig.points[2][1], fig.points[2][2])
    ELSE IF Culled(fig.culling, Clockwise(fig.points)) THEN {}
    ELSE Outline(fig.points)

Figures ==
    {None}
    \cup [shape : {"line"}, points : Points \X Points]
    \cup {fig \in [shape : {"rectangle"}, points : Points \X Points] :
             fig.points[1][1] <= fig.points[2][1] /\ fig.points[1][2] <= fig.points[2][2]}
    \cup [shape : {"GL_POLY_LINES", "GL_POLY_FILL"}, points : Triangles,
          culling : {"GL_FRONT_FACE", "GL_BACK_FACE", "GL_FRONT_AND_BACK"}]

\* The inductive invariant: the pixels on the screen are those of its figure.  Those of a
\* filled triangle are not all known.
FigureInv ==
    /\ FGA_mode \in {GL_MODE_OLED, GL_MODE_FGA}
    /\ figure \in Figures
    /\ figure # None /\ figure.shape = "rectangle" => OnScreen(figure.points)
    /\ DrawnWhole => IF IsFilled(figure) THEN TriangleIsRight(figure.points)
                     ELSE Inked = Pixels(figure)

\* The sizes of the screen.
LEMMA ScreenSizes ==
  /\ GL_width \in Nat \ {0} /\ GL_height \in Nat \ {0}
  /\ FGA_mode = GL_MODE_OLED => GL_width = OLED_WIDTH /\ GL_height = OLED_HEIGHT
  BY ScreenAssumption DEF GL_width, GL_height, WidthOf, HeightOf

\* A point is on the screen if it is beyond none of its sides.
LEMMA PointOnScreen ==
  ASSUME NEW p \in Points
  PROVE  code(p) = {} <=> p \in Screen
<1>1. p = <<p[1], p[2]>> /\ p[1] \in Int /\ p[2] \in Int
  BY DEF Points
<1>2. GL_width \in Nat \ {0} /\ GL_height \in Nat \ {0}
  BY ScreenSizes
<1>3. code(p) = {} <=> ~(p[1] < 0) /\ ~(p[1] > GL_width - 1) /\ ~(p[2] < 0) /\ ~(p[2] > GL_height - 1)
  BY DEF code
<1>4. p \in Screen <=> p[1] \in 0 .. GL_width - 1 /\ p[2] \in 0 .. GL_height - 1
  BY <1>1 DEF Screen
<1> QED BY <1>1, <1>2, <1>3, <1>4

\* The adapter finds a point of the screen where it is.
LEMMA PlaceOnScreen ==
  ASSUME NEW x \in 0 .. GL_width - 1, NEW y \in 0 .. GL_height - 1
  PROVE  Place(x, y) = <<x, y>>
<1>1. GL_width \in Nat \ {0} /\ y \in Int
  BY ScreenSizes
<1> DEFINE n == GL_width
           a == y * n + x
<1>2. n \in Nat \ {0} /\ y \in Int /\ x \in 0 .. n - 1 /\ a = y * n + x
  BY <1>1
<1> HIDE DEF n, a
<1>3. a \div n = y /\ a % n = x
  BY <1>2, DividedBy
<1> QED BY <1>3 DEF Place, n, a

\* On a screen that was blank the pixels that are sent are those that are seen, if those of
\* the adapter are of the screen.
LEMMA PaintedOnBlank ==
  ASSUME NEW P, \A p \in P : p = <<p[1], p[2]>>, frame = Blank(FGA_mode),
         frame' = Painted(P, INK), FGA_mode' = FGA_mode
  PROVE  /\ Screen' = Screen /\ P \cap Screen \subseteq Inked'
         /\ FGA_mode = GL_MODE_OLED \/ P \subseteq Screen => Inked' = P \cap Screen
<1>1. GL_width' = GL_width /\ GL_height' = GL_height /\ Screen' = Screen
  BY DEF GL_width, GL_height, Screen
<1> DEFINE W == GL_width
           H == GL_height
           hit == {Place(p[1], p[2]) : p \in P}
<1>2. P \cap Screen \subseteq hit /\ (FGA_mode = GL_MODE_OLED \/ P \subseteq Screen => hit = P)
  <2>1. ASSUME NEW p \in P, p \in Screen PROVE Place(p[1], p[2]) = p
    <3>1. p[1] \in 0 .. GL_width - 1 /\ p[2] \in 0 .. GL_height - 1
      BY <2>1 DEF Screen
    <3> QED BY <3>1, PlaceOnScreen
  <2>2. FGA_mode = GL_MODE_OLED => \A p \in P : Place(p[1], p[2]) = p
    BY DEF Place
  <2> QED BY <2>1, <2>2
<1>3. frame' = [y \in 0 .. H - 1 |-> [x \in 0 .. W - 1 |-> IF <<x, y>> \in hit THEN INK ELSE frame[y][x]]]
  BY DEF Painted
<1>4. frame = [y \in 0 .. H - 1 |-> [x \in 0 .. W - 1 |-> GL_BG]]
  BY DEF Blank, GL_width, GL_height
<1>5. INK # GL_BG
  BY DEF INK, GL_BG
<1> HIDE DEF W, H, hit
<1>6. \A x \in 0 .. W - 1, y \in 0 .. H - 1 : frame'[y][x] = INK <=> <<x, y>> \in hit
  BY <1>3, <1>4, <1>5
<1>7. \A p \in Screen : p = <<p[1], p[2]>> /\ p[1] \in 0 .. W - 1 /\ p[2] \in 0 .. H - 1
  BY DEF Screen, W, H
<1>8. \A p \in Screen : frame'[p[2]][p[1]] = INK <=> p \in hit
  BY <1>6, <1>7
<1>9. Inked' = hit \cap Screen
  BY <1>1, <1>8 DEF Inked
<1> QED BY <1>1, <1>2, <1>9

\* A segment between points of the screen is on the screen.
LEMMA SegmentOnScreen ==
  ASSUME NEW p \in Points, NEW q \in Points, p \in Screen, q \in Screen
  PROVE  Segment(p, q) \subseteq Screen
<1> SUFFICES ASSUME NEW r \in Segment(p, q) PROVE r \in Screen
  OBVIOUS
<1>1. r \in Int \X Int /\ Between(p, q, r)
  BY SegmentIsNear DEF Points, NearLine
<1>2. /\ r[1] \in Min({p[1], q[1]}) .. Max({p[1], q[1]})
      /\ r[2] \in Min({p[2], q[2]}) .. Max({p[2], q[2]})
  BY <1>1 DEF Between
<1>3. /\ p[1] \in 0 .. GL_width - 1 /\ p[2] \in 0 .. GL_height - 1
      /\ q[1] \in 0 .. GL_width - 1 /\ q[2] \in 0 .. GL_height - 1
      /\ GL_width \in Nat /\ GL_height \in Nat
  BY ScreenSizes DEF Screen
<1>4. /\ Min({p[1], q[1]}) = IF p[1] <= q[1] THEN p[1] ELSE q[1]
      /\ Max({p[1], q[1]}) = IF p[1] <= q[1] THEN q[1] ELSE p[1]
      /\ Min({p[2], q[2]}) = IF p[2] <= q[2] THEN p[2] ELSE q[2]
      /\ Max({p[2], q[2]}) = IF p[2] <= q[2] THEN q[2] ELSE p[2]
  <2>1. p[1] \in Int /\ p[2] \in Int /\ q[1] \in Int /\ q[2] \in Int
    BY DEF Points
  <2> QED BY <2>1, OfTwo
<1>5. r[1] \in 0 .. GL_width - 1 /\ r[2] \in 0 .. GL_height - 1
  BY <1>2, <1>3, <1>4
<1>6. r = <<r[1], r[2]>>
  BY <1>1
<1> QED BY <1>5, <1>6 DEF Screen

\* A line on the screen is right.
LEMMA WholeLineIsRight ==
  ASSUME NEW p \in Points, NEW q \in Points, OnScreen(<<p, q>>), Inked = Segment(p, q)
  PROVE  LineIsRight(p, q)
<1>1. ASSUME NEW r \in Inked PROVE NearLine(p, q, r, 3)
  BY SegmentIsNear DEF Points
<1>2. ASSUME NEW r \in Screen \ {q}, Between(p, q, r), Cross(p, q, r) = 0
      PROVE  r \in Inked
  <2>1. r \in Int \X Int
    BY ScreenSizes DEF Screen
  <2> QED BY <1>2, <2>1, SegmentMeetsTheLine DEF Points
<1>3. 3 + Slack(<<p, q>>) = 3
  BY DEF Slack
<1> QED BY <1>1, <1>2, <1>3 DEF LineIsRight

\* A rectangle on the screen is right.
LEMMA WholeRectangleIsRight ==
  ASSUME NEW p \in Points, NEW q \in Points, p \in Screen, q \in Screen,
         p[1] <= q[1], p[2] <= q[2]
  PROVE  /\ Window(p[1], p[2], q[1], q[2]) \subseteq Screen
         /\ Window(p[1], p[2], q[1], q[2]) = {r \in Screen : Between(p, q, r)}
<1>1. p[1] \in Int /\ p[2] \in Int /\ q[1] \in Int /\ q[2] \in Int
  BY DEF Points
<1>2. /\ Min({p[1], q[1]}) = p[1] /\ Max({p[1], q[1]}) = q[1]
      /\ Min({p[2], q[2]}) = p[2] /\ Max({p[2], q[2]}) = q[2]
  BY <1>1, OfTwo
<1>3. \A r : Between(p, q, r) <=> r[1] \in p[1] .. q[1] /\ r[2] \in p[2] .. q[2]
  BY <1>2 DEF Between
<1>4. /\ p[1] \in 0 .. GL_width - 1 /\ p[2] \in 0 .. GL_height - 1
      /\ q[1] \in 0 .. GL_width - 1 /\ q[2] \in 0 .. GL_height - 1
      /\ GL_width \in Nat /\ GL_height \in Nat
  BY ScreenSizes DEF Screen
<1>5. p[1] .. q[1] \subseteq 0 .. GL_width - 1 /\ p[2] .. q[2] \subseteq 0 .. GL_height - 1
  BY <1>1, <1>4
<1>6. Window(p[1], p[2], q[1], q[2]) = (p[1] .. q[1]) \X (p[2] .. q[2])
  BY DEF Window
<1>7. Window(p[1], p[2], q[1], q[2]) \subseteq Screen
  BY <1>5, <1>6 DEF Screen
<1>8. \A r \in Screen : r \in Window(p[1], p[2], q[1], q[2]) <=> Between(p, q, r)
  BY <1>3, <1>6 DEF Screen
<1> QED BY <1>7, <1>8

\* The points of a triangle, and the one that follows each.
LEMMA TriangleIs ==
  ASSUME NEW points \in Triangles
  PROVE  /\ Len(points) = 3
         /\ points[1] \in Points /\ points[2] \in Points /\ points[3] \in Points
         /\ Following(points, 1) = points[2] /\ Following(points, 2) = points[3]
         /\ Following(points, 3) = points[1]
         /\ \A i \in 1 .. 3 : i = 1 \/ i = 2 \/ i = 3
         /\ Outline(points) = Segment(points[1], points[2]) \cup Segment(points[2], points[3])
                              \cup Segment(points[3], points[1])
<1>1. PICK p \in Points, q \in Points, r \in Points : points = <<p, q, r>>
  BY DEF Triangles
<1>2. Len(points) = 3 /\ points[1] = p /\ points[2] = q /\ points[3] = r
  BY <1>1
<1>3. /\ Following(points, 1) = points[2] /\ Following(points, 2) = points[3]
      /\ Following(points, 3) = points[1]
  BY <1>2 DEF Following
<1>4. \A i : i \in 1 .. 3 <=> i = 1 \/ i = 2 \/ i = 3
  OBVIOUS
<1>5. \A s : s \in Outline(points) <=> \E i \in 1 .. 3 : s \in Segment(points[i], Following(points, i))
  BY DEF Outline
<1>6. \A s : s \in Outline(points) <=> \/ s \in Segment(points[1], points[2])
                                       \/ s \in Segment(points[2], points[3])
                                       \/ s \in Segment(points[3], points[1])
  BY <1>3, <1>4, <1>5
<1> QED BY <1>2, <1>3, <1>4, <1>6

\* A pixel where a segment begins is of the segment, unless the segment ends there.
LEMMA SegmentBegins ==
  ASSUME NEW p \in Points, NEW q \in Points, p # q
  PROVE  p \in Segment(p, q)
<1>1. p \in Int \X Int /\ q \in Int \X Int /\ p[1] \in Int /\ p[2] \in Int /\ q[1] \in Int /\ q[2] \in Int
  BY DEF Points
<1>2. Between(p, q, p)
  <2>1. /\ p[1] \in Min({p[1], q[1]}) .. Max({p[1], q[1]})
        /\ p[2] \in Min({p[2], q[2]}) .. Max({p[2], q[2]})
    <3>1. /\ Min({p[1], q[1]}) = IF p[1] <= q[1] THEN p[1] ELSE q[1]
          /\ Max({p[1], q[1]}) = IF p[1] <= q[1] THEN q[1] ELSE p[1]
          /\ Min({p[2], q[2]}) = IF p[2] <= q[2] THEN p[2] ELSE q[2]
          /\ Max({p[2], q[2]}) = IF p[2] <= q[2] THEN q[2] ELSE p[2]
      BY <1>1, OfTwo
    <3> QED BY <1>1, <3>1
  <2> QED BY <2>1 DEF Between
<1>3. Cross(p, q, p) = 0
  <2>1. p[1] - p[1] = 0 /\ p[2] - p[2] = 0 /\ q[1] - p[1] \in Int /\ q[2] - p[2] \in Int
    BY <1>1
  <2> QED BY <2>1 DEF Cross
<1> QED BY <1>1, <1>2, <1>3, SegmentMeetsTheLine

\* An outline on the screen is right: where an edge stops before its last point, the next
\* edge begins, or the one after it.
LEMMA WholeOutlineIsRight ==
  ASSUME NEW points \in Triangles, OnScreen(points), Inked = Outline(points)
  PROVE  OutlineIsRight(points)
<1> DEFINE a == points[1]
           b == points[2]
           c == points[3]
           edges == {<<points[i], Following(points, i)>> : i \in 1 .. Len(points)}
<1>1. /\ Len(points) = 3
      /\ a \in Points /\ b \in Points /\ c \in Points
      /\ Following(points, 1) = b /\ Following(points, 2) = c /\ Following(points, 3) = a
      /\ Outline(points) = Segment(a, b) \cup Segment(b, c) \cup Segment(c, a)
  BY TriangleIs
<1>2. \A e : e \in edges <=> e = <<a, b>> \/ e = <<b, c>> \/ e = <<c, a>>
  <2>1. \A i : i \in 1 .. 3 <=> i = 1 \/ i = 2 \/ i = 3
    OBVIOUS
  <2> QED BY <1>1, <2>1
<1> HIDE DEF a, b, c, edges
<1>3. ASSUME NEW p \in Points, NEW q \in Points, NEW r \in Segment(p, q)
      PROVE  NearLine(p, q, r, 3)
  BY SegmentIsNear DEF Points
<1>4. ASSUME NEW r \in Inked
      PROVE  \E e \in edges : NearLine(e[1], e[2], r, 3)
  <2>1. CASE r \in Segment(a, b)
    <3>1. <<a, b>> \in edges /\ NearLine(<<a, b>>[1], <<a, b>>[2], r, 3)
      BY <1>1, <1>2, <1>3, <2>1
    <3> QED BY <3>1
  <2>2. CASE r \in Segment(b, c)
    <3>1. <<b, c>> \in edges /\ NearLine(<<b, c>>[1], <<b, c>>[2], r, 3)
      BY <1>1, <1>2, <1>3, <2>2
    <3> QED BY <3>1
  <2>3. CASE r \in Segment(c, a)
    <3>1. <<c, a>> \in edges /\ NearLine(<<c, a>>[1], <<c, a>>[2], r, 3)
      BY <1>1, <1>2, <1>3, <2>3
    <3> QED BY <3>1
  <2> QED BY <1>1, <1>4, <2>1, <2>2, <2>3
<1>5. ASSUME NEW r \in Screen, NEW p \in Points, NEW q \in Points, NEW s \in Points,
             p # q, Between(p, q, r), Cross(p, q, r) = 0
      PROVE  r \in Segment(p, q) \cup Segment(q, s) \cup Segment(s, p)
  <2>1. r \in Int \X Int
    BY ScreenSizes DEF Screen
  <2>2. CASE r # q
    BY <1>5, <2>1, <2>2, SegmentMeetsTheLine DEF Points
  <2>3. CASE r = q /\ q # s
    BY <2>3, SegmentBegins
  <2>4. CASE r = q /\ q = s
    BY <1>5, <2>4, SegmentBegins
  <2> QED BY <2>2, <2>3, <2>4
<1>6. ASSUME NEW r \in Screen, NEW e \in edges,
             e[1] # e[2], Between(e[1], e[2], r), Cross(e[1], e[2], r) = 0
      PROVE  r \in Inked
  <2>1. CASE e = <<a, b>>
    <3>1. e[1] = a /\ e[2] = b
      BY <2>1
    <3>2. r \in Segment(a, b) \cup Segment(b, c) \cup Segment(c, a)
      BY <1>1, <1>5, <1>6, <3>1
    <3> QED BY <1>1, <3>2
  <2>2. CASE e = <<b, c>>
    <3>1. e[1] = b /\ e[2] = c
      BY <2>2
    <3>2. r \in Segment(b, c) \cup Segment(c, a) \cup Segment(a, b)
      BY <1>1, <1>5, <1>6, <3>1
    <3> QED BY <1>1, <3>2
  <2>3. CASE e = <<c, a>>
    <3>1. e[1] = c /\ e[2] = a
      BY <2>3
    <3>2. r \in Segment(c, a) \cup Segment(a, b) \cup Segment(b, c)
      BY <1>1, <1>5, <1>6, <3>1
    <3> QED BY <1>1, <3>2
  <2> QED BY <1>2, <2>1, <2>2, <2>3
<1>7. OutlineIsRight(points) <=>
         /\ \A r \in Inked : (AtBorder(r) /\ ~OnScreen(points)) \/ \E e \in edges : NearLine(e[1], e[2], r, 3)
         /\ OnScreen(points) =>
               \A r \in Screen, e \in edges :
                   e[1] # e[2] /\ Between(e[1], e[2], r) /\ Cross(e[1], e[2], r) = 0 => r \in Inked
  <2>1. 3 + Slack(points) = 3
    BY DEF Slack
  <2> QED BY <2>1 DEF OutlineIsRight, edges
<1> QED BY <1>4, <1>6, <1>7

-------------------------------------------------------------------------------
(* Filled triangles: folds over three corners.                             *)

\* The greatest number of some of three.
LEMMA GreatestOfThree ==
  /\ Max({1}) = 1 /\ Max({1, 2}) = 2 /\ Max({1, 2, 3}) = 3
  /\ \A s \in SUBSET {1, 2, 3} : s # {} =>
        \/ Max(s) = 3 /\ 3 \in s
        \/ Max(s) = 2 /\ 2 \in s /\ 3 \notin s
        \/ Max(s) = 1 /\ s = {1}
<1>1. ASSUME NEW s \in SUBSET {1, 2, 3}, NEW x \in s, \A y \in s : x >= y
      PROVE  Max(s) = x
  <2>1. \A z \in s : (\A y \in s : z >= y) <=> z = x
    BY <1>1
  <2> QED BY <2>1 DEF Max
<1>2. ASSUME NEW s \in SUBSET {1, 2, 3}, s # {}
      PROVE  \/ Max(s) = 3 /\ 3 \in s
             \/ Max(s) = 2 /\ 2 \in s /\ 3 \notin s
             \/ Max(s) = 1 /\ s = {1}
  <2>1. CASE 3 \in s
    <3>1. \A y \in s : 3 >= y
      OBVIOUS
    <3> QED BY <1>1, <2>1, <3>1
  <2>2. CASE 3 \notin s /\ 2 \in s
    <3>1. \A y \in s : 2 >= y
      BY <2>2
    <3> QED BY <1>1, <2>2, <3>1
  <2>3. CASE 3 \notin s /\ 2 \notin s
    <3>1. s = {1}
      BY <1>2, <2>3
    <3>2. 1 \in s /\ \A y \in s : 1 >= y
      BY <3>1
    <3> QED BY <1>1, <3>1, <3>2
  <2> QED BY <2>1, <2>2, <2>3
<1>3. Max({1}) = 1 /\ Max({1, 2}) = 2 /\ Max({1, 2, 3}) = 3
  <2>1. /\ {1} \in SUBSET {1, 2, 3} /\ {1, 2} \in SUBSET {1, 2, 3} /\ {1, 2, 3} \in SUBSET {1, 2, 3}
        /\ (\A y \in {1} : 1 >= y) /\ (\A y \in {1, 2} : 2 >= y) /\ (\A y \in {1, 2, 3} : 3 >= y)
    OBVIOUS
  <2> QED BY <1>1, <2>1
<1> QED BY <1>2, <1>3

\* The spans of a triangle: one edge after the other.
LEMMA SpansOfThree ==
  ASSUME NEW points, Len(points) = 3, NEW clockwise, NEW garbage,
         NEW a, NEW b, NEW c,
         NEW any, any = [y \in 0 .. GL_height - 1 |-> garbage],
         a = WithEdge([left |-> any, right |-> any], points[1], Following(points, 1), clockwise),
         b = WithEdge(a, points[2], Following(points, 2), clockwise),
         c = WithEdge(b, points[3], Following(points, 3), clockwise)
  PROVE  Spans(points, clockwise, garbage) = c
<1> DEFINE base == [left |-> any, right |-> any]
           D == DOMAIN [i \in 1 .. Len(points) |-> i]
           seq == [i \in 1 .. Len(points) |-> i]
           op(x, y) == WithEdge(y, points[x], Following(points, x), clockwise)
           body(g) == [s \in SUBSET D |-> IF s = {} THEN base
                                          ELSE op(seq[Max(s)], g[s \ {Max(s)}])]
           f == CHOOSE g : g = body(g)
<1>1. Spans(points, clockwise, garbage) = f[D]
  BY DEF Spans, FoldLeft, MapThenFoldSet
<1>2. D = {1, 2, 3} /\ \A i \in D : seq[i] = i
  OBVIOUS
<1>3. Max({1}) = 1 /\ Max({1, 2}) = 2 /\ Max({1, 2, 3}) = 3
  BY GreatestOfThree
<1> DEFINE of(s, x, i) == IF i \in s THEN op(i, x) ELSE x
           h == [s \in SUBSET D |-> of(s, of(s, of(s, base, 1), 2), 3)]
<1> HIDE DEF seq
<1>4. ASSUME NEW s \in SUBSET D, s # {}
      PROVE  \/ Max(s) = 3 /\ 3 \in s
             \/ Max(s) = 2 /\ 2 \in s /\ 3 \notin s
             \/ Max(s) = 1 /\ s = {1}
  BY <1>2, <1>4, GreatestOfThree
<1>5. h = body(h)
  <2> HIDE DEF op, D
  <2>1. ASSUME NEW s \in SUBSET D, s # {}
        PROVE  h[s] = op(seq[Max(s)], h[s \ {Max(s)}])
    <3>1. h[s] = of(s, of(s, of(s, base, 1), 2), 3)
      OBVIOUS
    <3>2. CASE Max(s) = 3 /\ 3 \in s
      <4>1. h[s \ {3}] = of(s, of(s, base, 1), 2)
        BY <1>2
      <4> QED BY <1>2, <3>1, <3>2, <4>1
    <3>3. CASE Max(s) = 2 /\ 2 \in s /\ 3 \notin s
      <4>1. h[s \ {2}] = of(s, base, 1)
        BY <1>2, <3>3
      <4> QED BY <1>2, <3>1, <3>3, <4>1
    <3>4. CASE Max(s) = 1 /\ s = {1}
      <4>1. h[s \ {1}] = base
        BY <1>2, <3>4
      <4> QED BY <1>2, <3>1, <3>4, <4>1
    <3> HIDE DEF h, of
    <3> QED BY <1>4, <2>1, <3>2, <3>3, <3>4
  <2>2. h[{}] = base
    OBVIOUS
  <2> QED
    <3> HIDE DEF of
    <3>1. h = [s \in SUBSET D |-> h[s]]
      OBVIOUS
    <3> HIDE DEF h
    <3> QED BY <2>1, <2>2, <3>1
<1>6. f = body(f)
  <2> HIDE DEF body, h
  <2> QED BY <1>5
<1> HIDE DEF f, op
<1>7. \A s \in SUBSET D : f[s] = IF s = {} THEN base ELSE op(seq[Max(s)], f[s \ {Max(s)}])
  BY <1>6
<1>8. /\ f[{}] = base
      /\ f[{1}] = op(1, f[{}])
      /\ f[{1, 2}] = op(2, f[{1}])
      /\ f[{1, 2, 3}] = op(3, f[{1, 2}])
  <2>1. {1} \ {1} = {} /\ {1, 2} \ {2} = {1} /\ {1, 2, 3} \ {3} = {1, 2}
    OBVIOUS
  <2>2. {} \in SUBSET D /\ {1} \in SUBSET D /\ {1, 2} \in SUBSET D /\ {1, 2, 3} \in SUBSET D
    BY <1>2
  <2>3. {1} # {} /\ {1, 2} # {} /\ {1, 2, 3} # {}
    OBVIOUS
  <2> HIDE DEF D
  <2>4. seq[1] = 1 /\ seq[2] = 2 /\ seq[3] = 3
    BY <1>2
  <2>5. f[{}] = base
    BY <1>7, <2>2
  <2>6. f[{1}] = op(seq[Max({1})], f[{1} \ {Max({1})}])
    BY <1>7, <2>2, <2>3
  <2>7. f[{1, 2}] = op(seq[Max({1, 2})], f[{1, 2} \ {Max({1, 2})}])
    BY <1>7, <2>2, <2>3
  <2>8. f[{1, 2, 3}] = op(seq[Max({1, 2, 3})], f[{1, 2, 3} \ {Max({1, 2, 3})}])
    BY <1>7, <2>2, <2>3
  <2> QED BY <1>3, <2>1, <2>4, <2>5, <2>6, <2>7, <2>8
<1>9. op(1, base) = a /\ op(2, a) = b /\ op(3, b) = c
  BY DEF op
<1> QED BY <1>1, <1>2, <1>8, <1>9

Total(g) == FoldFunction(+, 0, g)

\* The sum of three numbers, in whatever order.
LEMMA SumOfThree ==
  ASSUME NEW g, DOMAIN g = {1, 2, 3}, NEW x \in Int, NEW y \in Int, NEW z \in Int,
         g[1] = x, g[2] = y, g[3] = z
  PROVE  Total(g) = x + y + z
<1> DEFINE D == DOMAIN g
           any(s) == CHOOSE i \in s : TRUE
           body(k) == [s \in SUBSET D |-> IF s = {} THEN 0 ELSE g[any(s)] + k[s \ {any(s)}]]
           f == CHOOSE k : k = body(k)
           of(s, i) == IF i \in s THEN g[i] ELSE 0
           h == [s \in SUBSET D |-> of(s, 1) + of(s, 2) + of(s, 3)]
<1>1. Total(g) = f[D]
  BY DEF Total, FoldFunction, FoldFunctionOnSet, MapThenFoldSet
<1>2. \A s \in SUBSET D : s # {} => any(s) \in s
  OBVIOUS
<1> HIDE DEF any
<1>3. h = body(h)
  <2>1. ASSUME NEW s \in SUBSET D, s # {}
        PROVE  h[s] = g[any(s)] + h[s \ {any(s)}]
    <3>1. any(s) = 1 \/ any(s) = 2 \/ any(s) = 3
      BY <1>2, <2>1
    <3>2. any(s) \in s
      BY <1>2, <2>1
    <3> PICK i \in {1, 2, 3} : i = any(s)
      BY <3>1
    <3>3. s \ {i} \in SUBSET D /\ i \in s
      BY <3>2
    <3>4. h[s] = of(s, 1) + of(s, 2) + of(s, 3)
      OBVIOUS
    <3>5. h[s \ {i}] = of(s \ {i}, 1) + of(s \ {i}, 2) + of(s \ {i}, 3)
      BY <3>3
    <3>6. \A j \in {1, 2, 3} : /\ of(s, j) \in Int
                               /\ of(s \ {i}, j) = IF j = i THEN 0 ELSE of(s, j)
      OBVIOUS
    <3>7. of(s, i) = g[i]
      BY <3>3
    <3> HIDE DEF of, h
    <3> QED BY <3>4, <3>5, <3>6, <3>7
  <2>2. h[{}] = 0
    OBVIOUS
  <2>3. h = [s \in SUBSET D |-> h[s]]
    OBVIOUS
  <2> HIDE DEF h, D
  <2> QED BY <2>1, <2>2, <2>3
<1>4. f = body(f)
  <2> HIDE DEF body, h
  <2> QED BY <1>3
<1> HIDE DEF f
<1>5. \A s \in SUBSET D : f[s] = IF s = {} THEN 0 ELSE g[any(s)] + f[s \ {any(s)}]
  BY <1>4
<1>6. ASSUME NEW s \in SUBSET D, \A i \in s : f[s \ {i}] = h[s \ {i}]
      PROVE  f[s] = h[s]
  <2> HIDE DEF D, h
  <2>1. h[s] = IF s = {} THEN 0 ELSE g[any(s)] + h[s \ {any(s)}]
    BY <1>3
  <2> QED BY <1>2, <1>5, <1>6, <2>1
<1>7. /\ {} \in SUBSET D /\ {1} \in SUBSET D /\ {2} \in SUBSET D /\ {3} \in SUBSET D
      /\ {1, 2} \in SUBSET D /\ {1, 3} \in SUBSET D /\ {2, 3} \in SUBSET D /\ D = {1, 2, 3}
  OBVIOUS
<1> HIDE DEF h, D
<1>8. f[{}] = h[{}]
  BY <1>6, <1>7
<1>9. f[{1}] = h[{1}] /\ f[{2}] = h[{2}] /\ f[{3}] = h[{3}]
  <2>1. {1} \ {1} = {} /\ {2} \ {2} = {} /\ {3} \ {3} = {}
    OBVIOUS
  <2>2. \A i \in {1} : f[{1} \ {i}] = h[{1} \ {i}]
    BY <1>8, <2>1
  <2>3. \A i \in {2} : f[{2} \ {i}] = h[{2} \ {i}]
    BY <1>8, <2>1
  <2>4. \A i \in {3} : f[{3} \ {i}] = h[{3} \ {i}]
    BY <1>8, <2>1
  <2> QED BY <1>6, <1>7, <2>2, <2>3, <2>4
<1>10. f[{1, 2}] = h[{1, 2}] /\ f[{1, 3}] = h[{1, 3}] /\ f[{2, 3}] = h[{2, 3}]
  <2>1. /\ {1, 2} \ {1} = {2} /\ {1, 2} \ {2} = {1} /\ {1, 3} \ {1} = {3}
        /\ {1, 3} \ {3} = {1} /\ {2, 3} \ {2} = {3} /\ {2, 3} \ {3} = {2}
    OBVIOUS
  <2>2. \A i \in {1, 2} : f[{1, 2} \ {i}] = h[{1, 2} \ {i}]
    BY <1>9, <2>1
  <2>3. \A i \in {1, 3} : f[{1, 3} \ {i}] = h[{1, 3} \ {i}]
    BY <1>9, <2>1
  <2>4. \A i \in {2, 3} : f[{2, 3} \ {i}] = h[{2, 3} \ {i}]
    BY <1>9, <2>1
  <2> QED BY <1>6, <1>7, <2>2, <2>3, <2>4
<1>11. f[D] = h[D]
  <2>1. {1, 2, 3} \ {1} = {2, 3} /\ {1, 2, 3} \ {2} = {1, 3} /\ {1, 2, 3} \ {3} = {1, 2}
    OBVIOUS
  <2>2. \A i \in D : f[D \ {i}] = h[D \ {i}]
    BY <1>7, <1>10, <2>1
  <2> QED BY <1>6, <2>2
<1>12. h[D] = x + y + z
  BY <1>7 DEF h
<1> QED BY <1>1, <1>11, <1>12

-------------------------------------------------------------------------------
(* Filled triangles: the edges.                                            *)

\* The three edges of a triangle turn alike.
LEMMA CrossTurns ==
  ASSUME NEW p \in Points, NEW q \in Points, NEW r \in Points
  PROVE  Cross(p, q, r) \in Int /\ Cross(q, r, p) = Cross(p, q, r) /\ Cross(r, p, q) = Cross(p, q, r)
<1>1. PICK px \in Int, py \in Int, qx \in Int, qy \in Int, rx \in Int, ry \in Int :
         p[1] = px /\ p[2] = py /\ q[1] = qx /\ q[2] = qy /\ r[1] = rx /\ r[2] = ry
  BY DEF Points
<1>2. /\ Cross(p, q, r) = (qx - px) * (ry - py) - (rx - px) * (qy - py)
      /\ Cross(q, r, p) = (rx - qx) * (py - qy) - (px - qx) * (ry - qy)
      /\ Cross(r, p, q) = (px - rx) * (qy - ry) - (qx - rx) * (py - ry)
  BY <1>1 DEF Cross
<1> QED BY <1>2

\* How far two edges are from a point, compared in the row of the point.
LEMMA TwoEdges ==
  ASSUME NEW p \in Points, NEW q \in Points, NEW r \in Points, NEW z \in Points
  PROVE  (q[2] - p[2]) * Cross(q, r, z)
         = (r[2] - q[2]) * Cross(p, q, z) + Cross(p, q, r) * (q[2] - z[2])
<1>1. PICK px \in Int, py \in Int, qx \in Int, qy \in Int, rx \in Int, ry \in Int, x \in Int, y \in Int :
         /\ p[1] = px /\ p[2] = py /\ q[1] = qx /\ q[2] = qy /\ r[1] = rx /\ r[2] = ry
         /\ z[1] = x /\ z[2] = y
  BY DEF Points
<1>2. /\ Cross(p, q, r) = (qx - px) * (ry - py) - (rx - px) * (qy - py)
      /\ Cross(p, q, z) = (qx - px) * (y - py) - (x - px) * (qy - py)
      /\ Cross(q, r, z) = (rx - qx) * (y - qy) - (x - qx) * (ry - qy)
  BY <1>1 DEF Cross
<1>3. (qy - py) * ((rx - qx) * (y - qy) - (x - qx) * (ry - qy))
      = (ry - qy) * ((qx - px) * (y - py) - (x - px) * (qy - py))
        + ((qx - px) * (ry - py) - (rx - px) * (qy - py)) * (qy - y)
  OBVIOUS
<1> QED BY <1>1, <1>2, <1>3

\* A step along the row.
LEMMA CrossInRow ==
  ASSUME NEW p \in Points, NEW q \in Points, NEW x \in Int, NEW c \in Int, NEW y \in Int
  PROVE  /\ Cross(p, q, <<x, y>>) \in Int /\ (x - c) * (q[2] - p[2]) \in Int
         /\ Cross(p, q, <<x, y>>) = Cross(p, q, <<c, y>>) - (x - c) * (q[2] - p[2])
<1>1. PICK px \in Int, py \in Int, qx \in Int, qy \in Int :
         p[1] = px /\ p[2] = py /\ q[1] = qx /\ q[2] = qy
  BY DEF Points
<1>2. /\ Cross(p, q, <<x, y>>) = (qx - px) * (y - py) - (x - px) * (qy - py)
      /\ Cross(p, q, <<c, y>>) = (qx - px) * (y - py) - (c - px) * (qy - py)
  BY <1>1 DEF Cross
<1>3. (qx - px) * (y - py) - (x - px) * (qy - py)
      = ((qx - px) * (y - py) - (c - px) * (qy - py)) - (x - c) * (qy - py)
  OBVIOUS
<1> QED BY <1>1, <1>2, <1>3

\* The column c of an edge in row y: a walk of m columns in d rows, u rows and v columns done.
EdgeWalks(p, q, y, c, m, d, u, v, sx, sy) ==
    /\ m \in Nat /\ d \in Nat \ {0} /\ u \in 0 .. d /\ v \in 0 .. m
    /\ sx \in {-1, 1} /\ sy \in {-1, 1} /\ d = Abs(q[2] - p[2])
    /\ q[1] = p[1] + sx * m /\ q[2] = p[2] + sy * d
    /\ c = p[1] + sx * v /\ y = p[2] + sy * u
    /\ p[1] + sx * v \in Min({p[1], q[1]}) .. Max({p[1], q[1]})
    /\ d * v \in Int /\ m * u \in Int
    /\ 1 - d <= 2 * (d * v) - 2 * (m * u) /\ 2 * (d * v) - 2 * (m * u) <= d

LEMMA EdgeWalk ==
  ASSUME NEW p \in Points, NEW q \in Points, p[2] # q[2], NEW y \in RowsOf(p, q)
  PROVE  \E m, d, u, v, sx, sy : EdgeWalks(p, q, y, EdgeColumn(p, q, y), m, d, u, v, sx, sy)
<1> DEFINE m == Abs(q[1] - p[1])
           d == Abs(q[2] - p[2])
           u == Abs(y - p[2])
           sx == Sign(q[1] - p[1])
           sy == Sign(q[2] - p[2])
           v == Column(d, m, u)
           c == EdgeColumn(p, q, y)
<1>1. p[1] \in Int /\ p[2] \in Int /\ q[1] \in Int /\ q[2] \in Int
  BY DEF Points
<1>2. /\ m \in Nat /\ d \in Nat /\ sx \in {-1, 1} /\ sy \in {-1, 1}
      /\ q[1] = p[1] + sx * m /\ q[2] = p[2] + sy * d
      /\ \A k \in 0 .. m : p[1] + sx * k \in Min({p[1], q[1]}) .. Max({p[1], q[1]})
      /\ u \in 0 .. d /\ y = p[2] + sy * u
  BY <1>1, OnTheWay DEF RowsOf
<1>3. d # 0 /\ d \in Nat \ {0}
  <2>1. d # 0
    BY <1>1 DEF Abs
  <2> QED BY <1>2, <2>1
<1>4. c = p[1] + sx * v
  BY <1>2, <1>3, WalkIsColumn DEF EdgeColumn
<1>5. /\ v \in 0 .. m /\ d * v \in Int /\ m * u \in Int
      /\ 1 - d <= 2 * (d * v) - 2 * (m * u) /\ 2 * (d * v) - 2 * (m * u) <= d
  BY <1>2, <1>3, ColumnBounds
<1>6. d = Abs(q[2] - p[2])
  OBVIOUS
<1> HIDE DEF m, d, u, v, c, sx, sy
<1>7. p[1] + sx * v \in Min({p[1], q[1]}) .. Max({p[1], q[1]})
  BY <1>2, <1>5
<1>8. EdgeWalks(p, q, y, c, m, d, u, v, sx, sy)
  BY <1>2, <1>3, <1>4, <1>5, <1>6, <1>7 DEF EdgeWalks
<1> QED BY <1>8 DEF c

\* The column of an edge in one of its rows is at most half a pixel beside the
\* edge.
LEMMA EdgeColumnIsNear ==
  ASSUME NEW p \in Points, NEW q \in Points, p[2] # q[2], NEW y \in RowsOf(p, q),
         NEW c, c = EdgeColumn(p, q, y)
  PROVE  /\ c \in Min({p[1], q[1]}) .. Max({p[1], q[1]}) /\ c \in Int
         /\ Abs(q[2] - p[2]) \in Nat /\ Cross(p, q, <<c, y>>) \in Int
         /\ 2 * Cross(p, q, <<c, y>>) <= Abs(q[2] - p[2])
         /\ -Abs(q[2] - p[2]) <= 2 * Cross(p, q, <<c, y>>)
<1>1. p[1] \in Int /\ p[2] \in Int /\ q[1] \in Int /\ q[2] \in Int
  BY DEF Points
<1>2. PICK m, d, u, v, sx, sy : EdgeWalks(p, q, y, c, m, d, u, v, sx, sy)
  BY EdgeWalk
<1>3. /\ m \in Nat /\ d \in Nat \ {0} /\ u \in 0 .. d /\ v \in 0 .. m
      /\ sx \in {-1, 1} /\ sy \in {-1, 1} /\ d = Abs(q[2] - p[2])
      /\ q[1] = p[1] + sx * m /\ q[2] = p[2] + sy * d
      /\ c = p[1] + sx * v /\ y = p[2] + sy * u
      /\ p[1] + sx * v \in Min({p[1], q[1]}) .. Max({p[1], q[1]})
      /\ d * v \in Int /\ m * u \in Int
      /\ 1 - d <= 2 * (d * v) - 2 * (m * u) /\ 2 * (d * v) - 2 * (m * u) <= d
  BY <1>2 DEF EdgeWalks
<1>4. c \in Min({p[1], q[1]}) .. Max({p[1], q[1]}) /\ c \in Int
  <2>1. c \in Min({p[1], q[1]}) .. Max({p[1], q[1]})
    BY <1>3
  <2>2. c \in Int
    BY <1>1, <1>3
  <2> QED BY <2>1, <2>2
<1>5. y \in Int
  BY <1>1, <1>3
<1>6. Reached(p, q, sx, sy, m, d) /\ Reached(p, <<c, y>>, sx, sy, v, u)
  BY <1>1, <1>3 DEF Reached
<1>7. \/ Cross(p, q, <<c, y>>) = m * u - d * v
      \/ Cross(p, q, <<c, y>>) = d * v - m * u
  BY <1>4, <1>5, <1>6, CrossOnTheWay DEF Points
<1>8. /\ Cross(p, q, <<c, y>>) \in Int
       /\ 2 * Cross(p, q, <<c, y>>) <= d /\ -d <= 2 * Cross(p, q, <<c, y>>)
  <2> DEFINE a == m * u
             b == d * v
             x == Cross(p, q, <<c, y>>)
  <2>1. a \in Int /\ b \in Int /\ 1 - d <= 2 * b - 2 * a /\ 2 * b - 2 * a <= d /\ (x = a - b \/ x = b - a)
    BY <1>3, <1>7
  <2> HIDE DEF a, b, x
  <2>2. x \in Int /\ 2 * x <= d /\ -d <= 2 * x
    BY <1>3, <2>1
  <2> QED BY <2>2 DEF x
<1> QED BY <1>3, <1>4, <1>8

\* An edge begins and ends in its corners.
LEMMA EdgeEnds ==
  ASSUME NEW p \in Points, NEW q \in Points, p[2] # q[2], NEW y \in RowsOf(p, q),
         NEW c, c = EdgeColumn(p, q, y)
  PROVE  (y = p[2] => c = p[1]) /\ (y = q[2] => c = q[1])
<1>1. p[1] \in Int /\ p[2] \in Int /\ q[1] \in Int /\ q[2] \in Int
  BY DEF Points
<1>2. PICK m, d, u, v, sx, sy : EdgeWalks(p, q, y, c, m, d, u, v, sx, sy)
  BY EdgeWalk
<1>3. /\ m \in Nat /\ d \in Nat \ {0} /\ u \in 0 .. d /\ v \in 0 .. m
      /\ sx \in {-1, 1} /\ sy \in {-1, 1} /\ d = Abs(q[2] - p[2])
      /\ q[1] = p[1] + sx * m /\ q[2] = p[2] + sy * d
      /\ c = p[1] + sx * v /\ y = p[2] + sy * u
      /\ p[1] + sx * v \in Min({p[1], q[1]}) .. Max({p[1], q[1]})
      /\ d * v \in Int /\ m * u \in Int
      /\ 1 - d <= 2 * (d * v) - 2 * (m * u) /\ 2 * (d * v) - 2 * (m * u) <= d
  BY <1>2 DEF EdgeWalks
<1>4. ASSUME y = p[2] PROVE c = p[1]
  <2>1. u = 0
    BY <1>1, <1>3, <1>4
  <2>2. m * u = 0
    BY <1>3, <2>1
  <2>3. v = 0
    <3> SUFFICES ASSUME v >= 1 PROVE FALSE
      BY <1>3
    <3>1. d * v >= d
      BY <1>3
    <3> QED BY <1>3, <2>2, <3>1
  <2>4. sx * v = 0
    BY <1>3, <2>3
  <2>5. c = p[1] + 0
    BY <1>3, <2>4
  <2> QED BY <1>1, <2>5
<1>5. ASSUME y = q[2] PROVE c = q[1]
  <2>1. u = d
    <3>1. p[2] + sy * u = p[2] + sy * d
      BY <1>3, <1>5
    <3>2. u \in Int /\ d \in Int /\ (sy = 1 \/ sy = -1)
      BY <1>3
    <3> QED BY <1>1, <3>1, <3>2
  <2>2. v = m
    <3> SUFFICES ASSUME v <= m - 1 PROVE FALSE
      BY <1>3
    <3>1. d * v + d <= m * d
      <4>1. v + 1 <= m /\ v + 1 \in Nat
        BY <1>3
      <4>2. PICK k \in Nat : m = v + 1 + k
        <5>1. m - (v + 1) \in Nat
          BY <1>3, <4>1
        <5> QED BY <1>3, <4>1, <5>1
      <4>3. m * d = d * v + d + k * d /\ k * d >= 0 /\ d * v \in Int /\ k * d \in Int
        BY <1>3, <4>2
      <4> QED BY <1>3, <4>3
    <3>2. m * u = m * d /\ m * d \in Int
      BY <1>3, <2>1
    <3> QED BY <1>3, <3>1, <3>2
  <2> QED BY <1>3, <2>2
<1> QED BY <1>4, <1>5

\* What is on the inner side of the column of an edge is at most half a pixel outside of the
\* edge, and what is inside of the edge is on the inner side of the column.
LEMMA BesideTheColumn ==
  ASSUME NEW p \in Points, NEW q \in Points, p[2] # q[2], NEW y \in RowsOf(p, q),
         NEW c, c = EdgeColumn(p, q, y), NEW x \in Int,
         NEW s \in {-1, 1}, NEW t \in {-1, 1}, t * (s * (q[2] - p[2])) < 0
  PROVE  /\ s * Cross(p, q, <<x, y>>) \in Int
         /\ t * (x - c) >= 0 => -Abs(q[2] - p[2]) <= 2 * (s * Cross(p, q, <<x, y>>))
         /\ s * Cross(p, q, <<x, y>>) > 0 => t * (x - c) >= 0
<1>1. p[2] \in Int /\ q[2] \in Int /\ y \in Int
  <2>1. p[2] \in Int /\ q[2] \in Int
    BY DEF Points
  <2> QED BY <2>1, OfTwo DEF RowsOf
<1> DEFINE h == q[2] - p[2]
           d == Abs(q[2] - p[2])
           f == Cross(p, q, <<x, y>>)
           g == Cross(p, q, <<c, y>>)
<1>2. /\ c \in Int /\ d \in Nat /\ g \in Int /\ 2 * g <= d /\ -d <= 2 * g
  BY EdgeColumnIsNear
<1>3. f \in Int /\ f = g - (x - c) * h
  BY <1>1, <1>2, CrossInRow
<1>4. h \in Int /\ d = Abs(h) /\ d # 0
  BY <1>1 DEF Abs
<1>5. t * (s * h) = -d
  BY <1>1, <1>4 DEF Abs
<1> HIDE DEF h, d, f, g
<1>6. s * f = s * g + (t * (x - c)) * d
  <2>1. s * f = s * g + (-1) * ((x - c) * (s * h))
    BY <1>2, <1>3, <1>4
  <2>2. CASE t = 1
    <3>1. s * h = -d
      BY <1>2, <1>4, <1>5, <2>2
    <3> QED BY <1>2, <2>1, <2>2, <3>1
  <2>3. CASE t = -1
    <3>1. s * h = d
      BY <1>2, <1>4, <1>5, <2>3
    <3> QED BY <1>2, <2>1, <2>3, <3>1
  <2> QED BY <2>2, <2>3
<1>7. PICK k \in Int : k = t * (x - c)
  BY <1>2
<1>8. PICK e \in Int : e = s * g /\ 2 * e <= d /\ -d <= 2 * e
  BY <1>2
<1>9. s * f \in Int /\ s * f = e + k * d /\ k * d \in Int
  BY <1>2, <1>3, <1>6, <1>7, <1>8
<1>10. ASSUME k >= 0 PROVE -d <= 2 * (s * f)
  <2>1. k * d >= 0
    BY <1>2, <1>10
  <2> QED BY <1>2, <1>8, <1>9, <2>1
<1>11. ASSUME s * f > 0 PROVE k >= 0
  <2> SUFFICES ASSUME k <= -1 PROVE FALSE
    OBVIOUS
  <2>1. k * d <= -d
    BY <1>2
  <2> QED BY <1>2, <1>4, <1>8, <1>9, <1>11, <2>1
<1> QED BY <1>7, <1>9, <1>10, <1>11 DEF d, f

\* The rows of an edge.
LEMMA InRows ==
  ASSUME NEW p \in Points, NEW q \in Points, NEW y \in Int
  PROVE  y \in RowsOf(p, q) <=> (p[2] <= y /\ y <= q[2]) \/ (q[2] <= y /\ y <= p[2])
<1>1. p[2] \in Int /\ q[2] \in Int
  BY DEF Points
<1>2. /\ Min({p[2], q[2]}) = IF p[2] <= q[2] THEN p[2] ELSE q[2]
      /\ Max({p[2], q[2]}) = IF p[2] <= q[2] THEN q[2] ELSE p[2]
  BY <1>1, OfTwo
<1> QED BY <1>1, <1>2 DEF RowsOf

\* On the inner side of an edge, or in its row at most half a pixel outside.
Beside(s, p, q, z) == -Abs(q[2] - p[2]) <= 2 * (s * Cross(p, q, z))

LEMMA ProductSign ==
  ASSUME NEW a \in Int, NEW b \in Int
  PROVE  /\ a * b \in Int
         /\ a >= 0 /\ b >= 0 => a * b >= 0
         /\ a >= 0 /\ b <= 0 => a * b <= 0
         /\ a <= 0 /\ b >= 0 => a * b <= 0
         /\ a > 0 /\ b > 0 => a * b > 0
         /\ a > 0 /\ b < 0 => a * b < 0
  OBVIOUS

LEMMA HalfPixels ==
  ASSUME NEW g \in Nat \ {0}, NEW h \in Nat \ {0}, NEW a \in Int, NEW b \in Int,
         NEW e \in Nat, NEW w \in Int, g * b = h * a + e * w
  PROVE  /\ w >= 0 /\ -g <= 2 * a => -h <= 2 * b
         /\ w <= 0 /\ -h <= 2 * b => -g <= 2 * a
<1>1. g * b \in Int /\ h * a \in Int /\ e * w \in Int /\ g * h \in Int
  OBVIOUS
<1>2. ASSUME w >= 0, -g <= 2 * a PROVE -h <= 2 * b
  <2> SUFFICES ASSUME 2 * b + h <= -1 PROVE FALSE
    OBVIOUS
  <2>1. e * w >= 0
    BY <1>2, ProductSign
  <2>2. h * (2 * a + g) >= 0
    BY <1>2, ProductSign
  <2>3. h * (2 * a + g) = 2 * (h * a) + g * h
    OBVIOUS
  <2>4. g * (2 * b + h) < 0
    BY ProductSign
  <2>5. g * (2 * b + h) = 2 * (g * b) + g * h
    OBVIOUS
  <2> QED BY <1>1, <2>1, <2>2, <2>3, <2>4, <2>5
<1>3. ASSUME w <= 0, -h <= 2 * b PROVE -g <= 2 * a
  <2> SUFFICES ASSUME 2 * a + g <= -1 PROVE FALSE
    OBVIOUS
  <2>1. e * w <= 0
    BY <1>3, ProductSign
  <2>2. g * (2 * b + h) >= 0
    BY <1>3, ProductSign
  <2>3. g * (2 * b + h) = 2 * (g * b) + g * h
    OBVIOUS
  <2>4. h * (2 * a + g) < 0
    BY ProductSign
  <2>5. h * (2 * a + g) = 2 * (h * a) + g * h
    OBVIOUS
  <2> QED BY <1>1, <2>1, <2>2, <2>3, <2>4, <2>5
<1> QED BY <1>2, <1>3

\* The comparison of two edges, with the signs that make a corner of both.
LEMMA TwoEdgesSigned ==
  ASSUME NEW p \in Points, NEW q \in Points, NEW r \in Points, NEW z \in Points,
         NEW s \in {-1, 1}, NEW t \in {-1, 1}
  PROVE  /\ s * Cross(p, q, z) \in Int /\ s * Cross(q, r, z) \in Int /\ s * Cross(p, q, r) \in Int
         /\ (t * (q[2] - p[2])) * (s * Cross(q, r, z))
            = (t * (r[2] - q[2])) * (s * Cross(p, q, z)) + (s * Cross(p, q, r)) * (t * (q[2] - z[2]))
<1>1. /\ Cross(p, q, z) \in Int /\ Cross(q, r, z) \in Int /\ Cross(p, q, r) \in Int
  BY CrossTurns
<1>2. PICK a \in Int, b \in Int, e \in Int :
         a = Cross(p, q, z) /\ b = Cross(q, r, z) /\ e = Cross(p, q, r)
  BY <1>1
<1>3. q[2] - p[2] \in Int /\ r[2] - q[2] \in Int /\ q[2] - z[2] \in Int
  BY DEF Points
<1>4. PICK g \in Int, h \in Int, w \in Int :
         g = q[2] - p[2] /\ h = r[2] - q[2] /\ w = q[2] - z[2]
  BY <1>3
<1>5. g * b = h * a + e * w
  BY <1>2, <1>4, TwoEdges
<1>6. (t * g) * (s * b) = (t * h) * (s * a) + (s * e) * (t * w)
  <2>1. /\ (t * g) * (s * b) = (t * s) * (g * b)
        /\ (t * h) * (s * a) = (t * s) * (h * a)
        /\ (s * e) * (t * w) = (t * s) * (e * w)
    OBVIOUS
  <2>2. (t * s) * (h * a + e * w) = (t * s) * (h * a) + (t * s) * (e * w)
    OBVIOUS
  <2> QED BY <1>5, <2>1, <2>2
<1>7. s * a \in Int /\ s * b \in Int /\ s * e \in Int
  OBVIOUS
<1> QED BY <1>2, <1>4, <1>6, <1>7

\* From one edge to the next, where the triangle goes on in the same direction of the rows.
LEMMA NextEdge ==
  ASSUME NEW p \in Points, NEW q \in Points, NEW r \in Points, NEW z \in Points,
         NEW s \in {-1, 1}, s * Cross(p, q, r) > 0,
         NEW t \in {-1, 1}, t * (q[2] - p[2]) > 0, t * (r[2] - q[2]) > 0
  PROVE  /\ t * (q[2] - z[2]) >= 0 /\ Beside(s, p, q, z) => Beside(s, q, r, z)
         /\ t * (q[2] - z[2]) <= 0 /\ Beside(s, q, r, z) => Beside(s, p, q, z)
<1>1. PICK a \in Int, b \in Int, e \in Int :
         a = s * Cross(p, q, z) /\ b = s * Cross(q, r, z) /\ e = s * Cross(p, q, r)
  BY TwoEdgesSigned
<1>2. p[2] \in Int /\ q[2] \in Int /\ r[2] \in Int /\ z[2] \in Int
  BY DEF Points
<1>3. PICK g \in Int, h \in Int, w \in Int :
         g = t * (q[2] - p[2]) /\ h = t * (r[2] - q[2]) /\ w = t * (q[2] - z[2])
  BY <1>2
<1>4. g * b = h * a + e * w
  BY <1>1, <1>3, TwoEdgesSigned
<1>5. g \in Nat \ {0} /\ h \in Nat \ {0} /\ e \in Nat
  BY <1>1, <1>3
<1>6. g = Abs(q[2] - p[2]) /\ h = Abs(r[2] - q[2])
  BY <1>2, <1>3, <1>5 DEF Abs
<1>7. /\ w >= 0 /\ -g <= 2 * a => -h <= 2 * b
      /\ w <= 0 /\ -h <= 2 * b => -g <= 2 * a
  BY <1>4, <1>5, HalfPixels
<1> QED BY <1>1, <1>3, <1>6, <1>7 DEF Beside

\* Some corner of the triangle is in the row or above it, and some below.
Spanned(p, q, r, y) ==
    /\ p[2] <= y \/ q[2] <= y \/ r[2] <= y
    /\ p[2] >= y \/ q[2] >= y \/ r[2] >= y

\* A point that is beside the edges which have its row is not far outside of the others.
LEMMA NotFarOutside ==
  ASSUME NEW p \in Points, NEW q \in Points, NEW r \in Points, NEW z \in Points,
         NEW s \in {-1, 1}, s * Cross(p, q, r) > 0, Spanned(p, q, r, z[2]),
         p[2] # q[2] /\ z[2] \in RowsOf(p, q) => Beside(s, p, q, z),
         q[2] # r[2] /\ z[2] \in RowsOf(q, r) => Beside(s, q, r, z),
         r[2] # p[2] /\ z[2] \in RowsOf(r, p) => Beside(s, r, p, z)
  PROVE  2 * (s * Cross(p, q, z)) > -3 * Steps(p, q)
<1> DEFINE f == s * Cross(p, q, z)
           n == Steps(p, q)
<1> SUFFICES 2 * f > -3 * n
  OBVIOUS
<1>1. /\ p[1] \in Int /\ p[2] \in Int /\ q[1] \in Int /\ q[2] \in Int /\ r[1] \in Int /\ r[2] \in Int
      /\ z[1] \in Int /\ z[2] \in Int
  BY DEF Points
<1>2. f \in Int /\ s * Cross(p, q, r) \in Int
  BY TwoEdgesSigned
<1>3. n \in Nat \ {0} /\ Abs(q[2] - p[2]) <= n /\ Abs(q[2] - p[2]) \in Nat
  <2>1. p[1] # q[1] \/ p[2] # q[2]
    <3> SUFFICES ASSUME p[1] = q[1], p[2] = q[2] PROVE FALSE
      OBVIOUS
    <3>1. Cross(p, q, r) = 0
      <4>1. q[1] - p[1] = 0 /\ q[2] - p[2] = 0 /\ r[1] - p[1] \in Int /\ r[2] - p[2] \in Int
        BY <1>1
      <4> QED BY <4>1 DEF Cross
    <3> QED BY <3>1
  <2>2. PICK X \in Nat, Y \in Nat :
           X = Abs(q[1] - p[1]) /\ Y = Abs(q[2] - p[2]) /\ (X # 0 \/ Y # 0)
    <3>1. Abs(q[1] - p[1]) \in Nat /\ Abs(q[2] - p[2]) \in Nat
      BY <1>1 DEF Abs
    <3>2. Abs(q[1] - p[1]) # 0 \/ Abs(q[2] - p[2]) # 0
      BY <1>1, <2>1 DEF Abs
    <3> QED BY <3>1, <3>2
  <2>3. n = IF X > Y THEN X ELSE Y
    BY <2>2 DEF Steps
  <2>4. n \in Nat \ {0} /\ Y <= n
    <3> HIDE DEF n
    <3> QED BY <2>2, <2>3
  <2> QED BY <2>2, <2>4
<1>4. ASSUME Beside(s, p, q, z) PROVE 2 * f > -3 * n
  <2>1. -Abs(q[2] - p[2]) <= 2 * f
    BY <1>4 DEF Beside
  <2> HIDE DEF f, n
  <2> QED BY <1>2, <1>3, <2>1
<1>5. CASE p[2] = q[2]
  <2>1. PICK a \in Int, b \in Int, c \in Int :
           a = q[1] - p[1] /\ b = z[2] - p[2] /\ c = r[2] - p[2]
    BY <1>1
  <2>2. f = (s * a) * b /\ s * Cross(p, q, r) = (s * a) * c
    <3>1. q[2] - p[2] = 0 /\ z[1] - p[1] \in Int /\ r[1] - p[1] \in Int
      BY <1>1, <1>5
    <3>2. Cross(p, q, z) = a * b /\ Cross(p, q, r) = a * c
      BY <2>1, <3>1 DEF Cross
    <3> QED BY <3>2
  <2>3. (b >= 0 /\ c >= 0) \/ (b <= 0 /\ c <= 0)
    BY <1>1, <1>5, <2>1 DEF Spanned
  <2>4. PICK k \in Int : k = s * a
    OBVIOUS
  <2>5. k * c > 0
    BY <2>2, <2>4
  <2>6. k * b >= 0
    <3>1. CASE b >= 0 /\ c >= 0
      <4>1. k > 0
        BY <2>5, <3>1, ProductSign
      <4> QED BY <3>1, <4>1, ProductSign
    <3>2. CASE b <= 0 /\ c <= 0
      <4>1. k < 0
        BY <2>5, <3>2, ProductSign
      <4>2. (-k) * b <= 0 /\ k * b = -((-k) * b) /\ k * b \in Int
        BY <3>2, <4>1, ProductSign
      <4> QED BY <4>2
    <3> QED BY <2>3, <3>1, <3>2
  <2>7. f >= 0
    BY <2>2, <2>4, <2>6
  <2> HIDE DEF f, n
  <2> QED BY <1>2, <1>3, <2>7
<1>6. CASE p[2] # q[2] /\ z[2] \in RowsOf(p, q)
  BY <1>4, <1>6
<1>7. CASE p[2] # q[2] /\ z[2] \notin RowsOf(p, q)
  <2>1. PICK t \in {-1, 1} : t * (q[2] - p[2]) > 0
    <3>1. q[2] - p[2] > 0 \/ q[2] - p[2] < 0
      BY <1>1, <1>7
    <3>2. 1 * (q[2] - p[2]) = q[2] - p[2] /\ (-1) * (q[2] - p[2]) = -(q[2] - p[2])
      BY <1>1
    <3> QED BY <1>1, <3>1, <3>2
  <2>2. ~((p[2] <= z[2] /\ z[2] <= q[2]) \/ (q[2] <= z[2] /\ z[2] <= p[2]))
    BY <1>1, <1>7, InRows
  <2>3. CASE t * (q[2] - z[2]) < 0
    <3>1. t * (r[2] - q[2]) > 0 /\ q[2] # r[2]
      BY <1>1, <2>1, <2>2, <2>3 DEF Spanned
    <3>2. (q[2] <= z[2] /\ z[2] <= r[2]) \/ (r[2] <= z[2] /\ z[2] <= q[2])
      BY <1>1, <2>1, <2>2, <2>3 DEF Spanned
    <3>3. Beside(s, q, r, z)
      BY <1>1, <3>1, <3>2, InRows
    <3>4. Beside(s, p, q, z)
      BY <1>1, <2>1, <2>3, <3>1, <3>3, NextEdge
    <3> QED BY <1>4, <3>4
  <2>4. CASE ~(t * (q[2] - z[2]) < 0)
    <3>1. t * (p[2] - r[2]) > 0 /\ r[2] # p[2] /\ t * (p[2] - z[2]) >= 0
      BY <1>1, <2>1, <2>2, <2>4 DEF Spanned
    <3>2. (r[2] <= z[2] /\ z[2] <= p[2]) \/ (p[2] <= z[2] /\ z[2] <= r[2])
      BY <1>1, <2>1, <2>2, <2>4 DEF Spanned
    <3>3. Beside(s, r, p, z)
      BY <1>1, <3>1, <3>2, InRows
    <3>4. s * Cross(r, p, q) > 0
      BY CrossTurns
    <3>5. Beside(s, p, q, z)
      BY <1>1, <2>1, <3>1, <3>3, <3>4, NextEdge
    <3> QED BY <1>4, <3>5
  <2> QED BY <2>3, <2>4
<1> QED BY <1>5, <1>6, <1>7

\* A point on the inner side of the two edges of a highest or lowest corner is not above
\* or below it.
LEMMA NotBeyondCorner ==
  ASSUME NEW p \in Points, NEW q \in Points, NEW r \in Points, NEW z \in Points,
         NEW s \in {-1, 1}, s * Cross(p, q, r) > 0, NEW t \in {-1, 1},
         t * (q[2] - p[2]) <= 0, t * (r[2] - q[2]) >= 0,
         s * Cross(p, q, z) > 0, s * Cross(q, r, z) > 0
  PROVE  t * (q[2] - z[2]) <= 0
<1>1. PICK a \in Int, b \in Int, e \in Int :
         a = s * Cross(p, q, z) /\ b = s * Cross(q, r, z) /\ e = s * Cross(p, q, r)
  BY TwoEdgesSigned
<1>2. p[2] \in Int /\ q[2] \in Int /\ r[2] \in Int /\ z[2] \in Int
  BY DEF Points
<1>3. PICK g \in Int, h \in Int, w \in Int :
         g = t * (q[2] - p[2]) /\ h = t * (r[2] - q[2]) /\ w = t * (q[2] - z[2])
  BY <1>2
<1>4. g * b = h * a + e * w
  BY <1>1, <1>3, TwoEdgesSigned
<1>5. g <= 0 /\ h >= 0 /\ a > 0 /\ b > 0 /\ e > 0
  BY <1>1, <1>3
<1> SUFFICES ASSUME w > 0 PROVE FALSE
  BY <1>3
<1>6. e * w > 0 /\ h * a >= 0 /\ g * b <= 0 /\ e * w \in Int /\ h * a \in Int /\ g * b \in Int
  BY <1>5, ProductSign
<1> QED BY <1>4, <1>6

\* What is inside of a triangle is in its rows.
LEMMA InsideIsSpanned ==
  ASSUME NEW p \in Points, NEW q \in Points, NEW r \in Points, NEW z \in Points,
         NEW s \in {-1, 1}, s * Cross(p, q, r) > 0,
         s * Cross(p, q, z) > 0, s * Cross(q, r, z) > 0, s * Cross(r, p, z) > 0
  PROVE  Spanned(p, q, r, z[2])
<1>1. p[2] \in Int /\ q[2] \in Int /\ r[2] \in Int /\ z[2] \in Int
  BY DEF Points
<1>2. s * Cross(q, r, p) > 0 /\ s * Cross(r, p, q) > 0
  BY CrossTurns
<1>3. ASSUME NEW t \in {-1, 1}
      PROVE  t * (p[2] - z[2]) <= 0 \/ t * (q[2] - z[2]) <= 0 \/ t * (r[2] - z[2]) <= 0
  <2>1. \/ t * (q[2] - p[2]) <= 0 /\ t * (r[2] - q[2]) >= 0
        \/ t * (r[2] - q[2]) <= 0 /\ t * (p[2] - r[2]) >= 0
        \/ t * (p[2] - r[2]) <= 0 /\ t * (q[2] - p[2]) >= 0
    BY <1>1
  <2>2. CASE t * (q[2] - p[2]) <= 0 /\ t * (r[2] - q[2]) >= 0
    BY <2>2, NotBeyondCorner
  <2>3. CASE t * (r[2] - q[2]) <= 0 /\ t * (p[2] - r[2]) >= 0
    BY <1>2, <2>3, NotBeyondCorner
  <2>4. CASE t * (p[2] - r[2]) <= 0 /\ t * (q[2] - p[2]) >= 0
    BY <1>2, <2>4, NotBeyondCorner
  <2> QED BY <2>1, <2>2, <2>3, <2>4
<1>4. \/ 1 * (p[2] - z[2]) <= 0 \/ 1 * (q[2] - z[2]) <= 0 \/ 1 * (r[2] - z[2]) <= 0
  BY <1>3
<1>5. \/ (-1) * (p[2] - z[2]) <= 0 \/ (-1) * (q[2] - z[2]) <= 0 \/ (-1) * (r[2] - z[2]) <= 0
  BY <1>3
<1> QED BY <1>1, <1>4, <1>5 DEF Spanned

-------------------------------------------------------------------------------
(* Filled triangles: the spans of the rows.                                *)

\* Which rows an edge stores, on which side of the triangle, and which columns.
Stores(p, q, y) ==
    IF p[2] = q[2] THEN y = p[2]
    ELSE y \in RowsOf(p, q) /\ (FGA_mode = GL_MODE_OLED => y # 0)

OnTheLeft(p, q, clockwise)  == p[2] = q[2] \/ (clockwise > 0) # (q[2] > p[2])
OnTheRight(p, q, clockwise) == p[2] = q[2] \/ ~((clockwise > 0) # (q[2] > p[2]))

FirstColumn(p, q, y) == IF p[2] = q[2] THEN Min({p[1], q[1]}) ELSE EdgeColumn(p, q, y)
LastColumn(p, q, y)  == IF p[2] = q[2] THEN Max({p[1], q[1]}) ELSE EdgeColumn(p, q, y)

\* The columns of one side after an edge.
LeftAfter(side, p, q, clockwise) ==
    [y \in DOMAIN side |-> IF OnTheLeft(p, q, clockwise) /\ Stores(p, q, y) THEN FirstColumn(p, q, y) ELSE side[y]]
RightAfter(side, p, q, clockwise) ==
    [y \in DOMAIN side |-> IF OnTheRight(p, q, clockwise) /\ Stores(p, q, y) THEN LastColumn(p, q, y) ELSE side[y]]

LEMMA EdgeStores ==
  ASSUME NEW f, NEW g, f = [y \in DOMAIN f |-> f[y]], g = [y \in DOMAIN g |-> g[y]],
         NEW p, NEW q, NEW clockwise
  PROVE  WithEdge([left |-> f, right |-> g], p, q, clockwise)
         = [left |-> LeftAfter(f, p, q, clockwise), right |-> RightAfter(g, p, q, clockwise)]
<1> DEFINE spans == [left |-> f, right |-> g]
           l == LeftAfter(f, p, q, clockwise)
           r == RightAfter(g, p, q, clockwise)
           w == WithEdge(spans, p, q, clockwise)
<1>1. CASE p[2] = q[2]
  <2>1. /\ l = [f EXCEPT ![p[2]] = Min({p[1], q[1]})]
        /\ r = [g EXCEPT ![p[2]] = Max({p[1], q[1]})]
    BY <1>1 DEF LeftAfter, RightAfter, OnTheLeft, OnTheRight, Stores, FirstColumn, LastColumn
  <2>2. w = [spans EXCEPT !.left[p[2]]  = Min({p[1], q[1]}),
                          !.right[p[2]] = Max({p[1], q[1]})]
    BY <1>1 DEF WithEdge
  <2> HIDE DEF l, r, w
  <2> QED BY <2>1, <2>2 DEF w, l, r
<1>2. CASE p[2] # q[2]
  <2> DEFINE rows == IF FGA_mode = GL_MODE_OLED THEN RowsOf(p, q) \ {0} ELSE RowsOf(p, q)
             stored(side) == [y \in DOMAIN side |-> IF y \in rows THEN EdgeColumn(p, q, y) ELSE side[y]]
  <2>1. w = IF (clockwise > 0) # (q[2] > p[2]) THEN [spans EXCEPT !.left = stored(@)]
            ELSE [spans EXCEPT !.right = stored(@)]
    BY <1>2 DEF WithEdge
  <2>2. \A y : Stores(p, q, y) <=> y \in rows
    BY <1>2 DEF Stores
  <2>3. CASE (clockwise > 0) # (q[2] > p[2])
    <3>1. w = [left |-> stored(f), right |-> g]
      BY <2>1, <2>3
    <3>2. l = stored(f)
      BY <1>2, <2>2, <2>3 DEF LeftAfter, OnTheLeft, FirstColumn
    <3>3. r = g
      BY <1>2, <2>3 DEF RightAfter, OnTheRight
    <3> QED BY <3>1, <3>2, <3>3
  <2>4. CASE ~((clockwise > 0) # (q[2] > p[2]))
    <3>1. w = [left |-> f, right |-> stored(g)]
      BY <2>1, <2>4
    <3>2. r = stored(g)
      BY <1>2, <2>2, <2>4 DEF RightAfter, OnTheRight, LastColumn
    <3>3. l = f
      BY <1>2, <2>4 DEF LeftAfter, OnTheLeft
    <3> QED BY <3>1, <3>2, <3>3
  <2> QED BY <2>3, <2>4
<1> QED BY <1>1, <1>2

\* In every row between two corners an edge stores the left side, and one the right side.
LEMMA BothSidesStored ==
  ASSUME NEW p \in Points, NEW q \in Points, NEW r \in Points, NEW clockwise, NEW y \in Int,
         Spanned(p, q, r, y), FGA_mode = GL_MODE_OLED => y # 0
  PROVE  /\ \/ OnTheLeft(p, q, clockwise) /\ Stores(p, q, y)
            \/ OnTheLeft(q, r, clockwise) /\ Stores(q, r, y)
            \/ OnTheLeft(r, p, clockwise) /\ Stores(r, p, y)
         /\ \/ OnTheRight(p, q, clockwise) /\ Stores(p, q, y)
            \/ OnTheRight(q, r, clockwise) /\ Stores(q, r, y)
            \/ OnTheRight(r, p, clockwise) /\ Stores(r, p, y)
<1>1. p[2] \in Int /\ q[2] \in Int /\ r[2] \in Int
  BY DEF Points
<1>2. /\ (q[2] <= y /\ y <= p[2]) \/ (r[2] <= y /\ y <= q[2]) \/ (p[2] <= y /\ y <= r[2])
      /\ (p[2] <= y /\ y <= q[2]) \/ (q[2] <= y /\ y <= r[2]) \/ (r[2] <= y /\ y <= p[2])
  BY <1>1 DEF Spanned
<1>3. ASSUME NEW u \in Points, NEW v \in Points, v[2] <= y, y <= u[2]
      PROVE  /\ Stores(u, v, y) /\ Stores(v, u, y)
             /\ IF clockwise > 0 THEN OnTheLeft(u, v, clockwise) /\ OnTheRight(v, u, clockwise)
                ELSE OnTheRight(u, v, clockwise) /\ OnTheLeft(v, u, clockwise)
  <2>1. u[2] \in Int /\ v[2] \in Int
    BY DEF Points
  <2>2. y \in RowsOf(u, v) /\ y \in RowsOf(v, u)
    BY <1>3, InRows
  <2>3. Stores(u, v, y) /\ Stores(v, u, y)
    BY <1>3, <2>1, <2>2 DEF Stores
  <2>4. u[2] = v[2] \/ (u[2] > v[2] /\ ~(v[2] > u[2]))
    BY <1>3, <2>1
  <2>5. /\ clockwise > 0 => OnTheLeft(u, v, clockwise) /\ OnTheRight(v, u, clockwise)
        /\ ~(clockwise > 0) => OnTheRight(u, v, clockwise) /\ OnTheLeft(v, u, clockwise)
    BY <2>4 DEF OnTheLeft, OnTheRight
  <2> QED BY <2>3, <2>5
<1> QED BY <1>2, <1>3

\* A side of an edge that is not level, in numbers.
LEMMA SideOf ==
  ASSUME NEW p \in Points, NEW q \in Points, p[2] # q[2], NEW s \in {-1, 1},
         NEW clockwise, clockwise > 0 <=> s = 1
  PROVE  /\ OnTheLeft(p, q, clockwise) => s * (q[2] - p[2]) < 0
         /\ OnTheRight(p, q, clockwise) => s * (q[2] - p[2]) > 0
         /\ OnTheLeft(p, q, clockwise) \/ OnTheRight(p, q, clockwise)
<1>1. p[2] \in Int /\ q[2] \in Int
  BY DEF Points
<1> QED BY <1>1 DEF OnTheLeft, OnTheRight

\* An edge that is not level and stores a row.
LEMMA StoresColumn ==
  ASSUME NEW p \in Points, NEW q \in Points, p[2] # q[2], NEW y \in Int, Stores(p, q, y)
  PROVE  /\ y \in RowsOf(p, q)
         /\ (p[2] <= y /\ y <= q[2]) \/ (q[2] <= y /\ y <= p[2])
         /\ FirstColumn(p, q, y) = EdgeColumn(p, q, y) /\ LastColumn(p, q, y) = EdgeColumn(p, q, y)
         /\ y = p[2] => EdgeColumn(p, q, y) = p[1]
         /\ y = q[2] => EdgeColumn(p, q, y) = q[1]
<1>1. y \in RowsOf(p, q)
  BY DEF Stores
<1>2. (p[2] <= y /\ y <= q[2]) \/ (q[2] <= y /\ y <= p[2])
  BY <1>1, InRows
<1>3. /\ y = p[2] => EdgeColumn(p, q, y) = p[1]
      /\ y = q[2] => EdgeColumn(p, q, y) = q[1]
  <2>1. PICK c : c = EdgeColumn(p, q, y)
    OBVIOUS
  <2> QED BY <1>1, <2>1, EdgeEnds
<1> QED BY <1>1, <1>2, <1>3 DEF FirstColumn, LastColumn

\* Two edges that store the same side of a row store the same column: they meet there.
LEMMA SidesAgree ==
  ASSUME NEW p \in Points, NEW q \in Points, NEW r \in Points, NEW y \in Int,
         NEW s \in {-1, 1}, s * Cross(p, q, r) > 0, NEW clockwise, clockwise > 0 <=> s = 1,
         Stores(p, q, y), Stores(q, r, y)
  PROVE  /\ OnTheLeft(p, q, clockwise) /\ OnTheLeft(q, r, clockwise) =>
               FirstColumn(p, q, y) = q[1] /\ FirstColumn(q, r, y) = q[1]
         /\ OnTheRight(p, q, clockwise) /\ OnTheRight(q, r, clockwise) =>
               LastColumn(p, q, y) = q[1] /\ LastColumn(q, r, y) = q[1]
<1>1. /\ p[1] \in Int /\ p[2] \in Int /\ q[1] \in Int /\ q[2] \in Int /\ r[1] \in Int /\ r[2] \in Int
  BY DEF Points
<1>2. PICK a \in Int, b \in Int, c \in Int, d \in Int :
         a = q[1] - p[1] /\ b = q[2] - p[2] /\ c = r[1] - q[1] /\ d = r[2] - q[2]
  <2>1. q[1] - p[1] \in Int /\ q[2] - p[2] \in Int /\ r[1] - q[1] \in Int /\ r[2] - q[2] \in Int
    BY <1>1
  <2> QED BY <2>1
<1>3. Cross(p, q, r) = a * d - c * b
  <2>1. r[1] - p[1] = a + c /\ r[2] - p[2] = b + d
    BY <1>1, <1>2
  <2>2. Cross(p, q, r) = a * (b + d) - (a + c) * b
    BY <1>2, <2>1 DEF Cross
  <2> QED BY <2>2
<1>4. CASE p[2] # q[2] /\ q[2] # r[2]
  <2>1. /\ OnTheLeft(p, q, clockwise) /\ OnTheLeft(q, r, clockwise) => y = q[2]
        /\ OnTheRight(p, q, clockwise) /\ OnTheRight(q, r, clockwise) => y = q[2]
    BY <1>1, <1>4, SideOf, StoresColumn
  <2>2. y = q[2] => /\ FirstColumn(p, q, y) = q[1] /\ FirstColumn(q, r, y) = q[1]
                    /\ LastColumn(p, q, y) = q[1] /\ LastColumn(q, r, y) = q[1]
    BY <1>4, StoresColumn
  <2> QED BY <2>1, <2>2
<1>5. CASE p[2] = q[2] /\ q[2] # r[2]
  <2>1. y = q[2] /\ FirstColumn(q, r, y) = q[1] /\ LastColumn(q, r, y) = q[1]
    BY <1>5, StoresColumn DEF Stores
  <2>2. s * (a * d) > 0
    <3>1. b = 0
      BY <1>1, <1>2, <1>5
    <3>2. Cross(p, q, r) = a * d
      BY <1>3, <3>1
    <3> QED BY <3>2
  <2>3. a * (s * d) > 0
    BY <2>2
  <2>4. OnTheLeft(q, r, clockwise) => a < 0
    <3>1. OnTheLeft(q, r, clockwise) => s * d < 0
      BY <1>2, <1>5, SideOf
    <3> SUFFICES ASSUME s * d < 0, a >= 0 PROVE FALSE
      BY <3>1
    <3>2. a * (s * d) <= 0
      <4>1. s * d \in Int
        OBVIOUS
      <4> QED BY <4>1, ProductSign
    <3> QED BY <2>3, <3>2
  <2>5. OnTheRight(q, r, clockwise) => a > 0
    <3>1. OnTheRight(q, r, clockwise) => s * d > 0
      BY <1>2, <1>5, SideOf
    <3> SUFFICES ASSUME s * d > 0, a <= 0 PROVE FALSE
      BY <3>1
    <3>2. a * (s * d) <= 0
      <4>1. s * d \in Int
        OBVIOUS
      <4> QED BY <4>1, ProductSign
    <3> QED BY <2>3, <3>2
  <2>6. FirstColumn(p, q, y) = Min({p[1], q[1]}) /\ LastColumn(p, q, y) = Max({p[1], q[1]})
    BY <1>5 DEF FirstColumn, LastColumn
  <2>7. /\ Min({p[1], q[1]}) = IF p[1] <= q[1] THEN p[1] ELSE q[1]
        /\ Max({p[1], q[1]}) = IF p[1] <= q[1] THEN q[1] ELSE p[1]
    BY <1>1, OfTwo
  <2>8. /\ a < 0 => FirstColumn(p, q, y) = q[1]
        /\ a > 0 => LastColumn(p, q, y) = q[1]
    BY <1>1, <1>2, <2>6, <2>7
  <2> QED BY <2>1, <2>4, <2>5, <2>8
<1>6. CASE p[2] # q[2] /\ q[2] = r[2]
  <2>1. y = q[2] /\ FirstColumn(p, q, y) = q[1] /\ LastColumn(p, q, y) = q[1]
    BY <1>6, StoresColumn DEF Stores
  <2>2. s * (c * b) < 0
    <3>1. d = 0
      BY <1>1, <1>2, <1>6
    <3>2. Cross(p, q, r) = -(c * b)
      BY <1>3, <3>1
    <3> QED BY <3>2
  <2>3. c * (s * b) < 0
    BY <2>2
  <2>4. OnTheLeft(p, q, clockwise) => c > 0
    <3>1. OnTheLeft(p, q, clockwise) => s * b < 0
      BY <1>2, <1>6, SideOf
    <3> SUFFICES ASSUME s * b < 0, c <= 0 PROVE FALSE
      BY <3>1
    <3>2. c * (s * b) >= 0
      <4>1. -(s * b) \in Int /\ -c \in Int
        OBVIOUS
      <4>2. (-c) * (-(s * b)) >= 0
        BY <4>1, ProductSign
      <4> QED BY <4>2
    <3> QED BY <2>3, <3>2
  <2>5. OnTheRight(p, q, clockwise) => c < 0
    <3>1. OnTheRight(p, q, clockwise) => s * b > 0
      BY <1>2, <1>6, SideOf
    <3> SUFFICES ASSUME s * b > 0, c >= 0 PROVE FALSE
      BY <3>1
    <3>2. c * (s * b) >= 0
      <4>1. s * b \in Int
        OBVIOUS
      <4> QED BY <4>1, ProductSign
    <3> QED BY <2>3, <3>2
  <2>6. FirstColumn(q, r, y) = Min({q[1], r[1]}) /\ LastColumn(q, r, y) = Max({q[1], r[1]})
    BY <1>6 DEF FirstColumn, LastColumn
  <2>7. /\ Min({q[1], r[1]}) = IF q[1] <= r[1] THEN q[1] ELSE r[1]
        /\ Max({q[1], r[1]}) = IF q[1] <= r[1] THEN r[1] ELSE q[1]
    BY <1>1, OfTwo
  <2>8. /\ c > 0 => FirstColumn(q, r, y) = q[1]
        /\ c < 0 => LastColumn(q, r, y) = q[1]
    BY <1>1, <1>2, <2>6, <2>7
  <2> QED BY <2>1, <2>4, <2>5, <2>8
<1>7. CASE p[2] = q[2] /\ q[2] = r[2]
  <2>1. b = 0 /\ d = 0
    BY <1>1, <1>2, <1>7
  <2>2. Cross(p, q, r) = 0
    BY <1>3, <2>1
  <2> QED BY <2>2
<1> QED BY <1>4, <1>5, <1>6, <1>7

\* The sides of a triangle in a row: whatever edge stores one, its column is there in the end.
LEMMA SidesAre ==
  ASSUME NEW points, Len(points) = 3, NEW a \in Points, NEW b \in Points, NEW c \in Points,
         points[1] = a, points[2] = b, points[3] = c,
         Following(points, 1) = b, Following(points, 2) = c, Following(points, 3) = a,
         NEW s \in {-1, 1}, s * Cross(a, b, c) > 0, NEW clockwise, clockwise > 0 <=> s = 1,
         NEW garbage, NEW y \in 0 .. GL_height - 1
  PROVE  LET spans == Spans(points, clockwise, garbage)
         IN \A e \in {<<a, b>>, <<b, c>>, <<c, a>>} : Stores(e[1], e[2], y) =>
               /\ OnTheLeft(e[1], e[2], clockwise) => spans.left[y] = FirstColumn(e[1], e[2], y)
               /\ OnTheRight(e[1], e[2], clockwise) => spans.right[y] = LastColumn(e[1], e[2], y)
<1> DEFINE any == [x \in 0 .. GL_height - 1 |-> garbage]
           l1 == LeftAfter(any, a, b, clockwise)
           l2 == LeftAfter(l1, b, c, clockwise)
           l3 == LeftAfter(l2, c, a, clockwise)
           r1 == RightAfter(any, a, b, clockwise)
           r2 == RightAfter(r1, b, c, clockwise)
           r3 == RightAfter(r2, c, a, clockwise)
<1>1. /\ DOMAIN any = 0 .. GL_height - 1 /\ any = [x \in DOMAIN any |-> any[x]]
      /\ DOMAIN l1 = DOMAIN any /\ l1 = [x \in DOMAIN l1 |-> l1[x]]
      /\ DOMAIN l2 = DOMAIN l1 /\ l2 = [x \in DOMAIN l2 |-> l2[x]]
      /\ DOMAIN l3 = DOMAIN l2
      /\ DOMAIN r1 = DOMAIN any /\ r1 = [x \in DOMAIN r1 |-> r1[x]]
      /\ DOMAIN r2 = DOMAIN r1 /\ r2 = [x \in DOMAIN r2 |-> r2[x]]
      /\ DOMAIN r3 = DOMAIN r2
  BY DEF LeftAfter, RightAfter
<1>2. /\ l1[y] = IF OnTheLeft(a, b, clockwise) /\ Stores(a, b, y) THEN FirstColumn(a, b, y) ELSE any[y]
      /\ l2[y] = IF OnTheLeft(b, c, clockwise) /\ Stores(b, c, y) THEN FirstColumn(b, c, y) ELSE l1[y]
      /\ l3[y] = IF OnTheLeft(c, a, clockwise) /\ Stores(c, a, y) THEN FirstColumn(c, a, y) ELSE l2[y]
  <2>1. y \in DOMAIN any /\ y \in DOMAIN l1 /\ y \in DOMAIN l2
    BY <1>1
  <2> HIDE DEF any
  <2> QED BY <2>1 DEF LeftAfter
<1>3. /\ r1[y] = IF OnTheRight(a, b, clockwise) /\ Stores(a, b, y) THEN LastColumn(a, b, y) ELSE any[y]
      /\ r2[y] = IF OnTheRight(b, c, clockwise) /\ Stores(b, c, y) THEN LastColumn(b, c, y) ELSE r1[y]
      /\ r3[y] = IF OnTheRight(c, a, clockwise) /\ Stores(c, a, y) THEN LastColumn(c, a, y) ELSE r2[y]
  <2>1. y \in DOMAIN any /\ y \in DOMAIN r1 /\ y \in DOMAIN r2
    BY <1>1
  <2> HIDE DEF any
  <2> QED BY <2>1 DEF RightAfter
<1>4. any = [x \in 0 .. GL_height - 1 |-> garbage]
  OBVIOUS
<1>5. /\ WithEdge([left |-> any, right |-> any], a, b, clockwise) = [left |-> l1, right |-> r1]
      /\ WithEdge([left |-> l1, right |-> r1], b, c, clockwise) = [left |-> l2, right |-> r2]
      /\ WithEdge([left |-> l2, right |-> r2], c, a, clockwise) = [left |-> l3, right |-> r3]
  <2> HIDE DEF any
  <2> DEFINE x1 == LeftAfter(any, a, b, clockwise)
             y1 == RightAfter(any, a, b, clockwise)
  <2>1. WithEdge([left |-> any, right |-> any], a, b, clockwise) = [left |-> l1, right |-> r1]
    BY <1>1, EdgeStores
  <2>2. \A f, g : f = [x \in DOMAIN f |-> f[x]] /\ g = [x \in DOMAIN g |-> g[x]] =>
           /\ WithEdge([left |-> f, right |-> g], b, c, clockwise)
              = [left |-> LeftAfter(f, b, c, clockwise), right |-> RightAfter(g, b, c, clockwise)]
           /\ WithEdge([left |-> f, right |-> g], c, a, clockwise)
              = [left |-> LeftAfter(f, c, a, clockwise), right |-> RightAfter(g, c, a, clockwise)]
    BY EdgeStores
  <2> QED BY <1>1, <2>1, <2>2
<1>6. Spans(points, clockwise, garbage) = [left |-> l3, right |-> r3]
  <2> HIDE DEF any, l1, l2, l3, r1, r2, r3
  <2>1. PICK x1, x2, x3 :
           /\ x1 = [left |-> l1, right |-> r1] /\ x2 = [left |-> l2, right |-> r2]
           /\ x3 = [left |-> l3, right |-> r3]
    OBVIOUS
  <2>2. /\ x1 = WithEdge([left |-> any, right |-> any], points[1], Following(points, 1), clockwise)
        /\ x2 = WithEdge(x1, points[2], Following(points, 2), clockwise)
        /\ x3 = WithEdge(x2, points[3], Following(points, 3), clockwise)
    BY <1>5, <2>1
  <2>3. Spans(points, clockwise, garbage) = x3
    BY <1>4, <2>2, SpansOfThree
  <2> QED BY <2>1, <2>3
<1> HIDE DEF any, l1, l2, l3, r1, r2, r3
<1>7. y \in Int
  BY ScreenSizes
<1>8. s * Cross(b, c, a) > 0 /\ s * Cross(c, a, b) > 0
  BY CrossTurns
<1>9. /\ Stores(a, b, y) /\ Stores(b, c, y) =>
            /\ OnTheLeft(a, b, clockwise) /\ OnTheLeft(b, c, clockwise) => FirstColumn(a, b, y) = FirstColumn(b, c, y)
            /\ OnTheRight(a, b, clockwise) /\ OnTheRight(b, c, clockwise) => LastColumn(a, b, y) = LastColumn(b, c, y)
      /\ Stores(b, c, y) /\ Stores(c, a, y) =>
            /\ OnTheLeft(b, c, clockwise) /\ OnTheLeft(c, a, clockwise) => FirstColumn(b, c, y) = FirstColumn(c, a, y)
            /\ OnTheRight(b, c, clockwise) /\ OnTheRight(c, a, clockwise) => LastColumn(b, c, y) = LastColumn(c, a, y)
      /\ Stores(c, a, y) /\ Stores(a, b, y) =>
            /\ OnTheLeft(c, a, clockwise) /\ OnTheLeft(a, b, clockwise) => FirstColumn(c, a, y) = FirstColumn(a, b, y)
            /\ OnTheRight(c, a, clockwise) /\ OnTheRight(a, b, clockwise) => LastColumn(c, a, y) = LastColumn(a, b, y)
  <2>1. ASSUME Stores(a, b, y), Stores(b, c, y)
        PROVE  /\ OnTheLeft(a, b, clockwise) /\ OnTheLeft(b, c, clockwise) => FirstColumn(a, b, y) = FirstColumn(b, c, y)
               /\ OnTheRight(a, b, clockwise) /\ OnTheRight(b, c, clockwise) => LastColumn(a, b, y) = LastColumn(b, c, y)
    BY <1>7, <2>1, SidesAgree
  <2>2. ASSUME Stores(b, c, y), Stores(c, a, y)
        PROVE  /\ OnTheLeft(b, c, clockwise) /\ OnTheLeft(c, a, clockwise) => FirstColumn(b, c, y) = FirstColumn(c, a, y)
               /\ OnTheRight(b, c, clockwise) /\ OnTheRight(c, a, clockwise) => LastColumn(b, c, y) = LastColumn(c, a, y)
    BY <1>7, <1>8, <2>2, SidesAgree
  <2>3. ASSUME Stores(c, a, y), Stores(a, b, y)
        PROVE  /\ OnTheLeft(c, a, clockwise) /\ OnTheLeft(a, b, clockwise) => FirstColumn(c, a, y) = FirstColumn(a, b, y)
               /\ OnTheRight(c, a, clockwise) /\ OnTheRight(a, b, clockwise) => LastColumn(c, a, y) = LastColumn(a, b, y)
    BY <1>7, <1>8, <2>3, SidesAgree
  <2> QED BY <2>1, <2>2, <2>3
<1>10. /\ Stores(a, b, y) => /\ OnTheLeft(a, b, clockwise) => l3[y] = FirstColumn(a, b, y)
                             /\ OnTheRight(a, b, clockwise) => r3[y] = LastColumn(a, b, y)
       /\ Stores(b, c, y) => /\ OnTheLeft(b, c, clockwise) => l3[y] = FirstColumn(b, c, y)
                             /\ OnTheRight(b, c, clockwise) => r3[y] = LastColumn(b, c, y)
       /\ Stores(c, a, y) => /\ OnTheLeft(c, a, clockwise) => l3[y] = FirstColumn(c, a, y)
                             /\ OnTheRight(c, a, clockwise) => r3[y] = LastColumn(c, a, y)
  BY <1>2, <1>3, <1>9
<1> QED BY <1>6, <1>10

-------------------------------------------------------------------------------
(* Filled triangles: what is sent.                                         *)

\* Which way a triangle turns is the sign at each of its corners.
LEMMA ClockwiseIs ==
  ASSUME NEW points \in Triangles
  PROVE  /\ Cross(points[1], points[2], points[3]) \in Int
         /\ Clockwise(points) = 3 * Cross(points[1], points[2], points[3])
<1> DEFINE a == points[1]
           b == points[2]
           c == points[3]
           g == [i \in 1 .. Len(points) |->
                    Cross(points[i], Following(points, i),
                          Following(points, IF i = Len(points) THEN 1 ELSE i + 1))]
<1>1. /\ Len(points) = 3 /\ a \in Points /\ b \in Points /\ c \in Points
      /\ Following(points, 1) = b /\ Following(points, 2) = c /\ Following(points, 3) = a
  BY TriangleIs
<1>2. DOMAIN g = {1, 2, 3}
  <2>1. \A i : i \in 1 .. 3 <=> i \in {1, 2, 3}
    OBVIOUS
  <2> QED BY <1>1, <2>1
<1>3. g[1] = Cross(a, b, c) /\ g[2] = Cross(b, c, a) /\ g[3] = Cross(c, a, b)
  BY <1>1
<1>4. Clockwise(points) = Total(g)
  BY DEF Clockwise, Total
<1> HIDE DEF a, b, c, g
<1>5. Cross(a, b, c) \in Int /\ Cross(b, c, a) = Cross(a, b, c) /\ Cross(c, a, b) = Cross(a, b, c)
  BY <1>1, CrossTurns
<1>6. PICK k \in Int : k = Cross(a, b, c)
  BY <1>5
<1>7. Total(g) = k + k + k
  BY <1>2, <1>3, <1>5, <1>6, SumOfThree
<1>8. k + k + k = 3 * k
  OBVIOUS
<1> QED BY <1>4, <1>5, <1>6, <1>7, <1>8 DEF a, b, c

\* The columns that an edge stores are between its ends.
LEMMA StoredColumns ==
  ASSUME NEW p \in Points, NEW q \in Points, NEW y \in Int, Stores(p, q, y)
  PROVE  /\ FirstColumn(p, q, y) \in Int /\ LastColumn(p, q, y) \in Int
         /\ \A n \in Int : p[1] \in 0 .. n /\ q[1] \in 0 .. n =>
               FirstColumn(p, q, y) \in 0 .. n /\ LastColumn(p, q, y) \in 0 .. n
<1>1. p[1] \in Int /\ q[1] \in Int /\ p[2] \in Int /\ q[2] \in Int
  BY DEF Points
<1>2. PICK l \in Int, h \in Int :
         /\ l = Min({p[1], q[1]}) /\ h = Max({p[1], q[1]})
         /\ l = (IF p[1] <= q[1] THEN p[1] ELSE q[1]) /\ h = (IF p[1] <= q[1] THEN q[1] ELSE p[1])
  BY <1>1, OfTwo
<1>3. /\ FirstColumn(p, q, y) \in Int /\ l <= FirstColumn(p, q, y) /\ FirstColumn(p, q, y) <= h
      /\ LastColumn(p, q, y) \in Int /\ l <= LastColumn(p, q, y) /\ LastColumn(p, q, y) <= h
  <2>1. CASE p[2] = q[2]
    BY <1>1, <1>2, <2>1 DEF FirstColumn, LastColumn
  <2>2. CASE p[2] # q[2]
    <3>1. PICK c : c = EdgeColumn(p, q, y)
      OBVIOUS
    <3>2. y \in RowsOf(p, q)
      BY <2>2, StoresColumn
    <3>3. c \in l .. h
      BY <1>2, <2>2, <3>1, <3>2, EdgeColumnIsNear
    <3> QED BY <1>2, <2>2, <3>1, <3>3 DEF FirstColumn, LastColumn
  <2> QED BY <2>1, <2>2
<1>4. ASSUME NEW n \in Int, p[1] \in 0 .. n, q[1] \in 0 .. n
      PROVE  FirstColumn(p, q, y) \in 0 .. n /\ LastColumn(p, q, y) \in 0 .. n
  <2>1. 0 <= l /\ h <= n
    BY <1>1, <1>2, <1>4
  <2> QED BY <1>2, <1>3, <2>1
<1> QED BY <1>3, <1>4

\* What is inside of an edge is on the inner side of what it stores.
LEMMA WithinItsSide ==
  ASSUME NEW p \in Points, NEW q \in Points, NEW y \in Int, NEW x \in Int, Stores(p, q, y),
         NEW s \in {-1, 1}, NEW clockwise, clockwise > 0 <=> s = 1,
         s * Cross(p, q, <<x, y>>) > 0
  PROVE  /\ OnTheLeft(p, q, clockwise) => FirstColumn(p, q, y) <= x
         /\ OnTheRight(p, q, clockwise) => x <= LastColumn(p, q, y)
<1>1. p[1] \in Int /\ q[1] \in Int /\ p[2] \in Int /\ q[2] \in Int
  BY DEF Points
<1>2. p[2] # q[2]
  <2> SUFFICES ASSUME p[2] = q[2] PROVE FALSE
    OBVIOUS
  <2>1. y - p[2] = 0 /\ q[2] - p[2] = 0
    BY <1>1 DEF Stores
  <2>2. PICK d \in Int, e \in Int : d = q[1] - p[1] /\ e = x - p[1]
    <3>1. q[1] - p[1] \in Int /\ x - p[1] \in Int
      BY <1>1
    <3> QED BY <3>1
  <2>3. Cross(p, q, <<x, y>>) = d * 0 - e * 0
    BY <2>1, <2>2 DEF Cross
  <2>4. Cross(p, q, <<x, y>>) = 0
    BY <2>3
  <2> QED BY <2>4
<1>3. PICK c : c = EdgeColumn(p, q, y)
  OBVIOUS
<1>4. /\ y \in RowsOf(p, q) /\ FirstColumn(p, q, y) = c /\ LastColumn(p, q, y) = c
  BY <1>2, <1>3, StoresColumn
<1>5. c \in Int
  BY <1>2, <1>3, <1>4, EdgeColumnIsNear
<1>6. s * (q[2] - p[2]) \in Int
  BY <1>1
<1>7. ASSUME OnTheLeft(p, q, clockwise) PROVE c <= x
  <2>1. s * (q[2] - p[2]) < 0
    BY <1>2, <1>7, SideOf
  <2>2. 1 * (s * (q[2] - p[2])) < 0
    BY <1>6, <2>1
  <2>3. 1 * (x - c) >= 0
    BY <1>2, <1>3, <1>4, <2>2, BesideTheColumn
  <2> QED BY <1>5, <2>3
<1>8. ASSUME OnTheRight(p, q, clockwise) PROVE x <= c
  <2>1. s * (q[2] - p[2]) > 0
    BY <1>2, <1>8, SideOf
  <2>2. PICK t \in {-1, 1} : t = -1
    OBVIOUS
  <2>3. t * (s * (q[2] - p[2])) < 0
    BY <1>6, <2>1, <2>2
  <2>4. t * (x - c) >= 0
    BY <1>2, <1>3, <1>4, <2>3, BesideTheColumn
  <2> QED BY <1>5, <2>2, <2>4
<1> QED BY <1>4, <1>7, <1>8

\* What is on the inner side of what an edge stores is beside the edge.
LEMMA BesideItsEdge ==
  ASSUME NEW p \in Points, NEW q \in Points, p[2] # q[2], NEW y \in Int, NEW x \in Int, Stores(p, q, y),
         NEW s \in {-1, 1}, NEW clockwise, clockwise > 0 <=> s = 1,
         OnTheLeft(p, q, clockwise) => FirstColumn(p, q, y) <= x,
         OnTheRight(p, q, clockwise) => x <= LastColumn(p, q, y)
  PROVE  Beside(s, p, q, <<x, y>>)
<1>1. p[1] \in Int /\ q[1] \in Int /\ p[2] \in Int /\ q[2] \in Int
  BY DEF Points
<1>2. PICK c : c = EdgeColumn(p, q, y)
  OBVIOUS
<1>3. /\ y \in RowsOf(p, q) /\ FirstColumn(p, q, y) = c /\ LastColumn(p, q, y) = c
  BY <1>2, StoresColumn
<1>4. c \in Int
  BY <1>2, <1>3, EdgeColumnIsNear
<1>5. s * (q[2] - p[2]) \in Int
  BY <1>1
<1>6. CASE OnTheLeft(p, q, clockwise)
  <2>1. 1 * (s * (q[2] - p[2])) < 0
    BY <1>5, <1>6, SideOf
  <2>2. 1 * (x - c) >= 0
    BY <1>3, <1>4, <1>6
  <2> QED BY <1>2, <1>3, <2>1, <2>2, BesideTheColumn DEF Beside
<1>7. CASE OnTheRight(p, q, clockwise)
  <2>1. PICK t \in {-1, 1} : t = -1
    OBVIOUS
  <2>2. t * (s * (q[2] - p[2])) < 0
    BY <1>5, <1>7, <2>1, SideOf
  <2>3. t * (x - c) >= 0
    BY <1>3, <1>4, <1>7, <2>1
  <2> QED BY <1>2, <1>3, <2>2, <2>3, BesideTheColumn DEF Beside
<1> QED BY <1>6, <1>7, SideOf

\* A row of a filled triangle: what is inside is filled, and what is filled is not far outside.
LEMMA RowIsFilled ==
  ASSUME NEW points, Len(points) = 3, NEW a \in Points, NEW b \in Points, NEW c \in Points,
         points[1] = a, points[2] = b, points[3] = c,
         Following(points, 1) = b, Following(points, 2) = c, Following(points, 3) = a,
         NEW s \in {-1, 1}, s * Cross(a, b, c) > 0, NEW clockwise, clockwise > 0 <=> s = 1,
         NEW garbage, NEW y \in 0 .. GL_height - 1, FGA_mode = GL_MODE_OLED => y # 0,
         NEW left, NEW right, left = Spans(points, clockwise, garbage).left[y],
         right = Spans(points, clockwise, garbage).right[y]
  PROVE  /\ Spanned(a, b, c, y) =>
               /\ left \in Int /\ right \in Int
               /\ \A n \in Int : a[1] \in 0 .. n /\ b[1] \in 0 .. n /\ c[1] \in 0 .. n =>
                     left \in 0 .. n /\ right \in 0 .. n
         /\ \A x \in Int : s * Cross(a, b, <<x, y>>) > 0 /\ s * Cross(b, c, <<x, y>>) > 0
                           /\ s * Cross(c, a, <<x, y>>) > 0 =>
               Spanned(a, b, c, y) /\ x \in left .. right
         /\ \A x \in Int : Spanned(a, b, c, y) /\ x \in left .. right =>
               /\ 2 * (s * Cross(a, b, <<x, y>>)) > -3 * Steps(a, b)
               /\ 2 * (s * Cross(b, c, <<x, y>>)) > -3 * Steps(b, c)
               /\ 2 * (s * Cross(c, a, <<x, y>>)) > -3 * Steps(c, a)
<1> DEFINE Edges == {<<a, b>>, <<b, c>>, <<c, a>>}
<1>1. y \in Int
  BY ScreenSizes
<1>2. s * Cross(b, c, a) > 0 /\ s * Cross(c, a, b) > 0
  BY CrossTurns
<1>3. \A e \in Edges : Stores(e[1], e[2], y) =>
         /\ OnTheLeft(e[1], e[2], clockwise) => left = FirstColumn(e[1], e[2], y)
         /\ OnTheRight(e[1], e[2], clockwise) => right = LastColumn(e[1], e[2], y)
  BY SidesAre
<1>4. \A e \in Edges : e[1] \in {a, b, c} /\ e[2] \in {a, b, c} /\ e[1] \in Points /\ e[2] \in Points
  OBVIOUS
<1>5. <<a, b>> \in Edges /\ <<b, c>> \in Edges /\ <<c, a>> \in Edges
  OBVIOUS
<1> HIDE DEF Edges
<1>6. ASSUME Spanned(a, b, c, y)
      PROVE  /\ \E e \in Edges : OnTheLeft(e[1], e[2], clockwise) /\ Stores(e[1], e[2], y)
             /\ \E e \in Edges : OnTheRight(e[1], e[2], clockwise) /\ Stores(e[1], e[2], y)
  BY <1>1, <1>5, <1>6, BothSidesStored
<1>7. ASSUME Spanned(a, b, c, y)
      PROVE  /\ left \in Int /\ right \in Int
             /\ \A n \in Int : a[1] \in 0 .. n /\ b[1] \in 0 .. n /\ c[1] \in 0 .. n =>
                   left \in 0 .. n /\ right \in 0 .. n
  <2>1. PICK e \in Edges : OnTheLeft(e[1], e[2], clockwise) /\ Stores(e[1], e[2], y)
    BY <1>6, <1>7
  <2>2. PICK g \in Edges : OnTheRight(g[1], g[2], clockwise) /\ Stores(g[1], g[2], y)
    BY <1>6, <1>7
  <2>3. left = FirstColumn(e[1], e[2], y) /\ right = LastColumn(g[1], g[2], y)
    BY <1>3, <2>1, <2>2
  <2>4. FirstColumn(e[1], e[2], y) \in Int /\ LastColumn(g[1], g[2], y) \in Int
    BY <1>1, <1>4, <2>1, <2>2, StoredColumns
  <2>5. ASSUME NEW n \in Int, a[1] \in 0 .. n, b[1] \in 0 .. n, c[1] \in 0 .. n
        PROVE  left \in 0 .. n /\ right \in 0 .. n
    <3>1. e[1][1] \in 0 .. n /\ e[2][1] \in 0 .. n /\ g[1][1] \in 0 .. n /\ g[2][1] \in 0 .. n
      BY <1>4, <2>5
    <3> QED BY <1>1, <1>4, <2>1, <2>2, <2>3, <3>1, StoredColumns
  <2> QED BY <2>3, <2>4, <2>5
<1>8. ASSUME NEW x \in Int, s * Cross(a, b, <<x, y>>) > 0, s * Cross(b, c, <<x, y>>) > 0,
             s * Cross(c, a, <<x, y>>) > 0
      PROVE  Spanned(a, b, c, y) /\ x \in left .. right
  <2>1. <<x, y>> \in Points /\ <<x, y>>[2] = y
    BY <1>1 DEF Points
  <2>2. Spanned(a, b, c, y)
    BY <1>8, <2>1, InsideIsSpanned
  <2>3. \A e \in Edges : s * Cross(e[1], e[2], <<x, y>>) > 0
    BY <1>8 DEF Edges
  <2>4. left <= x
    <3>1. PICK e \in Edges : OnTheLeft(e[1], e[2], clockwise) /\ Stores(e[1], e[2], y)
      BY <1>6, <2>2
    <3>2. FirstColumn(e[1], e[2], y) <= x
      BY <1>1, <1>4, <2>3, <3>1, WithinItsSide
    <3> QED BY <1>3, <3>1, <3>2
  <2>5. x <= right
    <3>1. PICK e \in Edges : OnTheRight(e[1], e[2], clockwise) /\ Stores(e[1], e[2], y)
      BY <1>6, <2>2
    <3>2. x <= LastColumn(e[1], e[2], y)
      BY <1>1, <1>4, <2>3, <3>1, WithinItsSide
    <3> QED BY <1>3, <3>1, <3>2
  <2> QED BY <1>7, <2>2, <2>4, <2>5
<1>9. ASSUME NEW x \in Int, Spanned(a, b, c, y), x \in left .. right
      PROVE  /\ 2 * (s * Cross(a, b, <<x, y>>)) > -3 * Steps(a, b)
             /\ 2 * (s * Cross(b, c, <<x, y>>)) > -3 * Steps(b, c)
             /\ 2 * (s * Cross(c, a, <<x, y>>)) > -3 * Steps(c, a)
  <2>1. PICK z \in Points : z = <<x, y>> /\ z[2] = y
    <3>1. <<x, y>> \in Points /\ <<x, y>>[2] = y
      BY <1>1 DEF Points
    <3> QED BY <3>1
  <2>2. left <= x /\ x <= right
    BY <1>7, <1>9
  <2>3. ASSUME NEW e \in Edges, e[1][2] # e[2][2], y \in RowsOf(e[1], e[2])
        PROVE  Beside(s, e[1], e[2], z)
    <3>1. Stores(e[1], e[2], y)
      BY <2>3 DEF Stores
    <3>2. /\ OnTheLeft(e[1], e[2], clockwise) => FirstColumn(e[1], e[2], y) <= x
          /\ OnTheRight(e[1], e[2], clockwise) => x <= LastColumn(e[1], e[2], y)
      BY <1>3, <2>2, <3>1
    <3> QED BY <1>1, <1>4, <2>1, <2>3, <3>1, <3>2, BesideItsEdge
  <2>4. /\ a[2] # b[2] /\ z[2] \in RowsOf(a, b) => Beside(s, a, b, z)
        /\ b[2] # c[2] /\ z[2] \in RowsOf(b, c) => Beside(s, b, c, z)
        /\ c[2] # a[2] /\ z[2] \in RowsOf(c, a) => Beside(s, c, a, z)
    <3>1. /\ <<a, b>>[1] = a /\ <<a, b>>[2] = b /\ <<b, c>>[1] = b /\ <<b, c>>[2] = c
          /\ <<c, a>>[1] = c /\ <<c, a>>[2] = a
      OBVIOUS
    <3> QED BY <1>5, <2>1, <2>3, <3>1
  <2>5. Spanned(b, c, a, y) /\ Spanned(c, a, b, y)
    BY <1>9 DEF Spanned
  <2>6. 2 * (s * Cross(a, b, z)) > -3 * Steps(a, b)
    BY <1>9, <2>1, <2>4, NotFarOutside
  <2>7. 2 * (s * Cross(b, c, z)) > -3 * Steps(b, c)
    BY <1>2, <2>1, <2>4, <2>5, NotFarOutside
  <2>8. 2 * (s * Cross(c, a, z)) > -3 * Steps(c, a)
    BY <1>2, <2>1, <2>4, <2>5, NotFarOutside
  <2> QED BY <2>1, <2>6, <2>7, <2>8
<1> QED BY <1>7, <1>8, <1>9

LEMMA OfThree ==
  ASSUME NEW a \in Int, NEW b \in Int, NEW c \in Int
  PROVE  /\ Min({a, b, c}) \in Int /\ Max({a, b, c}) \in Int
         /\ \A y \in Int : y \in Min({a, b, c}) .. Max({a, b, c}) <=>
               (a <= y \/ b <= y \/ c <= y) /\ (a >= y \/ b >= y \/ c >= y)
<1> DEFINE S == {a, b, c}
<1>1. \E x \in S : \A y \in S : x <= y
  OBVIOUS
<1>2. \E x \in S : \A y \in S : x >= y
  OBVIOUS
<1>3. Min(S) \in S /\ \A y \in S : Min(S) <= y
  BY <1>1 DEF Min
<1>4. Max(S) \in S /\ \A y \in S : Max(S) >= y
  BY <1>2 DEF Max
<1> QED BY <1>3, <1>4

\* The pixels that filling sends, row by row.
LEMMA FilledPixels ==
  ASSUME NEW points \in Triangles, OnScreen(points), NEW culling, NEW garbage,
         ~Culled(culling, Clockwise(points)),
         NEW spans, spans = Spans(points, Clockwise(points), garbage)
  PROVE  \A z : z \in GL_fill_poly(points, "GL_POLY_FILL", culling, garbage) <=>
            /\ z = <<z[1], z[2]>> /\ z[2] \in Int
            /\ Spanned(points[1], points[2], points[3], z[2])
            /\ z[1] \in spans.left[z[2]] .. spans.right[z[2]]
<1> DEFINE a == points[1]
           b == points[2]
           c == points[3]
           P == GL_fill_poly(points, "GL_POLY_FILL", culling, garbage)
           heights == {points[i][2] : i \in 1 .. Len(points)}
<1>1. Len(points) = 3 /\ a \in Points /\ b \in Points /\ c \in Points
  BY TriangleIs
<1>2. a[2] \in Int /\ b[2] \in Int /\ c[2] \in Int
  BY <1>1 DEF Points
<1>3. Visible(points) = points /\ points # <<>>
  <2>1. Len(<<>>) = 0
    OBVIOUS
  <2> QED BY <1>1, <2>1 DEF Visible
<1>4. P = UNION {Window(spans.left[y], y, spans.right[y], y) : y \in Min(heights) .. Max(heights)}
  <2>1. P = Filled(points, "GL_POLY_FILL", culling, garbage)
    BY DEF GL_fill_poly, FGA_fill_poly
  <2> DEFINE visible == Visible(points)
             filling == Spans(visible, Clockwise(points), garbage)
             rows    == {visible[i][2] : i \in 1 .. Len(visible)}
  <2>2. Filled(points, "GL_POLY_FILL", culling, garbage)
        = UNION {Window(filling.left[y], y, filling.right[y], y) : y \in Min(rows) .. Max(rows)}
    BY <1>3 DEF Filled
  <2>3. filling = spans /\ rows = heights
    BY <1>3
  <2> HIDE DEF P, filling, rows, heights
  <2> QED BY <2>1, <2>2, <2>3
<1>5. heights = {a[2], b[2], c[2]}
  <2>1. \A i : i \in 1 .. 3 <=> i = 1 \/ i = 2 \/ i = 3
    OBVIOUS
  <2> QED BY <1>1, <2>1
<1> HIDE DEF P, heights
<1>6. /\ Min(heights) \in Int /\ Max(heights) \in Int
      /\ \A y \in Int : y \in Min(heights) .. Max(heights) <=> Spanned(a, b, c, y)
  <2> HIDE DEF a, b, c
  <2> QED BY <1>2, <1>5, OfThree DEF Spanned
<1>7. ASSUME NEW z
      PROVE  z \in P <=> /\ z = <<z[1], z[2]>> /\ z[2] \in Int /\ Spanned(a, b, c, z[2])
                         /\ z[1] \in spans.left[z[2]] .. spans.right[z[2]]
  <2>1. \A y \in Int : z \in Window(spans.left[y], y, spans.right[y], y) <=>
           z = <<z[1], z[2]>> /\ z[1] \in spans.left[y] .. spans.right[y] /\ z[2] = y
    <3>1. \A y \in Int : \A x : x \in y .. y <=> x = y
      OBVIOUS
    <3> QED BY <3>1 DEF Window
  <2>2. z \in P <=> \E y \in Min(heights) .. Max(heights) :
                       z \in Window(spans.left[y], y, spans.right[y], y)
    BY <1>4
  <2>3. \A y : y \in Min(heights) .. Max(heights) <=> y \in Int /\ Spanned(a, b, c, y)
    BY <1>6
  <2> HIDE DEF a, b, c
  <2> QED BY <2>1, <2>2, <2>3
<1> QED BY <1>7 DEF P

\* What filling sends is right, wherever it sends it.
Fills(points, P) ==
    LET rows == IF FGA_mode = GL_MODE_OLED THEN 1 .. GL_height - 1 ELSE 0 .. GL_height - 1
    IN \A r \in Screen : r[2] \in rows =>
        /\ InsideBy(points, r, 0) => r \in P
        /\ r \in P /\ Clockwise(points) # 0 => InsideBy(points, r, -3)

\* Which way a triangle turns, and what is inside of it, in terms of the sign.
LEMMA InsideIs ==
  ASSUME NEW points \in Triangles, NEW s \in {-1, 1}, SGN(Clockwise(points)) = s,
         NEW z \in Points, NEW n \in Int
  PROVE  InsideBy(points, z, n) <=>
            /\ 2 * (s * Cross(points[1], points[2], z)) > n * Steps(points[1], points[2])
            /\ 2 * (s * Cross(points[2], points[3], z)) > n * Steps(points[2], points[3])
            /\ 2 * (s * Cross(points[3], points[1], z)) > n * Steps(points[3], points[1])
<1> DEFINE a == points[1]
           b == points[2]
           c == points[3]
<1>1. /\ Len(points) = 3 /\ a \in Points /\ b \in Points /\ c \in Points
      /\ Following(points, 1) = b /\ Following(points, 2) = c /\ Following(points, 3) = a
  BY TriangleIs
<1>2. \A p \in Points, q \in Points : 2 * s * Cross(p, q, z) = 2 * (s * Cross(p, q, z))
  <2> SUFFICES ASSUME NEW p \in Points, NEW q \in Points
               PROVE  2 * s * Cross(p, q, z) = 2 * (s * Cross(p, q, z))
    OBVIOUS
  <2>1. PICK k \in Int : k = Cross(p, q, z)
    BY CrossTurns
  <2>2. 2 * s * k = 2 * (s * k)
    OBVIOUS
  <2> QED BY <2>1, <2>2
<1>3. \A i : i \in 1 .. 3 <=> i = 1 \/ i = 2 \/ i = 3
  OBVIOUS
<1>4. InsideBy(points, z, n) <=>
         \A i \in 1 .. 3 : 2 * s * Cross(points[i], Following(points, i), z)
                           > n * Steps(points[i], Following(points, i))
  BY <1>1 DEF InsideBy
<1>5. InsideBy(points, z, n) <=>
         /\ 2 * s * Cross(a, b, z) > n * Steps(a, b)
         /\ 2 * s * Cross(b, c, z) > n * Steps(b, c)
         /\ 2 * s * Cross(c, a, z) > n * Steps(c, a)
  <2> HIDE DEF a, b, c
  <2> QED BY <1>1, <1>3, <1>4 DEF a, b, c
<1> HIDE DEF a, b, c
<1>6. InsideBy(points, z, n) <=>
         /\ 2 * (s * Cross(a, b, z)) > n * Steps(a, b)
         /\ 2 * (s * Cross(b, c, z)) > n * Steps(b, c)
         /\ 2 * (s * Cross(c, a, z)) > n * Steps(c, a)
  BY <1>1, <1>2, <1>5
<1> QED BY <1>6 DEF a, b, c

LEMMA StepsExist ==
  ASSUME NEW p \in Points, NEW q \in Points
  PROVE  Steps(p, q) \in Nat
<1>1. p[1] \in Int /\ p[2] \in Int /\ q[1] \in Int /\ q[2] \in Int
  BY DEF Points
<1> QED BY <1>1 DEF Steps, Abs

\* Filling draws a triangle as it is, but for the first row of the panel; the adapter gets no
\* pixel of another place.
LEMMA FillingIsRight ==
  ASSUME NEW points \in Triangles, OnScreen(points), NEW culling, NEW garbage,
         ~Culled(culling, Clockwise(points)), FGA_mode \in {GL_MODE_OLED, GL_MODE_FGA},
         NEW P, P = GL_fill_poly(points, "GL_POLY_FILL", culling, garbage)
  PROVE  /\ Fills(points, P)
         /\ \A z \in P : z = <<z[1], z[2]>>
         /\ FGA_mode = GL_MODE_OLED \/ Clockwise(points) = 0 \/ P \subseteq Screen
<1> DEFINE clockwise == Clockwise(points)
           spans == Spans(points, clockwise, garbage)
<1>1. PICK a \in Points, b \in Points, c \in Points :
         a = points[1] /\ b = points[2] /\ c = points[3]
  BY TriangleIs
<1>2. /\ Len(points) = 3 /\ points[1] = a /\ points[2] = b /\ points[3] = c
      /\ Following(points, 1) = b /\ Following(points, 2) = c /\ Following(points, 3) = a
  BY <1>1, TriangleIs
<1>3. PICK k \in Int : k = Cross(a, b, c) /\ clockwise = 3 * k
  BY <1>1, ClockwiseIs
<1>4. \A z : z \in P <=> /\ z = <<z[1], z[2]>> /\ z[2] \in Int /\ Spanned(a, b, c, z[2])
                         /\ z[1] \in spans.left[z[2]] .. spans.right[z[2]]
  BY <1>2, FilledPixels
<1>5. GL_width \in Nat \ {0} /\ GL_height \in Nat \ {0}
  BY ScreenSizes
<1>6. /\ a[1] \in 0 .. GL_width - 1 /\ a[2] \in 0 .. GL_height - 1
      /\ b[1] \in 0 .. GL_width - 1 /\ b[2] \in 0 .. GL_height - 1
      /\ c[1] \in 0 .. GL_width - 1 /\ c[2] \in 0 .. GL_height - 1
  <2>1. code(a) = {} /\ code(b) = {} /\ code(c) = {}
    BY <1>2 DEF OnScreen
  <2>2. a \in Screen /\ b \in Screen /\ c \in Screen
    BY <2>1, PointOnScreen
  <2> QED BY <2>2 DEF Screen
<1>7. CASE k = 0
  <2>1. Clockwise(points) = 0 /\ SGN(Clockwise(points)) = 0
    BY <1>3, <1>7 DEF SGN
  <2>2. ASSUME NEW r \in Screen PROVE ~InsideBy(points, r, 0)
    <3>1. r \in Points
      BY <1>5, <2>2 DEF Screen, Points
    <3>2. Cross(a, b, r) \in Int /\ Steps(a, b) \in Int
      BY <3>1, CrossTurns, StepsExist
    <3>3. ~(2 * 0 * Cross(a, b, r) > 0 * Steps(a, b))
      BY <3>2
    <3> QED BY <1>2, <2>1, <3>3 DEF InsideBy
  <2> QED BY <1>4, <2>1, <2>2 DEF Fills
<1>8. CASE k # 0
  <2>1. PICK s \in {-1, 1} : s = SGN(clockwise) /\ (clockwise > 0 <=> s = 1) /\ s * Cross(a, b, c) > 0
    <3>1. /\ k > 0 => SGN(clockwise) = 1 /\ clockwise > 0
          /\ k < 0 => SGN(clockwise) = -1 /\ ~(clockwise > 0)
      <4> HIDE DEF clockwise
      <4> QED BY <1>3 DEF SGN
    <3>2. 1 * Cross(a, b, c) = k /\ -1 * Cross(a, b, c) = -k
      BY <1>3
    <3> HIDE DEF clockwise
    <3> QED BY <1>3, <1>8, <3>1, <3>2
  <2> HIDE DEF clockwise
  <2>2. ASSUME NEW y \in 0 .. GL_height - 1, FGA_mode = GL_MODE_OLED => y # 0
        PROVE  /\ Spanned(a, b, c, y) =>
                     /\ spans.left[y] \in Int /\ spans.right[y] \in Int
                     /\ \A n \in Int : a[1] \in 0 .. n /\ b[1] \in 0 .. n /\ c[1] \in 0 .. n =>
                           spans.left[y] \in 0 .. n /\ spans.right[y] \in 0 .. n
               /\ \A x \in Int : s * Cross(a, b, <<x, y>>) > 0 /\ s * Cross(b, c, <<x, y>>) > 0
                                 /\ s * Cross(c, a, <<x, y>>) > 0 =>
                     Spanned(a, b, c, y) /\ x \in spans.left[y] .. spans.right[y]
               /\ \A x \in Int : Spanned(a, b, c, y) /\ x \in spans.left[y] .. spans.right[y] =>
                     /\ 2 * (s * Cross(a, b, <<x, y>>)) > -3 * Steps(a, b)
                     /\ 2 * (s * Cross(b, c, <<x, y>>)) > -3 * Steps(b, c)
                     /\ 2 * (s * Cross(c, a, <<x, y>>)) > -3 * Steps(c, a)
    BY <1>2, <2>1, <2>2, RowIsFilled
  <2> HIDE DEF spans
  <2>3. ASSUME NEW r \in Screen, FGA_mode = GL_MODE_OLED => r[2] # 0
        PROVE  /\ InsideBy(points, r, 0) => r \in P
               /\ r \in P => InsideBy(points, r, -3)
    <3>1. r \in Points /\ r = <<r[1], r[2]>> /\ r[1] \in Int /\ r[2] \in 0 .. GL_height - 1
      BY <1>5 DEF Screen, Points
    <3>2. \A n \in Int : InsideBy(points, r, n) <=>
             /\ 2 * (s * Cross(a, b, r)) > n * Steps(a, b)
             /\ 2 * (s * Cross(b, c, r)) > n * Steps(b, c)
             /\ 2 * (s * Cross(c, a, r)) > n * Steps(c, a)
      BY <1>2, <2>1, <3>1, InsideIs DEF clockwise
    <3>3. ASSUME InsideBy(points, r, 0) PROVE r \in P
      <4>1. /\ Cross(a, b, r) \in Int /\ Cross(b, c, r) \in Int /\ Cross(c, a, r) \in Int
            /\ Steps(a, b) \in Int /\ Steps(b, c) \in Int /\ Steps(c, a) \in Int
        BY <3>1, CrossTurns, StepsExist
      <4>2. s * Cross(a, b, r) > 0 /\ s * Cross(b, c, r) > 0 /\ s * Cross(c, a, r) > 0
        <5>1. \A m \in Int : 0 * m = 0
          OBVIOUS
        <5>2. /\ 2 * (s * Cross(a, b, r)) > 0 /\ 2 * (s * Cross(b, c, r)) > 0
              /\ 2 * (s * Cross(c, a, r)) > 0
          BY <3>2, <3>3, <4>1, <5>1
        <5> QED BY <4>1, <5>2
      <4>3. Spanned(a, b, c, r[2]) /\ r[1] \in spans.left[r[2]] .. spans.right[r[2]]
        BY <2>2, <2>3, <3>1, <4>2
      <4> QED BY <1>4, <3>1, <4>3
    <3>4. ASSUME r \in P PROVE InsideBy(points, r, -3)
      <4>1. Spanned(a, b, c, r[2]) /\ r[1] \in spans.left[r[2]] .. spans.right[r[2]]
        BY <1>4, <3>4
      <4>2. /\ 2 * (s * Cross(a, b, r)) > -3 * Steps(a, b)
            /\ 2 * (s * Cross(b, c, r)) > -3 * Steps(b, c)
            /\ 2 * (s * Cross(c, a, r)) > -3 * Steps(c, a)
        BY <2>2, <2>3, <3>1, <4>1
      <4>3. PICK n \in Int : n = -3
        OBVIOUS
      <4>4. InsideBy(points, r, n)
        <5>1. \A m \in Nat : n * m = -3 * m
          BY <4>3
        <5> QED BY <3>2, <4>2, <5>1, StepsExist
      <4> QED BY <4>3, <4>4
    <3> QED BY <3>3, <3>4
  <2>4. Fills(points, P)
    <3>1. ASSUME NEW r \in Screen,
                 r[2] \in (IF FGA_mode = GL_MODE_OLED THEN 1 .. GL_height - 1 ELSE 0 .. GL_height - 1)
          PROVE  FGA_mode = GL_MODE_OLED => r[2] # 0
      BY <3>1
    <3> QED BY <2>3, <3>1 DEF Fills
  <2>5. ASSUME FGA_mode # GL_MODE_OLED PROVE P \subseteq Screen
    <3> SUFFICES ASSUME NEW z \in P PROVE z \in Screen
      OBVIOUS
    <3>1. /\ z = <<z[1], z[2]>> /\ z[2] \in Int /\ Spanned(a, b, c, z[2])
          /\ z[1] \in spans.left[z[2]] .. spans.right[z[2]]
      BY <1>4
    <3>2. z[2] \in 0 .. GL_height - 1
      BY <1>5, <1>6, <3>1 DEF Spanned
    <3>3. GL_width - 1 \in Int
      BY <1>5
    <3>4. spans.left[z[2]] \in 0 .. GL_width - 1 /\ spans.right[z[2]] \in 0 .. GL_width - 1
      BY <1>6, <2>2, <2>5, <3>1, <3>2, <3>3
    <3>5. z[1] \in 0 .. GL_width - 1
      BY <1>5, <3>1, <3>4
    <3> QED BY <3>1, <3>2, <3>5 DEF Screen
  <2> QED BY <1>4, <2>4, <2>5
<1> QED BY <1>3, <1>7, <1>8

-------------------------------------------------------------------------------
(* Figures: a line that is cut.                                            *)

\* How far a point that is i columns and j rows on the way leans to one side of a line
\* of X columns and Y rows.
Lean(X, Y, i, j) == X * j - Y * i

\* Near a line of X columns and Y rows: a cut in row v, of B rows and A columns, is at column k.
IsCut(X, Y, A, B, v, k, w) ==
    /\ X \in Nat /\ Y \in Nat /\ A \in Nat /\ B \in Nat \ {0} /\ v \in 0 .. B
    /\ k \in Int /\ w \in 0 .. B - 1 /\ A * v = k * B + w

\* A point between two others leans as they do, and the column that is rounded adds Y at most.
LEMMA CutLeans ==
  ASSUME NEW X, NEW Y, NEW A, NEW B, NEW v, NEW k, NEW w, IsCut(X, Y, A, B, v, k, w),
         NEW i \in Int, NEW j \in Int
  PROVE  /\ k \in 0 .. A
         /\ Lean(X, Y, i, j) \in Int /\ Lean(X, Y, i + A, j + B) \in Int
         /\ Lean(X, Y, i + k, j + v) \in Int
         /\ B * Lean(X, Y, i + k, j + v)
            = (B - v) * Lean(X, Y, i, j) + v * Lean(X, Y, i + A, j + B) + Y * w
<1>0. /\ X \in Nat /\ Y \in Nat /\ A \in Nat /\ B \in Nat \ {0} /\ v \in 0 .. B
      /\ k \in Int /\ w \in 0 .. B - 1 /\ A * v = k * B + w
  BY DEF IsCut
<1> USE <1>0
<1>1. k >= 0
  <2> SUFFICES ASSUME k < 0 PROVE FALSE
    OBVIOUS
  <2>1. k * B + B <= 0 * B /\ 0 * B = 0
    BY Multiples
  <2>2. A * v >= 0
    BY ProductSign
  <2> QED BY <2>1, <2>2
<1>2. k <= A
  <2> SUFFICES ASSUME A < k PROVE FALSE
    OBVIOUS
  <2>1. A * B + B <= k * B
    BY Multiples
  <2>2. A * (B - v) >= 0 /\ A * (B - v) = A * B - A * v
    BY ProductSign
  <2>3. A * B \in Int /\ A * v \in Int /\ k * B \in Int
    OBVIOUS
  <2> QED BY <2>1, <2>2, <2>3
<1>3. /\ Lean(X, Y, i, j) \in Int /\ Lean(X, Y, i + A, j + B) \in Int
      /\ Lean(X, Y, i + k, j + v) \in Int
  BY DEF Lean
<1>4. B * Lean(X, Y, i + k, j + v)
      = (B - v) * Lean(X, Y, i, j) + v * Lean(X, Y, i + A, j + B) + Y * w
  <2> DEFINE l == X * j - Y * i
  <2>1. l \in Int /\ w = A * v - k * B
    OBVIOUS
  <2>2. /\ Lean(X, Y, i + k, j + v) = l + (X * v - Y * k)
        /\ Lean(X, Y, i + A, j + B) = l + (X * B - Y * A)
        /\ Lean(X, Y, i, j) = l
    BY DEF Lean
  <2> HIDE DEF l
  <2>3. B * (l + (X * v - Y * k))
        = (B - v) * l + v * (l + (X * B - Y * A)) + Y * (A * v - k * B)
    BY <2>1
  <2> QED BY <2>1, <2>2, <2>3
<1> QED BY <1>1, <1>2, <1>3, <1>4

LEMMA CutBounds ==
  ASSUME NEW Y \in Nat, NEW B \in Nat \ {0}, NEW v \in 0 .. B, NEW w \in 0 .. B - 1,
         NEW l \in Int, NEW m \in Int, NEW n \in Int, B * n = (B - v) * l + v * m + Y * w,
         NEW lo \in Int, NEW hi \in Int, lo <= l, l <= hi, lo <= m, m <= hi
  PROVE  lo <= n /\ n <= hi + Y
<1>1. /\ (B - v) * l \in Int /\ v * m \in Int /\ Y * w \in Int /\ lo * B \in Int /\ hi * B \in Int
      /\ n * B = B * n /\ Y * B \in Int
  OBVIOUS
<1>2. /\ (B - v) * (l - lo) >= 0 /\ v * (m - lo) >= 0 /\ Y * w >= 0
      /\ (B - v) * (hi - l) >= 0 /\ v * (hi - m) >= 0 /\ Y * (B - w) >= 0
  BY ProductSign
<1>3. /\ (B - v) * (l - lo) + v * (m - lo) = (B - v) * l + v * m - lo * B
      /\ (B - v) * (hi - l) + v * (hi - m) = hi * B - ((B - v) * l + v * m)
      /\ Y * (B - w) = Y * B - Y * w
  OBVIOUS
<1>4. lo * B <= n * B
  BY <1>1, <1>2, <1>3
<1>5. n * B <= (hi + Y) * B
  <2>1. (hi + Y) * B = hi * B + Y * B
    OBVIOUS
  <2> QED BY <1>1, <1>2, <1>3, <2>1
<1>6. ~(n < lo)
  <2>1. n < lo => n * B + B <= lo * B
    BY Multiples
  <2> QED BY <1>1, <1>4, <2>1
<1>7. ~(hi + Y < n)
  <2>1. hi + Y < n => (hi + Y) * B + B <= n * B
    BY Multiples
  <2>2. (hi + Y) * B \in Int
    OBVIOUS
  <2> QED BY <1>1, <1>5, <2>1, <2>2
<1> QED BY <1>6, <1>7

\* All of a cut, in numbers.  A point g, h right on the line that is beyond the row of the cut is
\* not before its column, and one that is before the row is not beyond the column.
LEMMA CutNumbers ==
  ASSUME NEW X, NEW Y, NEW A, NEW B, NEW v, NEW k, NEW w, IsCut(X, Y, A, B, v, k, w),
         NEW i \in Nat, NEW j \in Int, i + A <= X
  PROVE  /\ k \in 0 .. A
         /\ \A lo, hi \in Int :
               /\ lo <= Lean(X, Y, i, j) /\ Lean(X, Y, i, j) <= hi
               /\ lo <= Lean(X, Y, i + A, j + B) /\ Lean(X, Y, i + A, j + B) <= hi
               => lo <= Lean(X, Y, i + k, j + v) /\ Lean(X, Y, i + k, j + v) <= hi + Y
         /\ 1 <= v /\ -X - Y <= Lean(X, Y, i, j) /\ -Y <= Lean(X, Y, i + A, j + B)
            => \A g, h \in Int : Lean(X, Y, g, h) = 0 /\ i <= g /\ j + v < h => i + k <= g
         /\ 1 <= Y /\ Lean(X, Y, i, j) <= X /\ Lean(X, Y, i + A, j + B) <= X
            => \A g, h \in Int : Lean(X, Y, g, h) = 0 /\ h < j + v => g <= i + k
<1> DEFINE l == Lean(X, Y, i, j)
           m == Lean(X, Y, i + A, j + B)
           n == Lean(X, Y, i + k, j + v)
<1>1. k \in 0 .. A /\ l \in Int /\ m \in Int /\ n \in Int /\ i \in Int
      /\ B * n = (B - v) * l + v * m + Y * w
  BY CutLeans
<1>2. /\ X \in Nat /\ Y \in Nat /\ A \in Nat /\ B \in Nat \ {0} /\ v \in 0 .. B
      /\ w \in 0 .. B - 1 /\ A * v = k * B + w
  BY DEF IsCut
<1>3. B * n = (B - v) * l + v * m + Y * w
  BY <1>1
<1>4. ASSUME 1 <= v, -X - Y <= l, -Y <= m, NEW g \in Int, NEW h \in Int,
             Lean(X, Y, g, h) = 0, i <= g, j + v < h
      PROVE  i + k <= g
  <2>1. X * h = Y * g
    <3>1. X * h \in Int /\ Y * g \in Int
      BY <1>2
    <3> QED BY <1>4, <3>1 DEF Lean
  <2>2. CASE X = 0
    <3>1. k = 0
      BY <1>1, <1>2, <2>2
    <3> QED BY <1>4, <3>1
  <2>3. CASE X # 0
    <3>1. X \in Nat \ {0} /\ i + k \in Int /\ j + v \in Int
      BY <1>1, <1>2, <2>3
    <3> DEFINE c == i + k
               d == j + v
    <3>2. B * Lean(X, Y, c, d) = (B - v) * l + v * m + Y * w
      BY <1>3
    <3> HIDE DEF l, m, n, c, d
    <3>3. c \in Int /\ d \in Int /\ d < h
      BY <1>4, <3>1 DEF c, d
    <3>4. c <= g
      <4> SUFFICES ASSUME g + 1 <= c PROVE FALSE
        BY <3>3
      <4> DEFINE e == Lean(X, Y, c, d)
      <4>1. e \in Int /\ e = X * d - Y * c
        BY <1>2, <3>3 DEF Lean
      <4>2. e <= -X - Y
        <5>1. X * (h - 1 - d) >= 0 /\ Y * (c - g - 1) >= 0
          BY <1>2, <3>3, ProductSign
        <5>2. X * (h - 1 - d) = X * h - X - X * d /\ Y * (c - g - 1) = Y * c - Y * g - Y
          BY <1>2, <3>3
        <5>3. X * h \in Int /\ X * d \in Int /\ Y * c \in Int /\ Y * g \in Int
          BY <1>2, <3>3
        <5> QED BY <1>2, <2>1, <4>1, <5>1, <5>2, <5>3
      <4> HIDE DEF e
      <4>3. /\ (B - v) * (l + X + Y) >= 0 /\ v * (m + Y) >= 0 /\ Y * w >= 0 /\ v * X > 0
            /\ B * (-X - Y - e) >= 0
        BY <1>1, <1>2, <1>4, <3>1, <4>1, <4>2, ProductSign
      <4>4. /\ (B - v) * (l + X + Y) + v * (m + Y) = (B - v) * l + v * m + B * (X + Y) - v * X
            /\ B * (-X - Y - e) = -(B * (X + Y)) - B * e
        BY <1>1, <1>2, <4>1
      <4>5. /\ (B - v) * l \in Int /\ v * m \in Int /\ B * (X + Y) \in Int /\ v * X \in Int
            /\ B * e \in Int /\ Y * w \in Int /\ (B - v) * (l + X + Y) \in Int /\ v * (m + Y) \in Int
        BY <1>1, <1>2, <4>1
      <4>6. B * e = (B - v) * l + v * m + Y * w
        BY <3>2 DEF e
      <4> QED BY <4>3, <4>4, <4>5, <4>6
    <3> QED BY <3>4 DEF c
  <2> QED BY <2>2, <2>3
<1>5. ASSUME NEW lo \in Int, NEW hi \in Int, lo <= l, l <= hi, lo <= m, m <= hi
      PROVE  lo <= n /\ n <= hi + Y
  <2> HIDE DEF l, m, n
  <2> QED BY <1>1, <1>2, <1>3, <1>5, CutBounds
<1>6. ASSUME 1 <= Y, l <= X, m <= X, NEW g \in Int, NEW h \in Int,
             Lean(X, Y, g, h) = 0, h < j + v
      PROVE  g <= i + k
  <2> DEFINE c == i + k
             d == j + v
  <2>1. B * Lean(X, Y, c, d) = (B - v) * l + v * m + Y * w
    BY <1>3
  <2>2. c \in Int /\ d \in Int /\ h < d
    BY <1>1, <1>2, <1>6
  <2> HIDE DEF l, m, n, c, d
  <2> SUFFICES ASSUME c + 1 <= g PROVE FALSE
    BY <2>2 DEF c
  <2> DEFINE e == Lean(X, Y, c, d)
  <2>3. e \in Int /\ e = X * d - Y * c
    BY <1>2, <2>2 DEF Lean
  <2>4. X * h = Y * g
    <3>1. X * h \in Int /\ Y * g \in Int
      BY <1>2
    <3> QED BY <1>6, <3>1 DEF Lean
  <2>5. X + Y <= e
    <3>1. X * (d - 1 - h) >= 0 /\ Y * (g - c - 1) >= 0
      BY <1>2, <2>2, ProductSign
    <3>2. X * (d - 1 - h) = X * d - X - X * h /\ Y * (g - c - 1) = Y * g - Y * c - Y
      BY <1>2, <2>2
    <3>3. X * h \in Int /\ X * d \in Int /\ Y * c \in Int /\ Y * g \in Int
      BY <1>2, <2>2
    <3> QED BY <1>2, <2>3, <2>4, <3>1, <3>2, <3>3
  <2> HIDE DEF e
  <2>6. /\ (B - v) * (X - l) >= 0 /\ v * (X - m) >= 0 /\ Y * (B - w) > 0
        /\ B * (e - X - Y) >= 0
    BY <1>1, <1>2, <1>6, <2>3, <2>5, ProductSign
  <2>7. /\ (B - v) * (X - l) + v * (X - m) = B * X - ((B - v) * l + v * m)
        /\ Y * (B - w) = B * Y - Y * w
        /\ B * (e - X - Y) = B * e - B * X - B * Y
    BY <1>1, <1>2, <2>3
  <2>8. /\ (B - v) * l \in Int /\ v * m \in Int /\ B * X \in Int /\ B * Y \in Int
        /\ B * e \in Int /\ Y * w \in Int /\ (B - v) * (X - l) \in Int /\ v * (X - m) \in Int
    BY <1>1, <1>2, <2>3
  <2>9. B * e = (B - v) * l + v * m + Y * w
    BY <2>1 DEF e
  <2> QED BY <2>6, <2>7, <2>8, <2>9
<1> QED BY <1>1, <1>4, <1>5, <1>6

\* The division of C, of numbers whose signs are known.
LEMMA QuotientOf ==
  ASSUME NEW sx \in {-1, 1}, NEW sy \in {-1, 1}, NEW A \in Nat, NEW v \in Nat, NEW B \in Nat \ {0},
         NEW k \in Nat, NEW w \in 0 .. B - 1, A * v = k * B + w
  PROVE  Quotient((sx * A) * (sy * v), sy * B) = sx * k
<1> DEFINE n == A * v
<1>1. n \in Nat /\ n \div B = k
  <2>1. n \in Nat
    BY ProductSign
  <2>2. n = k * B + w
    OBVIOUS
  <2> HIDE DEF n
  <2> QED BY <2>1, <2>2, DividedBy
<1>2. (sx * A) * (sy * v) = (sx * sy) * n
  OBVIOUS
<1> HIDE DEF n
<1>3. n = 0 => k = 0
  <2>1. n = 0 => 0 \div B = 0
    <3>1. 0 = 0 * B + 0 /\ 0 \in 0 .. B - 1
      OBVIOUS
    <3> QED BY <3>1, DividedBy
  <2> QED BY <1>1, <2>1
<1>4. Abs(sy * B) = B /\ (sy * B < 0 <=> sy = -1)
  <2>1. CASE sy = 1
    BY <2>1 DEF Abs
  <2>2. CASE sy = -1
    BY <2>2 DEF Abs
  <2> QED BY <2>1, <2>2
<1>5. Abs((sx * sy) * n) = n /\ ((sx * sy) * n < 0 <=> sx # sy /\ n # 0)
  <2>1. CASE sx = sy
    <3>1. sx * sy = 1
      BY <2>1
    <3>2. (sx * sy) * n = n
      BY <1>1, <3>1
    <3> QED BY <1>1, <2>1, <3>2 DEF Abs
  <2>2. CASE sx # sy
    <3>1. sx * sy = -1
      BY <2>2
    <3>2. (sx * sy) * n = -n
      BY <1>1, <3>1
    <3> QED BY <1>1, <2>2, <3>2 DEF Abs
  <2> QED BY <2>1, <2>2
<1>6. Quotient((sx * sy) * n, sy * B)
      = IF (sx # sy /\ n # 0) = (sy = -1) THEN k ELSE -k
  BY <1>1, <1>4, <1>5 DEF Quotient
<1>7. CASE n = 0
  <2>1. k = 0
    BY <1>3, <1>7
  <2>2. \A e \in {-1, 1}, z \in Int : z = 0 => e * z = 0
    OBVIOUS
  <2>3. sx * k = k /\ 0 - k = k
    BY <2>1, <2>2
  <2>4. -k = 0 - k
    OBVIOUS
  <2>5. -k = k
    BY <2>3, <2>4, Zenon
  <2> QED BY <1>2, <1>6, <2>3, <2>5, Zenon
<1>8. CASE n # 0 /\ sx = 1
  <2>1. sx * k = k /\ ((sx # sy /\ n # 0) = (sy = -1))
    BY <1>8
  <2> QED BY <1>2, <1>6, <2>1
<1>9. CASE n # 0 /\ sx = -1
  <2>1. sx * k = -k /\ ~((sx # sy /\ n # 0) = (sy = -1))
    BY <1>9
  <2> QED BY <1>2, <1>6, <2>1
<1> QED BY <1>7, <1>8, <1>9

\* How many columns and rows a point is on the way from s to t.
Ahead(s, t, z) == <<Sign(t[1] - s[1]) * (z[1] - s[1]), Sign(t[2] - s[2]) * (z[2] - s[2])>>

\* From s by a and b to t, never back.
InOrder(s, t, a, b) ==
    \A k \in {1, 2} :
        0 <= Ahead(s, t, a)[k] /\ Ahead(s, t, a)[k] <= Ahead(s, t, b)[k]
        /\ Ahead(s, t, b)[k] <= Abs(t[k] - s[k])

\* How far z is beside the line, in pixels of its longer side.
Tilt(s, t, z) ==
    Lean(Abs(t[1] - s[1]), Abs(t[2] - s[2]), Ahead(s, t, z)[1], Ahead(s, t, z)[2])

LEMMA AheadIs ==
  ASSUME NEW s \in Points, NEW t \in Points, NEW z \in Points
  PROVE  /\ Reached(s, z, Sign(t[1] - s[1]), Sign(t[2] - s[2]), Ahead(s, t, z)[1], Ahead(s, t, z)[2])
         /\ Abs(t[1] - s[1]) \in Nat /\ Abs(t[2] - s[2]) \in Nat
         /\ Tilt(s, t, z) \in Int
         /\ z = <<z[1], z[2]>>
<1>1. /\ s[1] \in Int /\ s[2] \in Int /\ t[1] \in Int /\ t[2] \in Int /\ z[1] \in Int /\ z[2] \in Int
      /\ z = <<z[1], z[2]>>
  BY DEF Points
<1> DEFINE sx == Sign(t[1] - s[1])
           sy == Sign(t[2] - s[2])
<1>2. sx \in {-1, 1} /\ sy \in {-1, 1} /\ Abs(t[1] - s[1]) \in Nat /\ Abs(t[2] - s[2]) \in Nat
  BY <1>1 DEF Sign, Abs
<1>3. Ahead(s, t, z)[1] = sx * (z[1] - s[1]) /\ Ahead(s, t, z)[2] = sy * (z[2] - s[2])
  BY DEF Ahead
<1> HIDE DEF sx, sy
<1>4. \A e \in {-1, 1}, n \in Int : e * n \in Int /\ e * (e * n) = n
  OBVIOUS
<1>5. /\ sx * (z[1] - s[1]) \in Int /\ sx * (sx * (z[1] - s[1])) = z[1] - s[1]
      /\ sy * (z[2] - s[2]) \in Int /\ sy * (sy * (z[2] - s[2])) = z[2] - s[2]
  BY <1>1, <1>2, <1>4
<1>6. Reached(s, z, sx, sy, Ahead(s, t, z)[1], Ahead(s, t, z)[2])
  BY <1>1, <1>2, <1>3, <1>5 DEF Reached
<1>7. Tilt(s, t, z) \in Int
  <2>1. PICK i \in Int, j \in Int : i = Ahead(s, t, z)[1] /\ j = Ahead(s, t, z)[2]
    BY <1>3, <1>5
  <2>2. PICK X \in Nat, Y \in Nat : X = Abs(t[1] - s[1]) /\ Y = Abs(t[2] - s[2])
    BY <1>2
  <2>3. X * j - Y * i \in Int
    OBVIOUS
  <2> QED BY <2>1, <2>2, <2>3 DEF Tilt, Lean
<1> QED BY <1>1, <1>2, <1>6, <1>7 DEF sx, sy

\* A point that is reached is ahead by as much.
LEMMA AheadOf ==
  ASSUME NEW s \in Points, NEW t \in Points, NEW z, NEW i, NEW j,
         Reached(s, z, Sign(t[1] - s[1]), Sign(t[2] - s[2]), i, j)
  PROVE  Ahead(s, t, z) = <<i, j>>
<1>1. s[1] \in Int /\ s[2] \in Int
  BY DEF Points
<1>2. PICK sx \in {-1, 1}, sy \in {-1, 1} :
         /\ sx = Sign(t[1] - s[1]) /\ sy = Sign(t[2] - s[2])
         /\ i \in Int /\ j \in Int /\ z[1] = s[1] + sx * i /\ z[2] = s[2] + sy * j
  BY DEF Reached
<1>3. \A e \in {-1, 1}, n \in Int : e * n \in Int /\ e * (e * n) = n
  OBVIOUS
<1>4. z[1] - s[1] = sx * i /\ z[2] - s[2] = sy * j
  <2>1. sx * i \in Int /\ sy * j \in Int
    BY <1>2, <1>3
  <2> QED BY <1>1, <1>2, <2>1
<1> QED BY <1>2, <1>3, <1>4 DEF Ahead

\* A line from a to b that is cut at row y: the point of the cut is on the way, beside the line as
\* they are or Y more.  A point right on the line that is beyond the row is beyond the point of the
\* cut, and one that is before the row is not beyond its column.
CutInRow(s, t, a, b, y, n) ==
    /\ n \in Points /\ n[2] = y /\ InOrder(s, t, a, n) /\ InOrder(s, t, n, b)
    /\ \A lo, hi \in Int :
          /\ lo <= Tilt(s, t, a) /\ Tilt(s, t, a) <= hi
          /\ lo <= Tilt(s, t, b) /\ Tilt(s, t, b) <= hi
          => lo <= Tilt(s, t, n) /\ Tilt(s, t, n) <= hi + Abs(t[2] - s[2])
    /\ /\ -Abs(t[1] - s[1]) - Abs(t[2] - s[2]) <= Tilt(s, t, a)
       /\ -Abs(t[2] - s[2]) <= Tilt(s, t, b)
       => \A r \in Points :
             /\ Tilt(s, t, r) = 0 /\ InOrder(s, t, a, r)
             /\ (a[2] < y /\ y < r[2]) \/ (r[2] < y /\ y < a[2])
             => InOrder(s, t, n, r)
    /\ Tilt(s, t, a) <= Abs(t[1] - s[1]) /\ Tilt(s, t, b) <= Abs(t[1] - s[1])
       => \A r \in Points :
             /\ Tilt(s, t, r) = 0
             /\ (a[2] < b[2] /\ r[2] < y) \/ (b[2] < a[2] /\ y < r[2])
             => Ahead(s, t, r)[1] <= Ahead(s, t, n)[1]
    /\ \A r \in Points : (a[2] < b[2] /\ r[2] < y) \/ (b[2] < a[2] /\ y < r[2])
                       => Ahead(s, t, r)[2] < Ahead(s, t, n)[2]

LEMMA CutAtY ==
  ASSUME NEW s \in Points, NEW t \in Points, NEW a \in Points, NEW b \in Points, NEW y \in Int,
         InOrder(s, t, a, b), a[2] # b[2],
         (a[2] <= y /\ y <= b[2]) \/ (b[2] <= y /\ y <= a[2])
  PROVE  CutInRow(s, t, a, b, y, AtY(a, b, y))
<1> DEFINE n == AtY(a, b, y)
<1>1. PICK X \in Nat, Y \in Nat, sx \in {-1, 1}, sy \in {-1, 1}, s1 \in Int, s2 \in Int :
         /\ X = Abs(t[1] - s[1]) /\ Y = Abs(t[2] - s[2])
         /\ sx = Sign(t[1] - s[1]) /\ sy = Sign(t[2] - s[2]) /\ s1 = s[1] /\ s2 = s[2]
  <2>1. Abs(t[1] - s[1]) \in Nat /\ Abs(t[2] - s[2]) \in Nat
    BY AheadIs
  <2>2. Sign(t[1] - s[1]) \in {-1, 1} /\ Sign(t[2] - s[2]) \in {-1, 1} /\ s[1] \in Int /\ s[2] \in Int
    BY DEF Sign, Points
  <2> QED BY <2>1, <2>2
<1>2. PICK ia \in Int, ja \in Int :
         Ahead(s, t, a)[1] = ia /\ Ahead(s, t, a)[2] = ja /\ a[1] = s1 + sx * ia /\ a[2] = s2 + sy * ja
  BY <1>1, AheadIs DEF Reached
<1>3. PICK ib \in Int, jb \in Int :
         Ahead(s, t, b)[1] = ib /\ Ahead(s, t, b)[2] = jb /\ b[1] = s1 + sx * ib /\ b[2] = s2 + sy * jb
  BY <1>1, AheadIs DEF Reached
<1>4. 0 <= ia /\ ia <= ib /\ ib <= X /\ 0 <= ja /\ ja <= jb /\ jb <= Y
  BY <1>1, <1>2, <1>3 DEF InOrder
<1>5. PICK c \in Int : y = s2 + sy * c
  <2>1. \A e \in {-1, 1}, z \in Int : e * z \in Int /\ z = e * (e * z)
    OBVIOUS
  <2>2. y - s2 \in Int
    OBVIOUS
  <2>3. sy * (y - s2) \in Int /\ y - s2 = sy * (sy * (y - s2))
    BY <2>1, <2>2
  <2>4. y = s2 + (y - s2)
    OBVIOUS
  <2> QED BY <2>3, <2>4
<1>6. ja < jb /\ ja <= c /\ c <= jb
  <2>1. CASE sy = 1
    BY <1>2, <1>3, <1>4, <1>5, <2>1
  <2>2. CASE sy = -1
    BY <1>2, <1>3, <1>4, <1>5, <2>2
  <2> QED BY <2>1, <2>2
<1> DEFINE A == ib - ia
           B == jb - ja
           v == c - ja
<1>7. A \in Nat /\ B \in Nat \ {0} /\ v \in 0 .. B
  BY <1>4, <1>6
<1>8. /\ b[1] - a[1] = sx * A /\ b[2] - a[2] = sy * B /\ y - a[2] = sy * v
      /\ ib = ia + A /\ jb = ja + B /\ c = ja + v
  <2>1. \A e \in {-1, 1}, z \in Int, x \in Int : e * (z - x) = e * z - e * x /\ e * z \in Int /\ e * x \in Int
    OBVIOUS
  <2>2. /\ sx * A = sx * ib - sx * ia /\ sy * B = sy * jb - sy * ja /\ sy * v = sy * c - sy * ja
        /\ sx * ib \in Int /\ sx * ia \in Int /\ sy * jb \in Int /\ sy * ja \in Int /\ sy * c \in Int
    BY <2>1
  <2> HIDE DEF A, B, v
  <2>3. /\ b[1] - a[1] = sx * ib - sx * ia /\ b[2] - a[2] = sy * jb - sy * ja
        /\ y - a[2] = sy * c - sy * ja
    BY <1>2, <1>3, <1>5, <2>2
  <2>4. ib = ia + A /\ jb = ja + B /\ c = ja + v
    BY DEF A, B, v
  <2> QED BY <2>2, <2>3, <2>4
<1> HIDE DEF A, B, v
<1>9. PICK k \in Int, w \in 0 .. B - 1 : A * v = k * B + w
  <2>1. A \in Int /\ v \in Int
    BY <1>7
  <2>2. PICK z \in Int : z = A * v
    BY <2>1
  <2>3. \E k \in Int, w \in 0 .. B - 1 : z = k * B + w /\ z \div B = k /\ z % B = w
    <3>1. B \in Nat \ {0}
      BY <1>7
    <3> QED BY <3>1, Divided
  <2> QED BY <2>2, <2>3
<1>10. ia + A <= X
  BY <1>4, <1>8
<1>11. /\ k \in 0 .. A
       /\ \A lo, hi \in Int :
             /\ lo <= Lean(X, Y, ia, ja) /\ Lean(X, Y, ia, ja) <= hi
             /\ lo <= Lean(X, Y, ia + A, ja + B) /\ Lean(X, Y, ia + A, ja + B) <= hi
             => lo <= Lean(X, Y, ia + k, ja + v) /\ Lean(X, Y, ia + k, ja + v) <= hi + Y
       /\ 1 <= v /\ -X - Y <= Lean(X, Y, ia, ja) /\ -Y <= Lean(X, Y, ia + A, ja + B)
          => \A g, h \in Int : Lean(X, Y, g, h) = 0 /\ ia <= g /\ ja + v < h => ia + k <= g
       /\ 1 <= Y /\ Lean(X, Y, ia, ja) <= X /\ Lean(X, Y, ia + A, ja + B) <= X
          => \A g, h \in Int : Lean(X, Y, g, h) = 0 /\ h < ja + v => g <= ia + k
  <2>1. ia \in Nat /\ IsCut(X, Y, A, B, v, k, w)
    BY <1>4, <1>7, <1>9 DEF IsCut
  <2> QED BY <1>10, <2>1, CutNumbers
<1>12. n = <<s1 + sx * (ia + k), y>>
  <2>1. Quotient((sx * A) * (sy * v), sy * B) = sx * k
    <3>1. k \in Nat /\ v \in Nat
      BY <1>7, <1>11
    <3> QED BY <1>1, <1>7, <1>9, <3>1, QuotientOf
  <2>2. n = <<a[1] + sx * k, y>>
    BY <1>8, <2>1 DEF AtY
  <2>3. sx * (ia + k) = sx * ia + sx * k /\ sx * ia \in Int /\ sx * k \in Int
    BY <1>11
  <2> QED BY <1>2, <2>2, <2>3
<1>13. n \in Points /\ n[2] = y
  <2>1. s1 + sx * (ia + k) \in Int
    BY <1>11
  <2> QED BY <1>12, <2>1 DEF Points
<1>14. Ahead(s, t, n) = <<ia + k, c>>
  <2>1. Reached(s, n, sx, sy, ia + k, c)
    BY <1>1, <1>5, <1>11, <1>12 DEF Reached
  <2> QED BY <1>1, <2>1, AheadOf
<1> HIDE DEF n
<1>15. InOrder(s, t, a, n) /\ InOrder(s, t, n, b)
  <2>1. ia + k <= ib /\ ia <= ia + k
    BY <1>8, <1>11, <1>7
  <2> QED BY <1>1, <1>2, <1>3, <1>4, <1>6, <1>14, <2>1 DEF InOrder
<1>16. /\ Tilt(s, t, a) = Lean(X, Y, ia, ja) /\ Tilt(s, t, b) = Lean(X, Y, ia + A, ja + B)
       /\ Tilt(s, t, n) = Lean(X, Y, ia + k, ja + v)
  BY <1>1, <1>2, <1>3, <1>8, <1>14 DEF Tilt
<1>17. ASSUME NEW lo \in Int, NEW hi \in Int,
              lo <= Tilt(s, t, a), Tilt(s, t, a) <= hi, lo <= Tilt(s, t, b), Tilt(s, t, b) <= hi
       PROVE  lo <= Tilt(s, t, n) /\ Tilt(s, t, n) <= hi + Y
  BY <1>11, <1>16, <1>17
<1>18. ASSUME -X - Y <= Tilt(s, t, a), -Y <= Tilt(s, t, b),
              NEW r \in Points, Tilt(s, t, r) = 0, InOrder(s, t, a, r),
              (a[2] < y /\ y < r[2]) \/ (r[2] < y /\ y < a[2])
       PROVE  InOrder(s, t, n, r)
  <2>1. PICK g \in Int, h \in Int :
           Ahead(s, t, r)[1] = g /\ Ahead(s, t, r)[2] = h /\ r[2] = s2 + sy * h
    BY <1>1, AheadIs DEF Reached
  <2>2. ia <= g /\ g <= X /\ ja <= h /\ h <= Y
    BY <1>1, <1>2, <1>18, <2>1 DEF InOrder
  <2>3. Lean(X, Y, g, h) = 0
    BY <1>1, <1>18, <2>1 DEF Tilt
  <2>4. ja < c /\ c < h
    <3>1. CASE sy = 1
      BY <1>2, <1>5, <1>6, <1>18, <2>1, <3>1
    <3>2. CASE sy = -1
      BY <1>2, <1>5, <1>6, <1>18, <2>1, <3>2
    <3> QED BY <3>1, <3>2
  <2>5. ia + k <= g
    BY <1>7, <1>8, <1>11, <1>16, <1>18, <2>2, <2>3, <2>4
  <2> QED BY <1>1, <1>4, <1>6, <1>11, <1>14, <2>1, <2>2, <2>4, <2>5 DEF InOrder
<1>19. /\ n \in Points /\ n[2] = y /\ InOrder(s, t, a, n) /\ InOrder(s, t, n, b)
  BY <1>13, <1>15
<1>20. ASSUME NEW r \in Points, (a[2] < b[2] /\ r[2] < y) \/ (b[2] < a[2] /\ y < r[2])
       PROVE  /\ Ahead(s, t, r)[2] < Ahead(s, t, n)[2]
              /\ Tilt(s, t, a) <= X /\ Tilt(s, t, b) <= X /\ Tilt(s, t, r) = 0
                 => Ahead(s, t, r)[1] <= Ahead(s, t, n)[1]
  <2>1. PICK g \in Int, h \in Int :
           Ahead(s, t, r)[1] = g /\ Ahead(s, t, r)[2] = h /\ r[2] = s2 + sy * h
    BY <1>1, AheadIs DEF Reached
  <2>2. Tilt(s, t, r) = Lean(X, Y, g, h)
    BY <1>1, <2>1 DEF Tilt
  <2>3. h < c
    <3>1. CASE sy = 1
      BY <1>2, <1>3, <1>5, <1>6, <1>20, <2>1, <3>1
    <3>2. CASE sy = -1
      BY <1>2, <1>3, <1>5, <1>6, <1>20, <2>1, <3>2
    <3> QED BY <3>1, <3>2
  <2>4. 1 <= Y
    BY <1>4, <1>6
  <2>5. Tilt(s, t, a) <= X /\ Tilt(s, t, b) <= X /\ Tilt(s, t, r) = 0 => g <= ia + k
    BY <1>8, <1>11, <1>16, <2>2, <2>3, <2>4
  <2> QED BY <1>14, <2>1, <2>3, <2>5
<1>21. CutInRow(s, t, a, b, y, n)
  BY <1>1, <1>17, <1>18, <1>19, <1>20 DEF CutInRow
<1> QED BY <1>21 DEF n

\* The same for a column.
CutInColumn(s, t, a, b, x, n) ==
    /\ n \in Points /\ n[1] = x /\ InOrder(s, t, a, n) /\ InOrder(s, t, n, b)
    /\ \A lo, hi \in Int :
          /\ lo <= Tilt(s, t, a) /\ Tilt(s, t, a) <= hi
          /\ lo <= Tilt(s, t, b) /\ Tilt(s, t, b) <= hi
          => lo - Abs(t[1] - s[1]) <= Tilt(s, t, n) /\ Tilt(s, t, n) <= hi
    /\ /\ Tilt(s, t, a) <= Abs(t[1] - s[1]) + Abs(t[2] - s[2])
       /\ Tilt(s, t, b) <= Abs(t[1] - s[1])
       => \A r \in Points :
             /\ Tilt(s, t, r) = 0 /\ InOrder(s, t, a, r)
             /\ (a[1] < x /\ x < r[1]) \/ (r[1] < x /\ x < a[1])
             => InOrder(s, t, n, r)
    /\ -Abs(t[2] - s[2]) <= Tilt(s, t, a) /\ -Abs(t[2] - s[2]) <= Tilt(s, t, b)
       => \A r \in Points :
             /\ Tilt(s, t, r) = 0
             /\ (a[1] < b[1] /\ r[1] < x) \/ (b[1] < a[1] /\ x < r[1])
             => Ahead(s, t, r)[2] <= Ahead(s, t, n)[2]
    /\ \A r \in Points : (a[1] < b[1] /\ r[1] < x) \/ (b[1] < a[1] /\ x < r[1])
                       => Ahead(s, t, r)[1] < Ahead(s, t, n)[1]

\* Rows for columns.
Swapped(z) == <<z[2], z[1]>>

LEMMA SwappedIs ==
  ASSUME NEW s \in Points, NEW t \in Points
  PROVE  /\ Swapped(s) \in Points
         /\ Swapped(t)[1] - Swapped(s)[1] = t[2] - s[2] /\ Swapped(t)[2] - Swapped(s)[2] = t[1] - s[1]
         /\ \A a \in Points :
               /\ Ahead(Swapped(s), Swapped(t), Swapped(a))[1] = Ahead(s, t, a)[2]
               /\ Ahead(Swapped(s), Swapped(t), Swapped(a))[2] = Ahead(s, t, a)[1]
               /\ Tilt(Swapped(s), Swapped(t), Swapped(a)) = -Tilt(s, t, a)
         /\ \A a, b \in Points :
               InOrder(Swapped(s), Swapped(t), Swapped(a), Swapped(b)) <=> InOrder(s, t, a, b)
<1>1. /\ Swapped(s) \in Points
      /\ Swapped(t)[1] - Swapped(s)[1] = t[2] - s[2] /\ Swapped(t)[2] - Swapped(s)[2] = t[1] - s[1]
  BY DEF Swapped, Points
<1>2. ASSUME NEW a \in Points
      PROVE  /\ Ahead(Swapped(s), Swapped(t), Swapped(a))[1] = Ahead(s, t, a)[2]
             /\ Ahead(Swapped(s), Swapped(t), Swapped(a))[2] = Ahead(s, t, a)[1]
  BY DEF Swapped, Ahead
<1>3. ASSUME NEW a \in Points
      PROVE  Tilt(Swapped(s), Swapped(t), Swapped(a)) = -Tilt(s, t, a)
  <2>1. PICK i \in Int, j \in Int : i = Ahead(s, t, a)[1] /\ j = Ahead(s, t, a)[2]
    BY AheadIs DEF Reached
  <2>2. PICK X \in Nat, Y \in Nat : X = Abs(t[1] - s[1]) /\ Y = Abs(t[2] - s[2])
    BY AheadIs
  <2>3. Y * i - X * j = -(X * j - Y * i)
    OBVIOUS
  <2>4. Tilt(Swapped(s), Swapped(t), Swapped(a)) = Y * i - X * j
    BY <1>1, <1>2, <2>1, <2>2 DEF Tilt, Lean
  <2>5. Tilt(s, t, a) = X * j - Y * i
    BY <2>1, <2>2 DEF Tilt, Lean
  <2> QED BY <2>3, <2>4, <2>5
<1>4. ASSUME NEW a \in Points, NEW b \in Points
      PROVE  InOrder(Swapped(s), Swapped(t), Swapped(a), Swapped(b)) <=> InOrder(s, t, a, b)
  BY <1>1, <1>2 DEF InOrder
<1> QED BY <1>1, <1>2, <1>3, <1>4

LEMMA CutAtX ==
  ASSUME NEW s \in Points, NEW t \in Points, NEW a \in Points, NEW b \in Points, NEW x \in Int,
         InOrder(s, t, a, b), a[1] # b[1],
         (a[1] <= x /\ x <= b[1]) \/ (b[1] <= x /\ x <= a[1])
  PROVE  CutInColumn(s, t, a, b, x, AtX(a, b, x))
<1> DEFINE S == Swapped(s)
           T == Swapped(t)
           n == AtX(a, b, x)
           m == AtY(Swapped(a), Swapped(b), x)
<1>1. /\ S \in Points /\ T \in Points /\ Swapped(a) \in Points /\ Swapped(b) \in Points
      /\ InOrder(S, T, Swapped(a), Swapped(b))
      /\ Swapped(a)[2] = a[1] /\ Swapped(b)[2] = b[1]
  <2>1. /\ S \in Points /\ T \in Points /\ Swapped(a) \in Points /\ Swapped(b) \in Points
        /\ InOrder(S, T, Swapped(a), Swapped(b))
    BY SwappedIs
  <2> QED BY <2>1 DEF Swapped
<1>2. CutInRow(S, T, Swapped(a), Swapped(b), x, m)
  BY <1>1, CutAtY
<1>3. m = Swapped(n) /\ n = Swapped(m)
  BY DEF AtX, AtY, Swapped
<1>4. n \in Points /\ n[1] = x
  <2>1. m \in Points /\ m[2] = x
    BY <1>2 DEF CutInRow
  <2> HIDE DEF m, n
  <2>2. n \in Points
    BY <1>3, <2>1, SwappedIs
  <2> QED BY <1>3, <2>1, <2>2 DEF Swapped
<1> HIDE DEF m, n
<1>5. PICK X \in Nat, Y \in Nat :
         /\ X = Abs(t[1] - s[1]) /\ Y = Abs(t[2] - s[2])
         /\ Y = Abs(T[1] - S[1]) /\ X = Abs(T[2] - S[2])
  BY AheadIs, SwappedIs
<1>6. \A z \in Points : Tilt(s, t, z) \in Int /\ Tilt(S, T, Swapped(z)) = -Tilt(s, t, z)
  BY AheadIs, SwappedIs
<1>7. \A z, r \in Points : InOrder(S, T, Swapped(z), Swapped(r)) <=> InOrder(s, t, z, r)
  BY SwappedIs
<1> HIDE DEF S, T
<1>8. InOrder(s, t, a, n) /\ InOrder(s, t, n, b)
  BY <1>2, <1>3, <1>4, <1>7 DEF CutInRow
<1>9. ASSUME NEW lo \in Int, NEW hi \in Int,
             lo <= Tilt(s, t, a), Tilt(s, t, a) <= hi, lo <= Tilt(s, t, b), Tilt(s, t, b) <= hi
      PROVE  lo - X <= Tilt(s, t, n) /\ Tilt(s, t, n) <= hi
  <2> DEFINE l == -hi
             h == -lo
  <2>1. /\ l \in Int /\ h \in Int
        /\ l <= Tilt(S, T, Swapped(a)) /\ Tilt(S, T, Swapped(a)) <= h
        /\ l <= Tilt(S, T, Swapped(b)) /\ Tilt(S, T, Swapped(b)) <= h
    BY <1>6, <1>9
  <2> HIDE DEF l, h
  <2>2. l <= Tilt(S, T, m) /\ Tilt(S, T, m) <= h + X
    BY <1>2, <1>5, <2>1 DEF CutInRow
  <2>3. Tilt(S, T, m) = -Tilt(s, t, n) /\ Tilt(s, t, n) \in Int
    BY <1>3, <1>4, <1>6
  <2> QED BY <2>2, <2>3 DEF l, h
<1>10. ASSUME Tilt(s, t, a) <= X + Y, Tilt(s, t, b) <= X,
              NEW r \in Points, Tilt(s, t, r) = 0, InOrder(s, t, a, r),
              (a[1] < x /\ x < r[1]) \/ (r[1] < x /\ x < a[1])
       PROVE  InOrder(s, t, n, r)
  <2>1. /\ Swapped(r) \in Points /\ Swapped(r)[2] = r[1]
        /\ InOrder(S, T, Swapped(a), Swapped(r))
    <3>1. Swapped(r) \in Points /\ InOrder(S, T, Swapped(a), Swapped(r))
      BY <1>7, <1>10, SwappedIs
    <3> QED BY <3>1 DEF Swapped
  <2>2. Tilt(S, T, Swapped(r)) = 0
    <3>1. Tilt(S, T, Swapped(r)) = -Tilt(s, t, r)
      BY <1>6
    <3>2. -Tilt(s, t, r) = 0 - Tilt(s, t, r)
      BY <1>6
    <3>3. 0 - Tilt(s, t, r) = 0
      BY <1>10
    <3> QED BY <3>1, <3>2, <3>3
  <2>3. /\ -Y - X <= Tilt(S, T, Swapped(a))
        /\ -X <= Tilt(S, T, Swapped(b))
    BY <1>6, <1>10
  <2>4. InOrder(S, T, m, Swapped(r))
    BY <1>1, <1>2, <1>5, <1>10, <2>1, <2>2, <2>3 DEF CutInRow
  <2> QED BY <1>3, <1>4, <1>7, <2>4
<1>11. ASSUME -Y <= Tilt(s, t, a), -Y <= Tilt(s, t, b), NEW r \in Points, Tilt(s, t, r) = 0,
              (a[1] < b[1] /\ r[1] < x) \/ (b[1] < a[1] /\ x < r[1])
       PROVE  Ahead(s, t, r)[2] <= Ahead(s, t, n)[2]
  <2>1. Swapped(r) \in Points /\ Swapped(r)[2] = r[1]
    <3>1. Swapped(r) \in Points
      BY SwappedIs
    <3> QED BY <3>1 DEF Swapped
  <2>2. Tilt(S, T, Swapped(r)) = 0
    <3>1. Tilt(S, T, Swapped(r)) = -Tilt(s, t, r)
      BY <1>6
    <3>2. -Tilt(s, t, r) = 0 - Tilt(s, t, r)
      BY <1>6
    <3>3. 0 - Tilt(s, t, r) = 0
      BY <1>11
    <3> QED BY <3>1, <3>2, <3>3
  <2>3. Tilt(S, T, Swapped(a)) <= Y /\ Tilt(S, T, Swapped(b)) <= Y
    BY <1>6, <1>11
  <2>4. Ahead(S, T, Swapped(r))[1] <= Ahead(S, T, m)[1]
    BY <1>1, <1>2, <1>5, <1>11, <2>1, <2>2, <2>3 DEF CutInRow
  <2>5. /\ Ahead(S, T, Swapped(r))[1] = Ahead(s, t, r)[2]
        /\ Ahead(S, T, Swapped(n))[1] = Ahead(s, t, n)[2]
    BY <1>4, SwappedIs DEF S, T
  <2> QED BY <1>3, <2>4, <2>5
<1>12. ASSUME NEW r \in Points, (a[1] < b[1] /\ r[1] < x) \/ (b[1] < a[1] /\ x < r[1])
       PROVE  Ahead(s, t, r)[1] < Ahead(s, t, n)[1]
  <2>1. Swapped(r) \in Points /\ Swapped(r)[2] = r[1]
    <3>1. Swapped(r) \in Points
      BY SwappedIs
    <3> QED BY <3>1 DEF Swapped
  <2>2. Ahead(S, T, Swapped(r))[2] < Ahead(S, T, m)[2]
    BY <1>1, <1>2, <1>12, <2>1 DEF CutInRow
  <2>3. /\ Ahead(S, T, Swapped(r))[2] = Ahead(s, t, r)[1]
        /\ Ahead(S, T, Swapped(n))[2] = Ahead(s, t, n)[1]
    BY <1>4, SwappedIs DEF S, T
  <2> QED BY <1>3, <2>2, <2>3
<1>13. CutInColumn(s, t, a, b, x, n)
  BY <1>4, <1>5, <1>8, <1>9, <1>10, <1>11, <1>12 DEF CutInColumn
<1> QED BY <1>13 DEF n

-------------------------------------------------------------------------------
(* Figures: where a cut line begins and ends.                              *)

\* Right on the line from p to q, not at the border and not the end of it.
OnLine(p, q, r) ==
    /\ r \in Points /\ r # q /\ Tilt(p, q, r) = 0 /\ InOrder(p, q, r, q)
    /\ r[1] \in 1 .. GL_width - 2 /\ r[2] \in 1 .. GL_height - 2

\* The line may begin at a: no point on it is left out, and it leans by lo to hi.
Begun(p, q, a, lo, hi) ==
    /\ a \in Points /\ InOrder(p, q, a, q)
    /\ lo <= Tilt(p, q, a) /\ Tilt(p, q, a) <= hi
    /\ \A r : OnLine(p, q, r) => InOrder(p, q, a, r)

\* The line that begins at a may end at b: every point on it is before b in a row or a column,
\* and not beyond b along the longer side.
Ended(p, q, a, b, lo, hi) ==
    /\ b \in Points /\ InOrder(p, q, a, b) /\ InOrder(p, q, b, q)
    /\ lo <= Tilt(p, q, b) /\ Tilt(p, q, b) <= hi
    /\ \A r : OnLine(p, q, r) =>
          /\ Abs(q[2] - p[2]) <= Abs(q[1] - p[1]) => Ahead(p, q, r)[1] <= Ahead(p, q, b)[1]
          /\ Abs(q[1] - p[1]) <= Abs(q[2] - p[2]) => Ahead(p, q, r)[2] <= Ahead(p, q, b)[2]
          /\ Ahead(p, q, r)[1] < Ahead(p, q, b)[1] \/ Ahead(p, q, r)[2] < Ahead(p, q, b)[2]

\* On the way from a by z to b, no coordinate of z is beyond theirs.
LEMMA OnTheWayThere ==
  ASSUME NEW p \in Points, NEW q \in Points, NEW a \in Points, NEW z \in Points, NEW b \in Points,
         InOrder(p, q, a, z), InOrder(p, q, z, b), NEW k \in {1, 2}
  PROVE  (a[k] <= z[k] /\ z[k] <= b[k]) \/ (b[k] <= z[k] /\ z[k] <= a[k])
<1>1. /\ p[k] \in Int /\ q[k] \in Int /\ a[k] \in Int /\ z[k] \in Int /\ b[k] \in Int
  BY DEF Points
<1>2. /\ Ahead(p, q, a)[k] = Sign(q[k] - p[k]) * (a[k] - p[k])
      /\ Ahead(p, q, z)[k] = Sign(q[k] - p[k]) * (z[k] - p[k])
      /\ Ahead(p, q, b)[k] = Sign(q[k] - p[k]) * (b[k] - p[k])
  BY DEF Ahead
<1>3. Sign(q[k] - p[k]) \in {-1, 1}
  BY DEF Sign
<1>4. /\ Ahead(p, q, a)[k] <= Ahead(p, q, z)[k] /\ Ahead(p, q, z)[k] <= Ahead(p, q, b)[k]
  BY DEF InOrder
<1>5. CASE Sign(q[k] - p[k]) = 1
  BY <1>1, <1>2, <1>4, <1>5
<1>6. CASE Sign(q[k] - p[k]) = -1
  BY <1>1, <1>2, <1>4, <1>6
<1> QED BY <1>3, <1>5, <1>6

\* The sides that a point is beyond.
LEMMA Sides ==
  ASSUME NEW z \in Points
  PROVE  /\ z[1] \in Int /\ z[2] \in Int
         /\ code(z) \subseteq {"LEFT", "RIGHT", "BOTTOM", "TOP"}
         /\ "TOP" \in code(z) <=> z[2] > GL_height - 1
         /\ "BOTTOM" \in code(z) <=> z[2] < 0
         /\ "RIGHT" \in code(z) <=> z[1] > GL_width - 1
         /\ "LEFT" \in code(z) <=> z[1] < 0
  BY DEF code, Points

\* From where the ends are beyond one side, no point on the line is left.
LEMMA Rejected ==
  ASSUME NEW p \in Points, NEW q \in Points, NEW a, NEW lo, NEW hi, Begun(p, q, a, lo, hi),
         code(a) \cap code(q) # {}, NEW r, OnLine(p, q, r)
  PROVE  FALSE
<1>1. a \in Points /\ r \in Points /\ InOrder(p, q, a, r) /\ InOrder(p, q, r, q)
  BY DEF Begun, OnLine
<1>2. /\ (a[1] <= r[1] /\ r[1] <= q[1]) \/ (q[1] <= r[1] /\ r[1] <= a[1])
      /\ (a[2] <= r[2] /\ r[2] <= q[2]) \/ (q[2] <= r[2] /\ r[2] <= a[2])
  BY <1>1, OnTheWayThere
<1>3. r[1] \in 1 .. GL_width - 2 /\ r[2] \in 1 .. GL_height - 2 /\ GL_width \in Nat /\ GL_height \in Nat
  BY ScreenSizes DEF OnLine
<1>4. PICK side \in code(a) : side \in code(q)
  OBVIOUS
<1>5. side \in {"LEFT", "RIGHT", "BOTTOM", "TOP"}
  BY <1>1, <1>4, Sides
<1>6. CASE side = "TOP"
  <2>1. a[2] > GL_height - 1 /\ q[2] > GL_height - 1 /\ a[2] \in Int /\ q[2] \in Int
    BY <1>1, <1>4, <1>6, Sides
  <2> QED BY <1>2, <1>3, <2>1
<1>7. CASE side = "BOTTOM"
  <2>1. a[2] < 0 /\ q[2] < 0 /\ a[2] \in Int /\ q[2] \in Int
    BY <1>1, <1>4, <1>7, Sides
  <2> QED BY <1>2, <1>3, <2>1
<1>8. CASE side = "RIGHT"
  <2>1. a[1] > GL_width - 1 /\ q[1] > GL_width - 1 /\ a[1] \in Int /\ q[1] \in Int
    BY <1>1, <1>4, <1>8, Sides
  <2> QED BY <1>2, <1>3, <2>1
<1>9. CASE side = "LEFT"
  <2>1. a[1] < 0 /\ q[1] < 0 /\ a[1] \in Int /\ q[1] \in Int
    BY <1>1, <1>4, <1>9, Sides
  <2> QED BY <1>2, <1>3, <2>1
<1> QED BY <1>5, <1>6, <1>7, <1>8, <1>9

\* A line has its ends, and its ends are right on it.
LEMMA WholeLine ==
  ASSUME NEW p \in Points, NEW q \in Points
  PROVE  /\ Begun(p, q, p, 0, 0)
         /\ InOrder(p, q, q, q) /\ Tilt(p, q, q) = 0
         /\ Abs(q[1] - p[1]) \in Nat /\ Abs(q[2] - p[2]) \in Nat
<1>1. PICK X \in Nat, Y \in Nat : X = Abs(q[1] - p[1]) /\ Y = Abs(q[2] - p[2])
  BY AheadIs
<1>2. p[1] \in Int /\ p[2] \in Int /\ q[1] \in Int /\ q[2] \in Int
  BY DEF Points
<1>3. Ahead(p, q, p)[1] = 0 /\ Ahead(p, q, p)[2] = 0
  <2>1. p[1] - p[1] = 0 /\ p[2] - p[2] = 0
    BY <1>2
  <2>2. Sign(q[1] - p[1]) * 0 = 0 /\ Sign(q[2] - p[2]) * 0 = 0
    BY DEF Sign
  <2> QED BY <2>1, <2>2 DEF Ahead
<1>4. Ahead(p, q, q)[1] = X /\ Ahead(p, q, q)[2] = Y
  BY <1>1, <1>2 DEF Ahead, Sign, Abs
<1>5. InOrder(p, q, p, q) /\ InOrder(p, q, q, q)
  BY <1>1, <1>3, <1>4 DEF InOrder
<1>6. Tilt(p, q, p) = 0 /\ Tilt(p, q, q) = 0
  <2>1. X * 0 - Y * 0 = 0 /\ X * Y - Y * X = 0
    OBVIOUS
  <2> QED BY <1>1, <1>3, <1>4, <2>1 DEF Tilt, Lean
<1>7. ASSUME NEW r, OnLine(p, q, r) PROVE InOrder(p, q, p, r)
  <2>1. InOrder(p, q, r, q)
    BY <1>7 DEF OnLine
  <2> QED BY <1>1, <1>3, <1>4, <2>1 DEF InOrder
<1> QED BY <1>1, <1>5, <1>6, <1>7 DEF Begun

\* A line that ends where it should.
LEMMA WholeEnd ==
  ASSUME NEW p \in Points, NEW q \in Points, NEW a, NEW lo, NEW hi, Begun(p, q, a, lo, hi)
  PROVE  Ended(p, q, a, q, 0, 0)
<1>1. InOrder(p, q, a, q) /\ InOrder(p, q, q, q) /\ Tilt(p, q, q) = 0
  BY WholeLine DEF Begun
<1>2. ASSUME NEW r, OnLine(p, q, r)
      PROVE  /\ Ahead(p, q, r)[1] <= Ahead(p, q, q)[1] /\ Ahead(p, q, r)[2] <= Ahead(p, q, q)[2]
             /\ Ahead(p, q, r)[1] < Ahead(p, q, q)[1] \/ Ahead(p, q, r)[2] < Ahead(p, q, q)[2]
  <2>1. r \in Points /\ r # q /\ InOrder(p, q, r, q)
    BY <1>2 DEF OnLine
  <2>2. PICK sx \in {-1, 1}, sy \in {-1, 1}, i \in Int, j \in Int, x \in Int, y \in Int :
           /\ i = Ahead(p, q, r)[1] /\ j = Ahead(p, q, r)[2] /\ x = p[1] /\ y = p[2]
           /\ r[1] = x + sx * i /\ r[2] = y + sy * j
           /\ sx = Sign(q[1] - p[1]) /\ sy = Sign(q[2] - p[2])
    <3>1. Reached(p, r, Sign(q[1] - p[1]), Sign(q[2] - p[2]), Ahead(p, q, r)[1], Ahead(p, q, r)[2])
      BY <2>1, AheadIs
    <3>2. p[1] \in Int /\ p[2] \in Int
      BY DEF Points
    <3> QED BY <3>1, <3>2 DEF Reached
  <2>3. PICK X \in Int, Y \in Int :
           /\ X = Ahead(p, q, q)[1] /\ Y = Ahead(p, q, q)[2]
           /\ q[1] = x + sx * X /\ q[2] = y + sy * Y
    BY <2>2, AheadIs DEF Reached
  <2>4. ~(i = X /\ j = Y)
    <3>1. r = <<r[1], r[2]>> /\ q = <<q[1], q[2]>>
      BY <2>1, AheadIs
    <3> QED BY <2>1, <2>2, <2>3, <3>1
  <2>5. i <= X /\ j <= Y
    BY <2>1, <2>2, <2>3 DEF InOrder
  <2> QED BY <2>2, <2>3, <2>4, <2>5
<1> QED BY <1>1, <1>2 DEF Ended

\* A beginning that is moved to the first or the last row.
LEMMA BegunInRow ==
  ASSUME NEW p \in Points, NEW q \in Points, NEW a, NEW lo \in Int, NEW hi \in Int,
         Begun(p, q, a, lo, hi), lo <= 0, 0 <= hi,
         -Abs(q[1] - p[1]) - Abs(q[2] - p[2]) <= lo,
         NEW y, \/ y = 0 /\ a[2] < 0 /\ 0 <= q[2]
                \/ y = GL_height - 1 /\ a[2] > GL_height - 1 /\ q[2] <= GL_height - 1
  PROVE  Begun(p, q, AtY(a, q, y), lo, hi + Abs(q[2] - p[2])) /\ AtY(a, q, y)[2] = y
<1> DEFINE n == AtY(a, q, y)
<1>1. /\ a \in Points /\ InOrder(p, q, a, q) /\ lo <= Tilt(p, q, a) /\ Tilt(p, q, a) <= hi
      /\ \A r : OnLine(p, q, r) => InOrder(p, q, a, r)
  BY DEF Begun
<1>2. PICK X \in Nat, Y \in Nat : X = Abs(q[1] - p[1]) /\ Y = Abs(q[2] - p[2])
  BY WholeLine
<1>3. a[2] \in Int /\ q[2] \in Int /\ GL_height \in Nat /\ y \in Int
  BY <1>1, Sides, ScreenSizes
<1>4. a[2] # q[2] /\ ((a[2] <= y /\ y <= q[2]) \/ (q[2] <= y /\ y <= a[2]))
  BY <1>3
<1>5. CutInRow(p, q, a, q, y, n)
  BY <1>1, <1>3, <1>4, CutAtY
<1> HIDE DEF n
<1>6. Tilt(p, q, q) = 0 /\ Tilt(p, q, a) \in Int
  BY <1>1, WholeLine, AheadIs
<1>7. n \in Points /\ n[2] = y /\ InOrder(p, q, n, q) /\ lo <= Tilt(p, q, n) /\ Tilt(p, q, n) <= hi + Y
  BY <1>1, <1>2, <1>5, <1>6 DEF CutInRow
<1>8. ASSUME NEW r, OnLine(p, q, r) PROVE InOrder(p, q, n, r)
  <2>1. r \in Points /\ Tilt(p, q, r) = 0 /\ InOrder(p, q, a, r) /\ r[2] \in 1 .. GL_height - 2
    BY <1>1, <1>8 DEF OnLine
  <2>2. (a[2] < y /\ y < r[2]) \/ (r[2] < y /\ y < a[2])
    BY <1>3, <2>1
  <2>3. -X - Y <= Tilt(p, q, a) /\ -Y <= Tilt(p, q, q)
    BY <1>1, <1>2, <1>6
  <2> QED BY <1>2, <1>5, <2>1, <2>2, <2>3 DEF CutInRow
<1>9. Begun(p, q, n, lo, hi + Y)
  BY <1>7, <1>8 DEF Begun
<1> QED BY <1>2, <1>7, <1>9 DEF n

\* A beginning that is moved to the first or the last column.
LEMMA BegunInColumn ==
  ASSUME NEW p \in Points, NEW q \in Points, NEW a, NEW lo \in Int, NEW hi \in Int,
         Begun(p, q, a, lo, hi), lo <= 0, 0 <= hi,
         hi <= Abs(q[1] - p[1]) + Abs(q[2] - p[2]),
         NEW x, \/ x = 0 /\ a[1] < 0 /\ 0 <= q[1]
                \/ x = GL_width - 1 /\ a[1] > GL_width - 1 /\ q[1] <= GL_width - 1
  PROVE  /\ Begun(p, q, AtX(a, q, x), lo - Abs(q[1] - p[1]), hi)
         /\ AtX(a, q, x)[1] = x /\ InOrder(p, q, a, AtX(a, q, x))
<1> DEFINE n == AtX(a, q, x)
<1>1. /\ a \in Points /\ InOrder(p, q, a, q) /\ lo <= Tilt(p, q, a) /\ Tilt(p, q, a) <= hi
      /\ \A r : OnLine(p, q, r) => InOrder(p, q, a, r)
  BY DEF Begun
<1>2. PICK X \in Nat, Y \in Nat : X = Abs(q[1] - p[1]) /\ Y = Abs(q[2] - p[2])
  BY WholeLine
<1>3. a[1] \in Int /\ q[1] \in Int /\ GL_width \in Nat /\ x \in Int
  BY <1>1, Sides, ScreenSizes
<1>4. a[1] # q[1] /\ ((a[1] <= x /\ x <= q[1]) \/ (q[1] <= x /\ x <= a[1]))
  BY <1>3
<1>5. CutInColumn(p, q, a, q, x, n)
  BY <1>1, <1>3, <1>4, CutAtX
<1> HIDE DEF n
<1>6. Tilt(p, q, q) = 0 /\ Tilt(p, q, a) \in Int
  BY <1>1, WholeLine, AheadIs
<1>7. /\ n \in Points /\ n[1] = x /\ InOrder(p, q, a, n) /\ InOrder(p, q, n, q)
      /\ lo - X <= Tilt(p, q, n) /\ Tilt(p, q, n) <= hi
  BY <1>1, <1>2, <1>5, <1>6 DEF CutInColumn
<1>8. ASSUME NEW r, OnLine(p, q, r) PROVE InOrder(p, q, n, r)
  <2>1. r \in Points /\ Tilt(p, q, r) = 0 /\ InOrder(p, q, a, r) /\ r[1] \in 1 .. GL_width - 2
    BY <1>1, <1>8 DEF OnLine
  <2>2. (a[1] < x /\ x < r[1]) \/ (r[1] < x /\ x < a[1])
    BY <1>3, <2>1
  <2>3. Tilt(p, q, a) <= X + Y /\ Tilt(p, q, q) <= X
    BY <1>1, <1>2, <1>6
  <2> QED BY <1>2, <1>5, <2>1, <2>2, <2>3 DEF CutInColumn
<1>9. Begun(p, q, n, lo - X, hi)
  BY <1>7, <1>8 DEF Begun
<1> QED BY <1>2, <1>7, <1>9 DEF n

\* An end that is moved to the first or the last row.
LEMMA EndedInRow ==
  ASSUME NEW p \in Points, NEW q \in Points, NEW a, NEW X, X = Abs(q[1] - p[1]), NEW Y, Y = Abs(q[2] - p[2]),
         Begun(p, q, a, -X, Y),
         NEW y, \/ y = 0 /\ q[2] < 0 /\ 0 <= a[2]
                \/ y = GL_height - 1 /\ q[2] > GL_height - 1 /\ a[2] <= GL_height - 1
  PROVE  Ended(p, q, a, AtY(a, q, y), -X, 2 * Y) /\ AtY(a, q, y)[2] = y
<1> DEFINE n == AtY(a, q, y)
<1>1. a \in Points /\ InOrder(p, q, a, q) /\ -X <= Tilt(p, q, a) /\ Tilt(p, q, a) <= Y
  BY DEF Begun
<1>2. X \in Nat /\ Y \in Nat
  BY WholeLine
<1>3. a[2] \in Int /\ q[2] \in Int /\ GL_height \in Nat /\ y \in Int
  BY <1>1, Sides, ScreenSizes
<1>4. a[2] # q[2] /\ ((a[2] <= y /\ y <= q[2]) \/ (q[2] <= y /\ y <= a[2]))
  BY <1>3
<1>5. CutInRow(p, q, a, q, y, n)
  BY <1>1, <1>3, <1>4, CutAtY
<1> HIDE DEF n
<1>6. Tilt(p, q, q) = 0 /\ Tilt(p, q, a) \in Int
  BY <1>1, WholeLine, AheadIs
<1>7. /\ n \in Points /\ n[2] = y /\ InOrder(p, q, a, n) /\ InOrder(p, q, n, q)
      /\ -X <= Tilt(p, q, n) /\ Tilt(p, q, n) <= 2 * Y
  <2>1. PICK lo \in Int : lo = -X
    BY <1>2
  <2>2. lo <= Tilt(p, q, n) /\ Tilt(p, q, n) <= Y + Y
    BY <1>1, <1>2, <1>5, <1>6, <2>1 DEF CutInRow
  <2>3. Y + Y = 2 * Y
    BY <1>2
  <2> QED BY <1>5, <2>1, <2>2, <2>3 DEF CutInRow
<1>8. ASSUME NEW r, OnLine(p, q, r)
      PROVE  /\ Y <= X => Ahead(p, q, r)[1] <= Ahead(p, q, n)[1]
             /\ Ahead(p, q, r)[2] < Ahead(p, q, n)[2]
  <2>1. r \in Points /\ Tilt(p, q, r) = 0 /\ r[2] \in 1 .. GL_height - 2
    BY <1>8 DEF OnLine
  <2>2. (a[2] < q[2] /\ r[2] < y) \/ (q[2] < a[2] /\ y < r[2])
    BY <1>3, <2>1
  <2>3. Ahead(p, q, r)[2] < Ahead(p, q, n)[2]
    BY <1>5, <2>1, <2>2 DEF CutInRow
  <2>4. ASSUME Y <= X PROVE Ahead(p, q, r)[1] <= Ahead(p, q, n)[1]
    <3>1. Tilt(p, q, a) <= X /\ Tilt(p, q, q) <= X
      BY <1>1, <1>2, <1>6, <2>4
    <3> QED BY <1>5, <2>1, <2>2, <3>1 DEF CutInRow
  <2> QED BY <2>3, <2>4
<1>9. ASSUME NEW r, OnLine(p, q, r) PROVE Ahead(p, q, r)[2] <= Ahead(p, q, n)[2]
  <2>1. r \in Points
    BY <1>9 DEF OnLine
  <2>2. Ahead(p, q, r)[2] \in Int /\ Ahead(p, q, n)[2] \in Int
    BY <1>7, <2>1, AheadIs DEF Reached
  <2> QED BY <1>8, <1>9, <2>2
<1>10. Ended(p, q, a, n, -X, 2 * Y)
  BY <1>7, <1>8, <1>9 DEF Ended
<1> QED BY <1>7, <1>10 DEF n

\* An end that is moved to the first or the last column, maybe after it was moved to a row.
LEMMA EndedInColumn ==
  ASSUME NEW p \in Points, NEW q \in Points, NEW a, NEW X, X = Abs(q[1] - p[1]), NEW Y, Y = Abs(q[2] - p[2]),
         Begun(p, q, a, -X, Y), NEW b, Ended(p, q, a, b, -X, 2 * Y),
         NEW x, \/ x = 0 /\ b[1] < 0 /\ 0 <= a[1]
                \/ x = GL_width - 1 /\ b[1] > GL_width - 1 /\ a[1] <= GL_width - 1
  PROVE  /\ Ended(p, q, a, AtX(a, b, x), -(2 * X), 2 * Y)
         /\ AtX(a, b, x)[1] = x /\ InOrder(p, q, AtX(a, b, x), b)
<1> DEFINE n == AtX(a, b, x)
<1>1. /\ a \in Points /\ InOrder(p, q, a, b) /\ -X <= Tilt(p, q, a) /\ Tilt(p, q, a) <= Y
      /\ b \in Points /\ -X <= Tilt(p, q, b) /\ Tilt(p, q, b) <= 2 * Y /\ InOrder(p, q, b, q)
  BY DEF Begun, Ended
<1>2. X \in Nat /\ Y \in Nat
  BY WholeLine
<1>3. a[1] \in Int /\ b[1] \in Int /\ GL_width \in Nat /\ x \in Int
  BY <1>1, Sides, ScreenSizes
<1>4. a[1] # b[1] /\ ((a[1] <= x /\ x <= b[1]) \/ (b[1] <= x /\ x <= a[1]))
  BY <1>3
<1>5. CutInColumn(p, q, a, b, x, n)
  BY <1>1, <1>3, <1>4, CutAtX
<1> HIDE DEF n
<1>6. Tilt(p, q, a) \in Int /\ Tilt(p, q, b) \in Int
  BY <1>1, AheadIs
<1>7. /\ n \in Points /\ n[1] = x /\ InOrder(p, q, a, n) /\ InOrder(p, q, n, b)
      /\ -(2 * X) <= Tilt(p, q, n) /\ Tilt(p, q, n) <= 2 * Y
  <2>1. PICK lo \in Int, hi \in Int : lo = -X /\ hi = 2 * Y
    BY <1>2
  <2>2. /\ lo <= Tilt(p, q, a) /\ Tilt(p, q, a) <= hi /\ lo <= Tilt(p, q, b) /\ Tilt(p, q, b) <= hi
    BY <1>1, <1>2, <1>6, <2>1
  <2>3. lo - X <= Tilt(p, q, n) /\ Tilt(p, q, n) <= hi
    BY <1>5, <2>2 DEF CutInColumn
  <2>4. lo - X = -(2 * X)
    BY <1>2, <2>1
  <2> QED BY <1>5, <2>1, <2>3, <2>4 DEF CutInColumn
<1>8. InOrder(p, q, n, q)
  <2>1. /\ \A k \in {1, 2} : Ahead(p, q, n)[k] \in Int /\ Ahead(p, q, b)[k] \in Int /\ Ahead(p, q, q)[k] \in Int
    BY <1>1, <1>7, AheadIs DEF Reached
  <2> QED BY <1>1, <1>7, <2>1 DEF InOrder
<1>9. ASSUME NEW r, OnLine(p, q, r)
      PROVE  /\ X <= Y => Ahead(p, q, r)[2] <= Ahead(p, q, n)[2]
             /\ Ahead(p, q, r)[1] < Ahead(p, q, n)[1] /\ Ahead(p, q, r)[1] <= Ahead(p, q, n)[1]
  <2>1. r \in Points /\ Tilt(p, q, r) = 0 /\ r[1] \in 1 .. GL_width - 2
    BY <1>9 DEF OnLine
  <2>2. (a[1] < b[1] /\ r[1] < x) \/ (b[1] < a[1] /\ x < r[1])
    BY <1>3, <2>1
  <2>3. Ahead(p, q, r)[1] < Ahead(p, q, n)[1]
    BY <1>5, <2>1, <2>2 DEF CutInColumn
  <2>4. ASSUME X <= Y PROVE Ahead(p, q, r)[2] <= Ahead(p, q, n)[2]
    <3>1. -Y <= Tilt(p, q, a) /\ -Y <= Tilt(p, q, b)
      BY <1>1, <1>2, <1>6, <2>4
    <3> QED BY <1>5, <2>1, <2>2, <3>1 DEF CutInColumn
  <2>5. Ahead(p, q, r)[1] \in Int /\ Ahead(p, q, n)[1] \in Int
    BY <1>7, <2>1, AheadIs DEF Reached
  <2> QED BY <2>3, <2>4, <2>5
<1>10. Ended(p, q, a, n, -(2 * X), 2 * Y)
  BY <1>7, <1>8, <1>9 DEF Ended
<1> QED BY <1>7, <1>10 DEF n

\* What becomes of the line from p to q: nothing, if no point on it can be seen, or a line between
\* two points on the screen that are near to it.
Outcome(p, q, ends) ==
    \/ ends = <<>> /\ \A r : ~OnLine(p, q, r)
    \/ \E a, b \in Points :
          /\ ends = <<a, b>> /\ code(a) = {} /\ code(b) = {}
          /\ Begun(p, q, a, -Abs(q[1] - p[1]), Abs(q[2] - p[2]))
          /\ Ended(p, q, a, b, -(2 * Abs(q[1] - p[1])), 2 * Abs(q[2] - p[2]))

LEMMA Wider ==
  ASSUME NEW p \in Points, NEW q \in Points, NEW a, NEW lo \in Int, NEW hi \in Int,
         Begun(p, q, a, lo, hi), NEW low \in Int, NEW high \in Int, low <= lo, hi <= high
  PROVE  Begun(p, q, a, low, high)
<1>1. a \in Points /\ Tilt(p, q, a) \in Int
  BY AheadIs DEF Begun
<1>2. low <= Tilt(p, q, a) /\ Tilt(p, q, a) <= high
  BY <1>1 DEF Begun
<1> QED BY <1>2 DEF Begun

LEMMA WiderEnd ==
  ASSUME NEW p \in Points, NEW q \in Points, NEW a, NEW b, NEW lo \in Int, NEW hi \in Int,
         Ended(p, q, a, b, lo, hi), NEW low \in Int, NEW high \in Int, low <= lo, hi <= high
  PROVE  Ended(p, q, a, b, low, high)
<1>1. b \in Points /\ Tilt(p, q, b) \in Int
  BY AheadIs DEF Ended
<1>2. low <= Tilt(p, q, b) /\ Tilt(p, q, b) <= high
  BY <1>1 DEF Ended
<1> QED BY <1>2 DEF Ended

\* A point on the screen.
LEMMA SeenIs ==
  ASSUME NEW z \in Points
  PROVE  /\ code(z) = {} <=> z[1] \in 0 .. GL_width - 1 /\ z[2] \in 0 .. GL_height - 1
         /\ GL_width \in Nat /\ GL_height \in Nat /\ z[1] \in Int /\ z[2] \in Int
<1>1. GL_width \in Nat /\ GL_height \in Nat
  BY ScreenSizes
<1>2. code(z) = {} <=> \A side \in {"LEFT", "RIGHT", "BOTTOM", "TOP"} : side \notin code(z)
  BY Sides
<1>3. code(z) = {} <=> ~(z[1] < 0) /\ ~(z[1] > GL_width - 1) /\ ~(z[2] < 0) /\ ~(z[2] > GL_height - 1)
  BY <1>2, Sides
<1> QED BY <1>1, <1>3, Sides

\* The beginning is on the screen, the row of the end is.
LEMMA LastCut ==
  ASSUME NEW p \in Points, NEW q \in Points, NEW X, X = Abs(q[1] - p[1]), NEW Y, Y = Abs(q[2] - p[2]),
         NEW a, code(a) = {}, Begun(p, q, a, -X, Y),
         NEW b, Ended(p, q, a, b, -X, 2 * Y), b[2] \in 0 .. GL_height - 1
  PROVE  Outcome(p, q, Clipped[<<a, b>>])
<1>1. X \in Nat /\ Y \in Nat
  BY WholeLine
<1>2. a \in Points /\ b \in Points /\ a[1] \in 0 .. GL_width - 1 /\ a[2] \in 0 .. GL_height - 1
  BY SeenIs DEF Begun, Ended
<1>3. PICK lo \in Int, hi \in Int, low \in Int : lo = -X /\ hi = 2 * Y /\ low = -(2 * X) /\ low <= lo
  BY <1>1
<1>4. \A c \in Points : <<a, c>> \in Points \X Points /\ <<a, c>>[1] = a /\ <<a, c>>[2] = c
  BY <1>2
<1>5. CASE code(b) = {}
  <2>1. Clipped[<<a, b>>] = <<a, b>>
    BY <1>2, <1>4, <1>5, ClippedIs DEF Decided
  <2>2. Ended(p, q, a, b, low, hi)
    <3>1. Ended(p, q, a, b, lo, hi) /\ hi <= hi
      BY <1>3
    <3> QED BY <1>3, <3>1, WiderEnd
  <2> QED BY <1>2, <1>3, <1>5, <2>1, <2>2 DEF Outcome
<1>6. CASE code(b) # {}
  <2> DEFINE n == Intersection(a, b, code(b))
  <2>1. Clipped[<<a, b>>] = Clipped[<<a, n>>]
    <3>1. ~Decided(<<a, b>>) /\ Shortened(<<a, b>>) = <<a, n>>
      BY <1>4, <1>6, <1>2 DEF Decided, Shortened
    <3> HIDE DEF n
    <3> QED BY <1>2, <1>4, <3>1, ClippedIs
  <2>2. \E x : /\ n = AtX(a, b, x) /\ x \in 0 .. GL_width - 1
               /\ \/ x = 0 /\ b[1] < 0 /\ 0 <= a[1]
                  \/ x = GL_width - 1 /\ b[1] > GL_width - 1 /\ a[1] <= GL_width - 1
    <3>1. "TOP" \notin code(b) /\ "BOTTOM" \notin code(b)
      BY <1>2, Sides, ScreenSizes
    <3>2. GL_width \in Nat \ {0} /\ a[1] \in Int
      BY <1>2, ScreenSizes
    <3>3. CASE "RIGHT" \in code(b)
      <4>1. n = AtX(a, b, GL_width - 1) /\ b[1] > GL_width - 1
        BY <1>2, <3>1, <3>3, Sides DEF Intersection
      <4>2. GL_width - 1 \in 0 .. GL_width - 1 /\ a[1] <= GL_width - 1
        BY <1>2, <3>2
      <4> HIDE DEF n
      <4> QED BY <4>1, <4>2
    <3>4. CASE "RIGHT" \notin code(b)
      <4>1. "LEFT" \in code(b)
        BY <1>2, <1>6, <3>1, <3>4, Sides
      <4>2. n = AtX(a, b, 0) /\ b[1] < 0
        BY <1>2, <3>1, <3>4, <4>1, Sides DEF Intersection
      <4>3. 0 \in 0 .. GL_width - 1 /\ 0 <= a[1]
        BY <1>2, <3>2
      <4> HIDE DEF n
      <4> QED BY <4>2, <4>3
    <3> QED BY <3>3, <3>4
  <2> HIDE DEF n
  <2>3. PICK x : /\ n = AtX(a, b, x) /\ x \in 0 .. GL_width - 1
                 /\ \/ x = 0 /\ b[1] < 0 /\ 0 <= a[1]
                    \/ x = GL_width - 1 /\ b[1] > GL_width - 1 /\ a[1] <= GL_width - 1
    BY <2>2
  <2>4. Ended(p, q, a, n, -(2 * X), 2 * Y) /\ n[1] = x /\ InOrder(p, q, n, b)
    BY <2>3, EndedInColumn
  <2>5. n \in Points /\ InOrder(p, q, a, n)
    BY <2>4 DEF Ended
  <2>6. n[2] \in 0 .. GL_height - 1
    <3>1. (a[2] <= n[2] /\ n[2] <= b[2]) \/ (b[2] <= n[2] /\ n[2] <= a[2])
      BY <1>2, <2>4, <2>5, OnTheWayThere
    <3> QED BY <1>2, <2>5, <3>1, SeenIs
  <2>7. code(n) = {}
    BY <2>3, <2>4, <2>5, <2>6, SeenIs
  <2>8. Clipped[<<a, n>>] = <<a, n>>
    BY <1>4, <2>5, <2>7, ClippedIs DEF Decided
  <2> QED BY <1>2, <2>1, <2>4, <2>5, <2>7, <2>8 DEF Outcome
<1> QED BY <1>5, <1>6

\* The beginning is on the screen.
LEMMA EndCut ==
  ASSUME NEW p \in Points, NEW q \in Points, NEW X, X = Abs(q[1] - p[1]), NEW Y, Y = Abs(q[2] - p[2]),
         NEW a, code(a) = {}, Begun(p, q, a, -X, Y)
  PROVE  Outcome(p, q, Clipped[<<a, q>>])
<1>1. X \in Nat /\ Y \in Nat
  BY WholeLine
<1>2. a \in Points /\ a[1] \in 0 .. GL_width - 1 /\ a[2] \in 0 .. GL_height - 1
  BY SeenIs DEF Begun
<1>3. PICK lo \in Int, hi \in Int : lo = -X /\ hi = 2 * Y /\ lo <= 0 /\ 0 <= hi
  BY <1>1
<1>4. CASE q[2] \in 0 .. GL_height - 1
  <2>1. Ended(p, q, a, q, lo, hi)
    <3>1. Ended(p, q, a, q, 0, 0)
      BY WholeEnd
    <3> QED BY <1>3, <3>1, WiderEnd
  <2> QED BY <1>3, <1>4, <2>1, LastCut
<1>5. CASE q[2] \notin 0 .. GL_height - 1
  <2> DEFINE n == Intersection(a, q, code(q))
  <2>1. q[2] \in Int /\ a[2] \in Int /\ GL_height \in Nat \ {0}
    BY <1>2, Sides, ScreenSizes
  <2>2. \E y : /\ n = AtY(a, q, y) /\ y \in 0 .. GL_height - 1
               /\ \/ y = 0 /\ q[2] < 0 /\ 0 <= a[2]
                  \/ y = GL_height - 1 /\ q[2] > GL_height - 1 /\ a[2] <= GL_height - 1
    <3>1. CASE q[2] > GL_height - 1
      <4>1. n = AtY(a, q, GL_height - 1)
        BY <3>1, Sides DEF Intersection
      <4>2. GL_height - 1 \in 0 .. GL_height - 1 /\ a[2] <= GL_height - 1
        BY <1>2, <2>1
      <4> HIDE DEF n
      <4> QED BY <3>1, <4>1, <4>2
    <3>2. CASE ~(q[2] > GL_height - 1)
      <4>1. q[2] < 0
        BY <1>5, <2>1, <3>2
      <4>2. n = AtY(a, q, 0)
        BY <3>2, <4>1, Sides DEF Intersection
      <4>3. 0 \in 0 .. GL_height - 1 /\ 0 <= a[2]
        BY <1>2, <2>1
      <4> HIDE DEF n
      <4> QED BY <4>1, <4>2, <4>3
    <3> QED BY <3>1, <3>2
  <2>3. code(q) # {}
    BY <1>5, SeenIs
  <2>4. Clipped[<<a, q>>] = Clipped[<<a, n>>]
    <3> DEFINE e == <<a, q>>
    <3>1. e \in Points \X Points /\ e[1] = a /\ e[2] = q
      BY <1>2
    <3> HIDE DEF e
    <3>2. ~Decided(e) /\ Shortened(e) = <<a, n>>
      BY <2>3, <3>1 DEF Decided, Shortened
    <3> HIDE DEF n
    <3> QED BY <3>1, <3>2, ClippedIs DEF e
  <2> HIDE DEF n
  <2>5. PICK y : /\ n = AtY(a, q, y) /\ y \in 0 .. GL_height - 1
                 /\ \/ y = 0 /\ q[2] < 0 /\ 0 <= a[2]
                    \/ y = GL_height - 1 /\ q[2] > GL_height - 1 /\ a[2] <= GL_height - 1
    BY <2>2
  <2>6. Ended(p, q, a, n, -X, 2 * Y) /\ n[2] = y
    BY <2>5, EndedInRow
  <2> QED BY <2>4, <2>5, <2>6, LastCut
<1> QED BY <1>4, <1>5

\* The row of the beginning is on the screen.
LEMMA BeginningCut ==
  ASSUME NEW p \in Points, NEW q \in Points, NEW X, X = Abs(q[1] - p[1]), NEW Y, Y = Abs(q[2] - p[2]),
         NEW a, Begun(p, q, a, 0, Y), a[2] \in 0 .. GL_height - 1
  PROVE  Outcome(p, q, Clipped[<<a, q>>])
<1>1. X \in Nat /\ Y \in Nat
  BY WholeLine
<1>2. a \in Points
  BY DEF Begun
<1>3. PICK lo \in Int : lo = -X /\ lo <= 0 /\ lo = 0 - X
  BY <1>1
<1>4. ASSUME NEW c \in Points, Begun(p, q, c, lo, Y), code(c) \cap code(q) # {}
      PROVE  Outcome(p, q, Clipped[<<c, q>>])
  <2>1. \A r : ~OnLine(p, q, r)
    BY <1>4, Rejected
  <2> DEFINE e == <<c, q>>
  <2>2. e \in Points \X Points /\ e[1] = c /\ e[2] = q
    OBVIOUS
  <2> HIDE DEF e
  <2>3. Decided(e) /\ ~(code(e[1]) = {} /\ code(e[2]) = {})
    BY <1>4, <2>2 DEF Decided
  <2>4. Clipped[e] = <<>>
    BY <2>2, <2>3, ClippedIs
  <2> QED BY <2>1, <2>4 DEF Outcome, e
<1>5. Begun(p, q, a, lo, Y)
  BY <1>1, <1>3, Wider
<1>6. CASE code(a) = {}
  BY <1>3, <1>5, <1>6, EndCut
<1>7. CASE code(a) \cap code(q) # {}
  BY <1>2, <1>4, <1>5, <1>7
<1>8. CASE code(a) # {} /\ code(a) \cap code(q) = {}
  <2> DEFINE n == Intersection(a, q, code(a))
  <2>1. a[1] \in Int /\ a[2] \in Int /\ q[1] \in Int /\ q[2] \in Int /\ GL_width \in Nat \ {0} /\ GL_height \in Nat
    BY <1>2, Sides, ScreenSizes
  <2>2. \E x : /\ n = AtX(a, q, x) /\ x \in 0 .. GL_width - 1
               /\ \/ x = 0 /\ a[1] < 0 /\ 0 <= q[1]
                  \/ x = GL_width - 1 /\ a[1] > GL_width - 1 /\ q[1] <= GL_width - 1
    <3>1. "TOP" \notin code(a) /\ "BOTTOM" \notin code(a)
      BY <1>2, <2>1, Sides
    <3>2. CASE "RIGHT" \in code(a)
      <4>1. n = AtX(a, q, GL_width - 1) /\ a[1] > GL_width - 1 /\ ~(q[1] > GL_width - 1)
        BY <1>2, <1>8, <3>1, <3>2, Sides DEF Intersection
      <4>2. GL_width - 1 \in 0 .. GL_width - 1
        BY <2>1
      <4> HIDE DEF n
      <4> QED BY <2>1, <4>1, <4>2
    <3>3. CASE "RIGHT" \notin code(a)
      <4>1. "LEFT" \in code(a)
        BY <1>2, <1>8, <3>1, <3>3, Sides
      <4>2. n = AtX(a, q, 0) /\ a[1] < 0 /\ ~(q[1] < 0)
        BY <1>2, <1>8, <3>1, <3>3, <4>1, Sides DEF Intersection
      <4>3. 0 \in 0 .. GL_width - 1
        BY <2>1
      <4> HIDE DEF n
      <4> QED BY <2>1, <4>2, <4>3
    <3> QED BY <3>2, <3>3
  <2>3. Clipped[<<a, q>>] = Clipped[<<n, q>>]
    <3> DEFINE e == <<a, q>>
    <3>1. e \in Points \X Points /\ e[1] = a /\ e[2] = q
      BY <1>2
    <3> HIDE DEF e
    <3>2. ~Decided(e) /\ Shortened(e) = <<n, q>>
      BY <1>8, <3>1 DEF Decided, Shortened
    <3> HIDE DEF n
    <3> QED BY <3>1, <3>2, ClippedIs DEF e
  <2> HIDE DEF n
  <2>4. PICK x : /\ n = AtX(a, q, x) /\ x \in 0 .. GL_width - 1
                 /\ \/ x = 0 /\ a[1] < 0 /\ 0 <= q[1]
                    \/ x = GL_width - 1 /\ a[1] > GL_width - 1 /\ q[1] <= GL_width - 1
    BY <2>2
  <2>5. Begun(p, q, n, lo, Y) /\ n[1] = x /\ InOrder(p, q, a, n)
    <3>1. 0 <= Y /\ Y <= X + Y
      BY <1>1
    <3> QED BY <1>1, <1>3, <2>4, <3>1, BegunInColumn
  <2>6. n \in Points /\ InOrder(p, q, n, q)
    BY <2>5 DEF Begun
  <2>7. code(n) = {} \/ code(n) \cap code(q) # {}
    <3>1. (a[2] <= n[2] /\ n[2] <= q[2]) \/ (q[2] <= n[2] /\ n[2] <= a[2])
      BY <1>2, <2>5, <2>6, OnTheWayThere
    <3>2. CASE n[2] \in 0 .. GL_height - 1
      BY <2>4, <2>5, <2>6, <3>2, SeenIs
    <3>3. CASE n[2] > GL_height - 1
      <4>1. q[2] > GL_height - 1
        BY <2>1, <2>6, <3>1, <3>3, SeenIs
      <4> QED BY <2>6, <3>3, <4>1, Sides
    <3>4. CASE n[2] < 0
      <4>1. q[2] < 0
        BY <2>1, <2>6, <3>1, <3>4, SeenIs
      <4> QED BY <2>6, <3>4, <4>1, Sides
    <3> QED BY <2>1, <2>6, <3>2, <3>3, <3>4, SeenIs
  <2>8. CASE code(n) = {}
    BY <1>3, <2>3, <2>5, <2>8, EndCut
  <2>9. CASE code(n) \cap code(q) # {}
    BY <1>4, <2>3, <2>5, <2>6, <2>9
  <2> QED BY <2>7, <2>8, <2>9
<1> QED BY <1>6, <1>7, <1>8

\* What Clipped makes of a line.
LEMMA ClippedToScreen ==
  ASSUME NEW p \in Points, NEW q \in Points
  PROVE  Outcome(p, q, Clipped[<<p, q>>])
<1>1. PICK X \in Nat, Y \in Nat : X = Abs(q[1] - p[1]) /\ Y = Abs(q[2] - p[2])
  BY WholeLine
<1>2. p[2] \in Int /\ q[2] \in Int /\ GL_height \in Nat \ {0}
  BY Sides, ScreenSizes
<1>3. Begun(p, q, p, 0, 0)
  BY WholeLine
<1> DEFINE e == <<p, q>>
<1>4. e \in Points \X Points /\ e[1] = p /\ e[2] = q
  OBVIOUS
<1> HIDE DEF e
<1>5. CASE p[2] \in 0 .. GL_height - 1
  <2>1. Begun(p, q, p, 0, Y)
    BY <1>1, <1>3, Wider
  <2> QED BY <1>1, <1>5, <2>1, BeginningCut
<1>6. CASE code(p) \cap code(q) # {}
  <2>1. \A r : ~OnLine(p, q, r)
    BY <1>3, <1>6, Rejected
  <2>2. Decided(e) /\ ~(code(e[1]) = {} /\ code(e[2]) = {})
    BY <1>4, <1>6 DEF Decided
  <2>3. Clipped[e] = <<>>
    BY <1>4, <2>2, ClippedIs
  <2> QED BY <2>1, <2>3 DEF Outcome, e
<1>7. CASE p[2] \notin 0 .. GL_height - 1 /\ code(p) \cap code(q) = {}
  <2> DEFINE n == Intersection(p, q, code(p))
  <2>1. \E y : /\ n = AtY(p, q, y) /\ y \in 0 .. GL_height - 1
               /\ \/ y = 0 /\ p[2] < 0 /\ 0 <= q[2]
                  \/ y = GL_height - 1 /\ p[2] > GL_height - 1 /\ q[2] <= GL_height - 1
    <3>1. CASE p[2] > GL_height - 1
      <4>1. n = AtY(p, q, GL_height - 1) /\ ~(q[2] > GL_height - 1)
        BY <1>7, <3>1, Sides DEF Intersection
      <4>2. GL_height - 1 \in 0 .. GL_height - 1
        BY <1>2
      <4> HIDE DEF n
      <4> QED BY <1>2, <3>1, <4>1, <4>2
    <3>2. CASE ~(p[2] > GL_height - 1)
      <4>1. p[2] < 0
        BY <1>2, <1>7, <3>2
      <4>2. n = AtY(p, q, 0) /\ ~(q[2] < 0)
        BY <1>7, <3>2, <4>1, Sides DEF Intersection
      <4>3. 0 \in 0 .. GL_height - 1
        BY <1>2
      <4> HIDE DEF n
      <4> QED BY <1>2, <4>1, <4>2, <4>3
    <3> QED BY <3>1, <3>2
  <2>2. Clipped[e] = Clipped[<<n, q>>]
    <3>1. code(p) # {}
      BY <1>7, SeenIs
    <3>2. ~Decided(e) /\ Shortened(e) = <<n, q>>
      BY <1>4, <1>7, <3>1 DEF Decided, Shortened
    <3> HIDE DEF n
    <3> QED BY <1>4, <3>2, ClippedIs
  <2> HIDE DEF n
  <2>3. PICK y : /\ n = AtY(p, q, y) /\ y \in 0 .. GL_height - 1
                 /\ \/ y = 0 /\ p[2] < 0 /\ 0 <= q[2]
                    \/ y = GL_height - 1 /\ p[2] > GL_height - 1 /\ q[2] <= GL_height - 1
    BY <2>1
  <2>4. Begun(p, q, n, 0, Y) /\ n[2] = y
    <3>1. -X - Y <= 0 /\ 0 + Y = Y
      BY <1>1
    <3> QED BY <1>1, <1>3, <2>3, <3>1, BegunInRow
  <2>5. Outcome(p, q, Clipped[<<n, q>>])
    BY <1>1, <2>3, <2>4, BeginningCut
  <2> QED BY <2>2, <2>5 DEF e
<1> QED BY <1>5, <1>6, <1>7

-------------------------------------------------------------------------------
(* Figures: a cut line is near.                                            *)

\* A walk of A columns and B rows passes a point that is at most two rows beside the true line,
\* and not beyond its end.
LEMMA StairsPass ==
  ASSUME NEW A \in Nat, NEW B \in 0 .. A, NEW u \in 0 .. A, NEW v \in Nat, u < A \/ v < B,
         A * v - B * u <= 2 * A, B * u - A * v <= 2 * A
  PROVE  \E i \in 0 .. A, j \in 0 .. B : <<i, j>> \in Stairs(A, B) /\ Abs(i - u) + Abs(j - v) <= 3
<1>1. A \in Nat \ {0} /\ B \in Nat
  OBVIOUS
<1>2. PICK y \in Int, z \in Int :
         y = B * u /\ z = v * A /\ z - y <= 2 * A /\ y - z <= 2 * A
  <2>1. A * v = v * A /\ v * A \in Int /\ B * u \in Int
    OBVIOUS
  <2> QED BY <2>1
<1>3. \A n \in Int, k \in Int : n + 2 < k => n * A + 3 * A <= k * A
  <2> SUFFICES ASSUME NEW n \in Int, NEW k \in Int, n + 2 < k PROVE n * A + 3 * A <= k * A
    OBVIOUS
  <2>1. (n + 2) * A + A <= k * A
    BY <1>1, Multiples
  <2>2. (n + 2) * A + A = n * A + 3 * A
    BY <1>1
  <2> QED BY <2>1, <2>2
<1>4. CASE u < A
  <2>1. PICK c \in 0 .. B : c = Column(A, B, u)
    BY <1>1, ColumnBounds
  <2>2. PICK x \in Int : x = c * A /\ 2 * x - 2 * y <= A /\ 2 * y - 2 * x <= A
    <3>1. c * A = A * c /\ c * A \in Int
      BY <1>1
    <3>2. 1 - A <= 2 * (A * c) - 2 * (B * u) /\ 2 * (A * c) - 2 * (B * u) <= A
      BY <1>1, <2>1, ColumnBounds
    <3>3. PICK x \in Int : x = c * A
      BY <3>1
    <3> QED BY <1>1, <1>2, <3>1, <3>2, <3>3
  <2>3. ~(v + 2 < c) /\ ~(c + 2 < v)
    <3>1. v + 2 < c => z + 3 * A <= x
      BY <1>2, <1>3, <2>2
    <3>2. c + 2 < v => x + 3 * A <= z
      BY <1>2, <1>3, <2>2
    <3> QED BY <1>1, <1>2, <2>2, <3>1, <3>2
  <2>4. <<u, c>> \in Stairs(A, B)
    BY <1>1, <1>4, <2>1, StairsAre
  <2>5. Abs(u - u) + Abs(c - v) <= 3
    BY <2>3 DEF Abs
  <2> QED BY <2>4, <2>5
<1>5. CASE u = A
  <2>1. v < B
    BY <1>5
  <2>2. B * A = y
    BY <1>2, <1>5
  <2>3. B <= v + 2
    <3>1. v + 2 < B => z + 3 * A <= y
      BY <1>2, <1>3, <2>2
    <3> QED BY <1>1, <1>2, <3>1
  <2>4. A - 1 \in 0 .. A /\ A - 1 \in 0 .. A - 1
    BY <1>1
  <2>5. PICK c \in 0 .. B : c = Column(A, B, A - 1)
    BY <1>1, <2>4, ColumnBounds
  <2>6. B - 1 <= c
    <3>1. PICK x \in Int : x = c * A
      OBVIOUS
    <3>2. 1 - A <= 2 * (A * c) - 2 * (B * (A - 1))
      BY <1>1, <2>4, <2>5, ColumnBounds
    <3>3. B * (A - 1) = y - B /\ A * c = x
      BY <2>2, <3>1
    <3>4. 1 - A <= 2 * x - 2 * (y - B)
      BY <3>2, <3>3
    <3>5. c + 1 < B => (c + 1) * A + A <= B * A
      BY <1>1, Multiples
    <3>6. (c + 1) * A + A = x + 2 * A
      BY <3>1
    <3>7. c + 1 < B => x + 2 * A <= y
      BY <2>2, <3>5, <3>6
    <3> QED BY <1>1, <1>2, <3>4, <3>7
  <2>7. <<A - 1, c>> \in Stairs(A, B)
    BY <1>1, <2>4, <2>5, StairsAre
  <2>8. Abs((A - 1) - u) + Abs(c - v) <= 3
    BY <1>5, <2>1, <2>3, <2>6 DEF Abs
  <2> QED BY <2>4, <2>7, <2>8
<1> QED BY <1>4, <1>5

\* So does a walk that goes along the rows.
LEMMA StairsPassAcross ==
  ASSUME NEW B \in Nat, NEW A \in 0 .. B, NEW u \in 0 .. A, NEW v \in Nat, u < A \/ v < B,
         A * v - B * u <= 2 * A, B * u - A * v <= 2 * A
  PROVE  \E i \in 0 .. A, j \in 0 .. B : <<j, i>> \in Stairs(B, A) /\ Abs(i - u) + Abs(j - v) <= 3
<1>1. B \in Nat \ {0} /\ A \in Nat
  OBVIOUS
<1>2. CASE A = 0
  <2>1. u = 0 /\ v < B /\ v \in 0 .. B /\ v \in 0 .. B - 1
    BY <1>2
  <2>2. PICK c \in 0 .. A : c = Column(B, A, v)
    BY <1>1, <2>1, ColumnBounds
  <2>3. <<v, c>> \in Stairs(B, A)
    BY <1>1, <2>1, <2>2, StairsAre
  <2>4. Abs(c - u) + Abs(v - v) <= 3
    BY <1>2, <2>1, <2>2 DEF Abs
  <2> QED BY <2>1, <2>3, <2>4
<1>3. CASE A # 0
  <2>1. A \in Nat \ {0}
    BY <1>3
  <2>2. PICK n \in Int, z \in Int :
           n = u * B /\ z = v * A /\ z - n <= 2 * A /\ n - z <= 2 * A
    <3>1. A * v = v * A /\ v * A \in Int /\ B * u = u * B /\ u * B \in Int
      OBVIOUS
    <3> QED BY <3>1
  <2>3. PICK t \in Int, w \in 0 .. A - 1 : n = t * A + w
    <3>1. \E t \in Int, w \in 0 .. A - 1 : n = t * A + w /\ n \div A = t /\ n % A = w
      BY <2>1, Divided
    <3> QED BY <3>1
  <2>4. PICK m \in Int : m = t * A /\ n = m + w
    BY <2>3
  <2>5. \A k, l \in Int : k + 2 < l => k * A + 3 * A <= l * A
    <3> SUFFICES ASSUME NEW k \in Int, NEW l \in Int, k + 2 < l PROVE k * A + 3 * A <= l * A
      OBVIOUS
    <3>1. (k + 2) * A + A <= l * A
      BY <2>1, Multiples
    <3>2. (k + 2) * A + A = k * A + 3 * A
      BY <2>1
    <3> QED BY <3>1, <3>2
  <2>6. u * B <= A * B /\ A * B \in Int /\ u = A => n = A * B
    <3>1. u < A => u * B + B <= A * B
      BY <1>1, Multiples
    <3> QED BY <2>2, <3>1
  <2>7. n <= A * B /\ A * B = B * A
    <3>1. u < A => u * B + B <= A * B
      BY <1>1, Multiples
    <3>2. u * B \in Int /\ A * B \in Int
      OBVIOUS
    <3>3. u = A => u * B = A * B
      OBVIOUS
    <3> QED BY <1>1, <2>2, <3>1, <3>2, <3>3
  <2>8. t \in 0 .. B
    <3>1. t < 0 => t * A + A <= 0 * A
      BY <2>1, Multiples
    <3>2. B < t => B * A + A <= t * A
      BY <2>1, Multiples
    <3>3. n >= 0 /\ 0 * A = 0 /\ B * A \in Int
      BY <2>2, ProductSign
    <3> QED BY <2>1, <2>3, <2>4, <2>7, <3>1, <3>2, <3>3
  <2>9. CASE t < B
    <3>1. t \in 0 .. B /\ t \in 0 .. B - 1
      BY <2>8, <2>9
    <3>2. PICK c \in 0 .. A : c = Column(B, A, t)
      BY <1>1, <3>1, ColumnBounds
    <3>3. PICK x \in Int : x = c * B /\ 1 - B <= 2 * x - 2 * m /\ 2 * x - 2 * m <= B
      <4>1. 1 - B <= 2 * (B * c) - 2 * (A * t) /\ 2 * (B * c) - 2 * (A * t) <= B
        BY <1>1, <3>1, <3>2, ColumnBounds
      <4>2. B * c = c * B /\ c * B \in Int /\ A * t = m
        BY <2>4
      <4> QED BY <4>1, <4>2
    <3>4. ~(u < c)
      <4>1. u < c => u * B + B <= c * B
        BY <1>1, Multiples
      <4>2. u < c => n + B <= x
        BY <2>2, <3>3, <4>1
      <4> QED BY <1>1, <2>4, <3>3, <4>2
    <3>5. ~(c + 1 < u)
      <4>1. c + 1 < u => (c + 1) * B + B <= u * B
        BY <1>1, Multiples
      <4>2. (c + 1) * B + B = x + 2 * B
        BY <3>3
      <4>3. c + 1 < u => x + 2 * B <= n
        BY <2>2, <4>1, <4>2
      <4> QED BY <1>1, <2>4, <3>3, <4>3
    <3>6. ~(t + 2 < v) /\ ~(v + 2 < t)
      <4>1. t + 2 < v => m + 3 * A <= z
        BY <2>2, <2>4, <2>5
      <4>2. v + 2 < t => z + 3 * A <= m
        BY <2>2, <2>4, <2>5
      <4> QED BY <2>1, <2>2, <2>4, <4>1, <4>2
    <3>7. <<t, c>> \in Stairs(B, A)
      BY <1>1, <3>1, <3>2, StairsAre
    <3>8. Abs(c - u) + Abs(t - v) <= 3
      BY <2>8, <3>2, <3>4, <3>5, <3>6 DEF Abs
    <3> QED BY <3>1, <3>7, <3>8
  <2>10. CASE t = B
    <3>1. m = A * B
      BY <2>4, <2>10
    <3>2. u = A
      <4>1. u < A => u * B + B <= A * B
        BY <1>1, Multiples
      <4>2. u < A => n + B <= m
        BY <2>2, <3>1, <4>1
      <4> QED BY <1>1, <2>4, <4>2
    <3>3. v < B /\ B <= v + 2
      <4>1. v + 2 < B => v * A + 3 * A <= B * A
        BY <2>5
      <4>2. v + 2 < B => z + 3 * A <= m
        BY <2>2, <2>7, <3>1, <4>1
      <4> QED BY <2>1, <2>2, <2>4, <3>2, <4>2
    <3>4. B - 1 \in 0 .. B /\ B - 1 \in 0 .. B - 1
      BY <1>1
    <3>5. PICK c \in 0 .. A : c = Column(B, A, B - 1)
      BY <1>1, <3>4, ColumnBounds
    <3>6. ~(c + 1 < A)
      <4>1. PICK x \in Int : x = c * B
        OBVIOUS
      <4>2. 1 - B <= 2 * (B * c) - 2 * (A * (B - 1))
        BY <1>1, <3>4, <3>5, ColumnBounds
      <4>3. A * (B - 1) = m - A /\ B * c = x
        BY <3>1, <4>1
      <4>4. 1 - B <= 2 * x - 2 * (m - A)
        BY <4>2, <4>3
      <4>5. c + 1 < A => (c + 1) * B + B <= A * B
        BY <1>1, Multiples
      <4>6. (c + 1) * B + B = x + 2 * B
        BY <4>1
      <4>7. c + 1 < A => x + 2 * B <= m
        BY <3>1, <4>5, <4>6
      <4> QED BY <1>1, <2>4, <4>4, <4>7
    <3>7. <<B - 1, c>> \in Stairs(B, A)
      BY <1>1, <3>4, <3>5, StairsAre
    <3>8. Abs(c - u) + Abs((B - 1) - v) <= 3
      BY <3>2, <3>3, <3>5, <3>6 DEF Abs
    <3> QED BY <3>4, <3>7, <3>8
  <2> QED BY <2>8, <2>9, <2>10
<1> QED BY <1>2, <1>3

\* A pixel of a line whose ends lean by at most two: it leans as they do, one and a half pixels
\* more or less.
LEMMA LeanBounds ==
  ASSUME NEW S \in Nat, NEW Z \in 0 .. S, NEW A \in Nat \ {0}, NEW i \in 0 .. A,
         NEW l \in Int, NEW m \in Int, NEW n \in Int, NEW e \in Int,
         A * n = (A - i) * l + i * m + Z * e,
         -(2 * S) <= l, l <= 2 * S, -(2 * S) <= m, m <= 2 * S, 2 * e <= 3 * A, -(2 * e) <= 3 * A
  PROVE  2 * n <= 7 * S /\ -(2 * n) <= 7 * S
<1>1. /\ (A - i) * (2 * S - l) >= 0 /\ (A - i) * (2 * S + l) >= 0
      /\ i * (2 * S - m) >= 0 /\ i * (2 * S + m) >= 0
      /\ Z * (3 * A - 2 * e) >= 0 /\ Z * (3 * A + 2 * e) >= 0 /\ A * (S - Z) >= 0
  <2>1. /\ A - i \in Nat /\ 2 * S - l \in Nat /\ 2 * S + l \in Nat /\ i \in Nat /\ 2 * S - m \in Nat
        /\ 2 * S + m \in Nat /\ Z \in Nat /\ 3 * A - 2 * e \in Nat /\ 3 * A + 2 * e \in Nat
        /\ A \in Nat /\ S - Z \in Nat
    OBVIOUS
  <2>2. \A x, y \in Nat : x * y >= 0
    BY ProductSign
  <2> QED BY <2>1, <2>2
<1>2. /\ (A - i) * (2 * S - l) + i * (2 * S - m) = 2 * (A * S) - ((A - i) * l + i * m)
      /\ (A - i) * (2 * S + l) + i * (2 * S + m) = 2 * (A * S) + ((A - i) * l + i * m)
      /\ Z * (3 * A - 2 * e) = 3 * (A * Z) - 2 * (Z * e)
      /\ Z * (3 * A + 2 * e) = 3 * (A * Z) + 2 * (Z * e)
      /\ A * (S - Z) = A * S - A * Z
  OBVIOUS
<1>3. /\ (A - i) * l + i * m \in Int /\ A * S \in Int /\ A * Z \in Int /\ Z * e \in Int /\ A * n \in Int
  OBVIOUS
<1>4. 2 * (A * n) <= 7 * (A * S) /\ -(2 * (A * n)) <= 7 * (A * S)
  <2>1. PICK x \in Int : x = (A - i) * l + i * m
    BY <1>3
  <2>2. 2 * (A * S) - x >= 0 /\ 2 * (A * S) + x >= 0
    <3>1. /\ (A - i) * (2 * S - l) \in Int /\ i * (2 * S - m) \in Int
          /\ (A - i) * (2 * S + l) \in Int /\ i * (2 * S + m) \in Int
      OBVIOUS
    <3> QED BY <1>1, <1>2, <1>3, <2>1, <3>1
  <2>3. A * n = x + Z * e
    BY <2>1
  <2> QED BY <1>1, <1>2, <1>3, <2>2, <2>3
<1>5. n * A = A * n /\ (7 * S) * A = 7 * (A * S) /\ (2 * n) * A = 2 * (A * n)
      /\ (-(2 * n)) * A = -(2 * (A * n))
  OBVIOUS
<1>6. ~(7 * S < 2 * n)
  <2>1. 7 * S < 2 * n => (7 * S) * A + A <= (2 * n) * A
    BY Multiples
  <2> QED BY <1>3, <1>4, <1>5, <2>1
<1>7. ~(7 * S < -(2 * n))
  <2>1. PICK k \in Int : k = -(2 * n)
    OBVIOUS
  <2>2. 7 * S < k => (7 * S) * A + A <= k * A
    BY Multiples
  <2>3. k * A = -(2 * (A * n))
    BY <1>5, <2>1
  <2> QED BY <1>3, <1>4, <1>5, <2>1, <2>2, <2>3
<1> QED BY <1>6, <1>7

\* A step of i columns and j rows is in the walk of A columns and B rows.
Walks(A, B, i, j) == IF B > A THEN <<j, i>> \in Stairs(B, A) ELSE <<i, j>> \in Stairs(A, B)

LEMMA WalkPasses ==
  ASSUME NEW A \in Nat, NEW B \in Nat, NEW u \in Nat, NEW v \in Nat, u < A \/ v < B,
         \/ u <= A /\ A * v - B * u <= 2 * A /\ B * u - A * v <= 2 * A
         \/ v <= B /\ A * v - B * u <= 2 * B /\ B * u - A * v <= 2 * B
  PROVE  \E i \in 0 .. A, j \in 0 .. B : Walks(A, B, i, j) /\ Abs(i - u) + Abs(j - v) <= 3
<1>1. CASE u <= A /\ A * v - B * u <= 2 * A /\ B * u - A * v <= 2 * A
  <2>1. u \in 0 .. A
    BY <1>1
  <2>2. CASE B <= A
    <3>1. B \in 0 .. A
      BY <2>2
    <3>2. \E i \in 0 .. A, j \in 0 .. B : <<i, j>> \in Stairs(A, B) /\ Abs(i - u) + Abs(j - v) <= 3
      BY <1>1, <2>1, <3>1, StairsPass
    <3> QED BY <2>2, <3>2 DEF Walks
  <2>3. CASE A < B
    <3>1. A \in 0 .. B
      BY <2>3
    <3>2. \E i \in 0 .. A, j \in 0 .. B : <<j, i>> \in Stairs(B, A) /\ Abs(i - u) + Abs(j - v) <= 3
      BY <1>1, <2>1, <3>1, StairsPassAcross
    <3> QED BY <2>3, <3>2 DEF Walks
  <2> QED BY <2>2, <2>3
<1>2. CASE v <= B /\ A * v - B * u <= 2 * B /\ B * u - A * v <= 2 * B
  <2>1. v \in 0 .. B
    BY <1>2
  <2>2. CASE B <= A
    <3>1. B \in 0 .. A
      BY <2>2
    <3>2. PICK j \in 0 .. B, i \in 0 .. A : <<i, j>> \in Stairs(A, B) /\ Abs(j - v) + Abs(i - u) <= 3
      BY <1>2, <2>1, <3>1, StairsPassAcross
    <3>3. Abs(j - v) + Abs(i - u) = Abs(i - u) + Abs(j - v)
      BY DEF Abs
    <3>4. Walks(A, B, i, j)
      BY <2>2, <3>2 DEF Walks
    <3> QED BY <3>2, <3>3, <3>4
  <2>3. CASE A < B
    <3>1. A \in 0 .. B
      BY <2>3
    <3>2. PICK j \in 0 .. B, i \in 0 .. A : <<j, i>> \in Stairs(B, A) /\ Abs(j - v) + Abs(i - u) <= 3
      BY <1>2, <2>1, <3>1, StairsPass
    <3>3. Abs(j - v) + Abs(i - u) = Abs(i - u) + Abs(j - v)
      BY DEF Abs
    <3>4. Walks(A, B, i, j)
      BY <2>3, <3>2 DEF Walks
    <3> QED BY <3>2, <3>3, <3>4
  <2> QED BY <2>2, <2>3
<1> QED BY <1>1, <1>2

\* The true line is no further from the segment than the ends are from the true line.
LEMMA BesideBounds ==
  ASSUME NEW S \in Nat \ {0}, NEW A \in Nat, NEW u \in 0 .. A,
         NEW l \in Int, NEW m \in Int, NEW e \in Int, (A - u) * l + u * m + S * e = 0,
         -(2 * S) <= l, l <= 2 * S, -(2 * S) <= m, m <= 2 * S
  PROVE  e <= 2 * A /\ -e <= 2 * A
<1>1. /\ (A - u) * (2 * S - l) >= 0 /\ (A - u) * (2 * S + l) >= 0
      /\ u * (2 * S - m) >= 0 /\ u * (2 * S + m) >= 0
  <2>1. /\ A - u \in Nat /\ 2 * S - l \in Nat /\ 2 * S + l \in Nat /\ u \in Nat
        /\ 2 * S - m \in Nat /\ 2 * S + m \in Nat
    OBVIOUS
  <2>2. \A x, y \in Nat : x * y >= 0
    BY ProductSign
  <2> QED BY <2>1, <2>2
<1>2. /\ (A - u) * (2 * S - l) + u * (2 * S - m) = 2 * (A * S) - ((A - u) * l + u * m)
      /\ (A - u) * (2 * S + l) + u * (2 * S + m) = 2 * (A * S) + ((A - u) * l + u * m)
  OBVIOUS
<1>3. PICK x \in Int, y \in Int, z \in Int : x = (A - u) * l + u * m /\ y = e * S /\ z = A * S
  OBVIOUS
<1>4. x = -y
  <2>1. S * e = e * S
    OBVIOUS
  <2>2. x + S * e = 0
    BY <1>3
  <2> QED BY <1>3, <2>1, <2>2
<1>5. y <= 2 * z /\ -y <= 2 * z
  <2>1. /\ (A - u) * (2 * S - l) \in Int /\ u * (2 * S - m) \in Int
        /\ (A - u) * (2 * S + l) \in Int /\ u * (2 * S + m) \in Int
    OBVIOUS
  <2>2. 2 * z - x >= 0 /\ 2 * z + x >= 0
    BY <1>1, <1>2, <1>3, <2>1
  <2> QED BY <1>3, <1>4, <2>2
<1>6. ~(2 * A < e)
  <2>1. 2 * A < e => (2 * A) * S + S <= e * S
    BY Multiples
  <2>2. (2 * A) * S = 2 * z
    BY <1>3
  <2> QED BY <1>3, <1>5, <2>1, <2>2
<1>7. ~(2 * A < -e)
  <2>1. PICK k \in Int : k = -e
    OBVIOUS
  <2>2. 2 * A < k => (2 * A) * S + S <= k * S
    BY Multiples
  <2>3. (2 * A) * S = 2 * z /\ k * S = -y
    BY <1>3, <2>1
  <2> QED BY <1>3, <1>5, <2>1, <2>2, <2>3
<1> QED BY <1>6, <1>7

\* The lean of a point i columns and j rows from one that leans c and d, in terms of its lean and
\* that of the point A columns and B rows on.
LeansBetween(X, Y, c, d, A, B, i, j) ==
    /\ Lean(X, Y, c, d) \in Int /\ Lean(X, Y, c + A, d + B) \in Int /\ Lean(X, Y, c + i, d + j) \in Int
    /\ A * j - B * i \in Int
    /\ A * Lean(X, Y, c + i, d + j)
       = (A - i) * Lean(X, Y, c, d) + i * Lean(X, Y, c + A, d + B) + X * (A * j - B * i)
    /\ B * Lean(X, Y, c + i, d + j)
       = (B - j) * Lean(X, Y, c, d) + j * Lean(X, Y, c + A, d + B) + Y * (A * j - B * i)

LEMMA LeanBetween ==
  ASSUME NEW X \in Nat, NEW Y \in Nat, NEW c \in Int, NEW d \in Int,
         NEW A \in Int, NEW B \in Int, NEW i \in Int, NEW j \in Int
  PROVE  LeansBetween(X, Y, c, d, A, B, i, j)
<1> DEFINE l == X * d - Y * c
<1>1. l \in Int /\ A * j - B * i \in Int
  OBVIOUS
<1>2. /\ Lean(X, Y, c, d) = l
      /\ Lean(X, Y, c + A, d + B) = l + (X * B - Y * A)
      /\ Lean(X, Y, c + i, d + j) = l + (X * j - Y * i)
  BY DEF Lean
<1> HIDE DEF l
<1>3. /\ A * (l + (X * j - Y * i)) = (A - i) * l + i * (l + (X * B - Y * A)) + X * (A * j - B * i)
      /\ B * (l + (X * j - Y * i)) = (B - j) * l + j * (l + (X * B - Y * A)) + Y * (A * j - B * i)
  BY <1>1
<1>4. l + (X * B - Y * A) \in Int /\ l + (X * j - Y * i) \in Int
  BY <1>1
<1> QED BY <1>1, <1>2, <1>3, <1>4 DEF LeansBetween

\* Two points in order: a is ia columns and ja rows on the way from p, b is A and B more.
Placed(p, q, a, b, X, Y, sx, sy, ia, ja, A, B) ==
    /\ X \in Nat /\ Y \in Nat /\ ia \in Nat /\ ja \in Nat /\ A \in Nat /\ B \in Nat
    /\ sx \in {-1, 1} /\ sy \in {-1, 1}
    /\ X = Abs(q[1] - p[1]) /\ Y = Abs(q[2] - p[2]) /\ sx = Sign(q[1] - p[1]) /\ sy = Sign(q[2] - p[2])
    /\ Ahead(p, q, a)[1] = ia /\ Ahead(p, q, a)[2] = ja
    /\ Ahead(p, q, b)[1] = ia + A /\ Ahead(p, q, b)[2] = ja + B
    /\ ia + A <= X /\ ja + B <= Y
    /\ a[1] = p[1] + sx * ia /\ a[2] = p[2] + sy * ja
    /\ b[1] = a[1] + sx * A /\ b[2] = a[2] + sy * B
    /\ Abs(b[1] - a[1]) = A /\ Abs(b[2] - a[2]) = B
    /\ A # 0 => Sign(b[1] - a[1]) = sx
    /\ B # 0 => Sign(b[2] - a[2]) = sy

LEMMA PlacedSomewhere ==
  ASSUME NEW p \in Points, NEW q \in Points, NEW a \in Points, NEW b \in Points, InOrder(p, q, a, b)
  PROVE  \E X, Y \in Nat : \E sx, sy \in {-1, 1} : \E ia, ja, A, B \in Nat :
             Placed(p, q, a, b, X, Y, sx, sy, ia, ja, A, B)
<1>1. PICK X \in Nat, Y \in Nat, sx \in {-1, 1}, sy \in {-1, 1}, s1 \in Int, s2 \in Int :
         /\ X = Abs(q[1] - p[1]) /\ Y = Abs(q[2] - p[2])
         /\ sx = Sign(q[1] - p[1]) /\ sy = Sign(q[2] - p[2]) /\ s1 = p[1] /\ s2 = p[2]
  <2>1. Abs(q[1] - p[1]) \in Nat /\ Abs(q[2] - p[2]) \in Nat
    BY AheadIs
  <2>2. Sign(q[1] - p[1]) \in {-1, 1} /\ Sign(q[2] - p[2]) \in {-1, 1} /\ p[1] \in Int /\ p[2] \in Int
    BY DEF Sign, Points
  <2> QED BY <2>1, <2>2
<1>2. PICK ia \in Int, ja \in Int :
         Ahead(p, q, a)[1] = ia /\ Ahead(p, q, a)[2] = ja /\ a[1] = s1 + sx * ia /\ a[2] = s2 + sy * ja
  BY <1>1, AheadIs DEF Reached
<1>3. PICK ib \in Int, jb \in Int :
         Ahead(p, q, b)[1] = ib /\ Ahead(p, q, b)[2] = jb /\ b[1] = s1 + sx * ib /\ b[2] = s2 + sy * jb
  BY <1>1, AheadIs DEF Reached
<1>4. 0 <= ia /\ ia <= ib /\ ib <= X /\ 0 <= ja /\ ja <= jb /\ jb <= Y
  BY <1>1, <1>2, <1>3 DEF InOrder
<1>5. PICK A \in Nat, B \in Nat : ib = ia + A /\ jb = ja + B
  <2>1. ib - ia \in Nat /\ jb - ja \in Nat /\ ib = ia + (ib - ia) /\ jb = ja + (jb - ja)
    BY <1>4
  <2> QED BY <2>1
<1>6. ASSUME NEW e \in {-1, 1}, NEW x \in Int, NEW i \in Int, NEW k \in Nat,
             NEW z \in Int, NEW y \in Int, z = x + e * i, y = x + e * (i + k)
      PROVE  /\ y = z + e * k /\ Abs(y - z) = k /\ (k # 0 => Sign(y - z) = e)
  <2>1. CASE e = 1
    BY <1>6, <2>1 DEF Abs, Sign
  <2>2. CASE e = -1
    BY <1>6, <2>2 DEF Abs, Sign
  <2> QED BY <2>1, <2>2
<1>7. a[1] \in Int /\ a[2] \in Int /\ b[1] \in Int /\ b[2] \in Int
  BY DEF Points
<1>8. /\ b[1] = a[1] + sx * A /\ Abs(b[1] - a[1]) = A /\ (A # 0 => Sign(b[1] - a[1]) = sx)
  BY <1>2, <1>3, <1>5, <1>6, <1>7
<1>9. /\ b[2] = a[2] + sy * B /\ Abs(b[2] - a[2]) = B /\ (B # 0 => Sign(b[2] - a[2]) = sy)
  BY <1>2, <1>3, <1>5, <1>6, <1>7
<1>10. ia \in Nat /\ ja \in Nat
  BY <1>4
<1>11. Placed(p, q, a, b, X, Y, sx, sy, ia, ja, A, B)
  BY <1>1, <1>2, <1>3, <1>4, <1>5, <1>8, <1>9, <1>10 DEF Placed
<1>12. \E A1, B1 \in Nat : Placed(p, q, a, b, X, Y, sx, sy, ia, ja, A1, B1)
  BY <1>11
<1>13. \E ia1, ja1, A1, B1 \in Nat : Placed(p, q, a, b, X, Y, sx, sy, ia1, ja1, A1, B1)
  BY <1>10, <1>12
<1>14. \E sx1, sy1 \in {-1, 1} : \E ia1, ja1, A1, B1 \in Nat :
          Placed(p, q, a, b, X, Y, sx1, sy1, ia1, ja1, A1, B1)
  BY <1>13
<1> QED BY <1>14

\* A line along the one from s to t: its ends lean by so many times the size of that.
LeansBy(s, t, z, m, n) ==
    -(m * Abs(t[1] - s[1])) <= Tilt(s, t, z) /\ Tilt(s, t, z) <= n * Abs(t[2] - s[2])

Along(s, t, a, b, m, n) == InOrder(s, t, a, b) /\ LeansBy(s, t, a, m, n) /\ LeansBy(s, t, b, m, n)

\* Where the ends lean by two sizes, a pixel is at most three and a half pixels beside the line.
LEMMA AlongIsNear ==
  ASSUME NEW p \in Points, NEW q \in Points, NEW a \in Points, NEW b \in Points,
         Along(p, q, a, b, 2, 2), NEW s \in Segment(a, b)
  PROVE  NearLine(p, q, s, 7)
<1>1. InOrder(p, q, a, b)
  BY DEF Along
<1>2. PICK X \in Nat, Y \in Nat, sx \in {-1, 1}, sy \in {-1, 1},
           ia \in Nat, ja \in Nat, A \in Nat, B \in Nat :
         Placed(p, q, a, b, X, Y, sx, sy, ia, ja, A, B)
  <2>1. InOrder(p, q, a, b)
    BY <1>1
  <2> QED BY <2>1, PlacedSomewhere
<1>3. /\ X = Abs(q[1] - p[1]) /\ Y = Abs(q[2] - p[2]) /\ sx = Sign(q[1] - p[1]) /\ sy = Sign(q[2] - p[2])
      /\ Ahead(p, q, a)[1] = ia /\ Ahead(p, q, a)[2] = ja
      /\ Ahead(p, q, b)[1] = ia + A /\ Ahead(p, q, b)[2] = ja + B
      /\ ia + A <= X /\ ja + B <= Y
      /\ a[1] = p[1] + sx * ia /\ a[2] = p[2] + sy * ja
      /\ b[1] = a[1] + sx * A /\ b[2] = a[2] + sy * B
      /\ Abs(b[1] - a[1]) = A /\ Abs(b[2] - a[2]) = B
      /\ (A # 0 => Sign(b[1] - a[1]) = sx) /\ (B # 0 => Sign(b[2] - a[2]) = sy)
  BY <1>2 DEF Placed
<1>31. ia + A <= X /\ ja + B <= Y
  BY <1>3
<1>4. /\ p \in Int \X Int /\ q \in Int \X Int /\ a \in Int \X Int /\ b \in Int \X Int
      /\ p[1] \in Int /\ p[2] \in Int /\ q[1] \in Int /\ q[2] \in Int
      /\ a[1] \in Int /\ a[2] \in Int /\ b[1] \in Int /\ b[2] \in Int
  BY DEF Points
<1>5. s \in Int \X Int /\ NearLine(a, b, s, 3)
  BY <1>4, SegmentIsNear
<1>6. /\ s[1] \in Min({a[1], b[1]}) .. Max({a[1], b[1]})
      /\ s[2] \in Min({a[2], b[2]}) .. Max({a[2], b[2]})
  BY <1>5 DEF NearLine, Between
<1>7. ASSUME NEW x \in Int, NEW y \in Int, NEW e \in {-1, 1}, NEW z \in Int,
             Abs(y - x) # 0 => Sign(y - x) = e, z \in Min({x, y}) .. Max({x, y})
      PROVE  \E i \in 0 .. Abs(y - x) : z = x + e * i
  <2>1. /\ Abs(y - x) \in Nat
        /\ Abs(z - x) \in 0 .. Abs(y - x) /\ z = x + Sign(y - x) * Abs(z - x)
    BY <1>7, OnTheWay
  <2>2. CASE Abs(y - x) # 0
    BY <1>7, <2>1, <2>2
  <2>3. CASE Abs(y - x) = 0
    <3>1. Abs(z - x) = 0 /\ Sign(y - x) \in {-1, 1}
      BY <2>1, <2>3 DEF Sign
    <3>2. z = x /\ x + e * 0 = x
      BY <2>1, <3>1
    <3> QED BY <2>3, <3>2
  <2> QED BY <2>2, <2>3
<1>8. PICK i \in 0 .. A : s[1] = a[1] + sx * i
  <2>1. s[1] \in Int /\ Abs(b[1] - a[1]) = A /\ (Abs(b[1] - a[1]) # 0 => Sign(b[1] - a[1]) = sx)
    BY <1>3, <1>5
  <2>2. PICK x \in Int, y \in Int, z \in Int : x = a[1] /\ y = b[1] /\ z = s[1]
    BY <1>4, <2>1
  <2>3. z \in Min({x, y}) .. Max({x, y}) /\ (Abs(y - x) # 0 => Sign(y - x) = sx)
    BY <1>6, <2>1, <2>2
  <2>4. \E i \in 0 .. Abs(y - x) : z = x + sx * i
    BY <1>7, <2>3
  <2> QED BY <2>1, <2>2, <2>4
<1>9. PICK j \in 0 .. B : s[2] = a[2] + sy * j
  <2>1. s[2] \in Int /\ Abs(b[2] - a[2]) = B /\ (Abs(b[2] - a[2]) # 0 => Sign(b[2] - a[2]) = sy)
    BY <1>3, <1>5
  <2>2. PICK x \in Int, y \in Int, z \in Int : x = a[2] /\ y = b[2] /\ z = s[2]
    BY <1>4, <2>1
  <2>3. z \in Min({x, y}) .. Max({x, y}) /\ (Abs(y - x) # 0 => Sign(y - x) = sy)
    BY <1>6, <2>1, <2>2
  <2>4. \E j \in 0 .. Abs(y - x) : z = x + sy * j
    BY <1>7, <2>3
  <2> QED BY <2>1, <2>2, <2>4
<1> DEFINE e == A * j - B * i
           S == IF X > Y THEN X ELSE Y
           T == IF A > B THEN A ELSE B
           l == Lean(X, Y, ia, ja)
           m == Lean(X, Y, ia + A, ja + B)
           n == Lean(X, Y, ia + i, ja + j)
<1>10. i \in Int /\ j \in Int /\ e \in Int /\ S \in Nat /\ X \in 0 .. S /\ Y \in 0 .. S /\ T \in Nat
  OBVIOUS
<1>11. 2 * e <= 3 * T /\ -(2 * e) <= 3 * T
  <2>1. Reached(a, b, sx, sy, A, B) /\ Reached(a, s, sx, sy, i, j)
    BY <1>3, <1>8, <1>9, <1>10 DEF Reached
  <2>2. /\ A * j \in Int /\ B * i \in Int
        /\ \/ Cross(a, b, s) = A * j - B * i /\ Cross(b, a, s) = B * i - A * j
           \/ Cross(a, b, s) = B * i - A * j /\ Cross(b, a, s) = A * j - B * i
    BY <1>4, <1>5, <2>1, CrossOnTheWay
  <2>3. Steps(a, b) = T /\ Steps(b, a) = T
    <3>1. Abs(a[1] - b[1]) = Abs(b[1] - a[1]) /\ Abs(a[2] - b[2]) = Abs(b[2] - a[2])
      BY <1>4 DEF Abs
    <3> QED BY <1>3, <3>1 DEF Steps
  <2>4. 2 * Cross(a, b, s) <= 3 * T /\ 2 * Cross(b, a, s) <= 3 * T
    BY <1>5, <2>3 DEF NearLine, Off
  <2>5. B * i - A * j = -e
    BY <2>2
  <2> HIDE DEF e, T
  <2> QED BY <1>10, <2>2, <2>4, <2>5 DEF e
<1>12. T # 0
  <2> SUFFICES ASSUME A = 0, B = 0 PROVE FALSE
    BY <1>3
  <2>1. Stairs(0, 0) = {}
    <3>1. 0 .. 0 - 1 = {}
      OBVIOUS
    <3> QED BY <3>1 DEF Stairs
  <2>2. Segment(a, b) = {}
    BY <1>3, <2>1 DEF Segment
  <2> QED BY <2>2
<1>13. /\ l \in Int /\ m \in Int /\ n \in Int
       /\ A * n = (A - i) * l + i * m + X * e
       /\ B * n = (B - j) * l + j * m + Y * e
  <2>1. ia \in Int /\ ja \in Int /\ A \in Int /\ B \in Int
    OBVIOUS
  <2>2. /\ l \in Int /\ m \in Int /\ n \in Int /\ e \in Int
        /\ A * n = (A - i) * l + i * m + X * e
        /\ B * n = (B - j) * l + j * m + Y * e
    <3>1. LeansBetween(X, Y, ia, ja, A, B, i, j)
      BY <1>10, <2>1, LeanBetween
    <3> QED BY <3>1 DEF LeansBetween
  <2> QED BY <2>2
<1>14. /\ Tilt(p, q, a) = l /\ Tilt(p, q, b) = m
  BY <1>3 DEF Tilt
<1>15. /\ -(2 * S) <= l /\ l <= 2 * S /\ -(2 * S) <= m /\ m <= 2 * S
  <2> HIDE DEF l, m
  <2>1. -(2 * X) <= l /\ l <= 2 * Y /\ -(2 * X) <= m /\ m <= 2 * Y
    <3>1. X = Abs(q[1] - p[1]) /\ Y = Abs(q[2] - p[2])
      BY <1>3
    <3> QED BY <1>14, <3>1 DEF Along, LeansBy
  <2> QED BY <1>10, <1>13, <2>1
<1>16. 2 * n <= 7 * S /\ -(2 * n) <= 7 * S
  <2> HIDE DEF l, m, n, S, e
  <2>1. CASE A > B
    <3>1. A \in Nat \ {0} /\ T = A
      BY <2>1
    <3> HIDE DEF T
    <3> QED BY <1>10, <1>11, <1>13, <1>15, <3>1, LeanBounds
  <2>2. CASE ~(A > B)
    <3>1. B \in Nat \ {0} /\ T = B
      BY <1>12, <2>2
    <3> HIDE DEF T
    <3> QED BY <1>10, <1>11, <1>13, <1>15, <3>1, LeanBounds
  <2> QED BY <2>1, <2>2
<1>17. Reached(p, q, sx, sy, X, Y) /\ Reached(p, s, sx, sy, ia + i, ja + j)
  <2>1. q[1] = p[1] + sx * X /\ q[2] = p[2] + sy * Y
    <3>1. /\ q[1] = p[1] + Sign(q[1] - p[1]) * Abs(q[1] - p[1])
          /\ q[2] = p[2] + Sign(q[2] - p[2]) * Abs(q[2] - p[2])
      BY <1>4, OnTheWay
    <3>2. /\ X = Abs(q[1] - p[1]) /\ Y = Abs(q[2] - p[2])
          /\ sx = Sign(q[1] - p[1]) /\ sy = Sign(q[2] - p[2])
      BY <1>3
    <3> QED BY <3>1, <3>2
  <2>2. \A d \in {-1, 1} : \A x, y \in Int : d * (x + y) = d * x + d * y /\ d * x \in Int /\ d * y \in Int
    OBVIOUS
  <2>3. sx * (ia + i) = sx * ia + sx * i /\ sx * ia \in Int /\ sx * i \in Int
    <3>1. ia \in Int
      OBVIOUS
    <3> QED BY <1>10, <2>2, <3>1
  <2>4. sy * (ja + j) = sy * ja + sy * j /\ sy * ja \in Int /\ sy * j \in Int
    <3>1. ja \in Int
      OBVIOUS
    <3> QED BY <1>10, <2>2, <3>1
  <2>5. s[1] = p[1] + sx * (ia + i) /\ s[2] = p[2] + sy * (ja + j)
    <3>1. PICK f \in Int, g \in Int, h \in Int, k \in Int :
             f = sx * ia /\ g = sx * i /\ h = sy * ja /\ k = sy * j
      BY <2>3, <2>4
    <3>2. a[1] = p[1] + f /\ a[2] = p[2] + h
      BY <1>3, <3>1
    <3>3. s[1] = a[1] + g /\ s[2] = a[2] + k
      BY <1>8, <1>9, <3>1
    <3>4. sx * (ia + i) = f + g /\ sy * (ja + j) = h + k
      BY <2>3, <2>4, <3>1
    <3>5. p[1] \in Int /\ p[2] \in Int
      BY <1>4
    <3>6. s[1] = p[1] + (f + g) /\ s[2] = p[2] + (h + k)
      BY <3>2, <3>3, <3>5
    <3> QED BY <3>4, <3>6
  <2>6. ia + i \in Int /\ ja + j \in Int /\ X \in Int /\ Y \in Int
    BY <1>10
  <2> QED BY <2>1, <2>5, <2>6 DEF Reached
<1>18. Off(p, q, s, 7) /\ Off(q, p, s, 7)
  <2>1. PICK c \in Int, d \in Int : c = ia + i /\ d = ja + j
    BY <1>3, <1>10
  <2>2. /\ X * d \in Int /\ Y * c \in Int
        /\ \/ Cross(p, q, s) = X * d - Y * c /\ Cross(q, p, s) = Y * c - X * d
           \/ Cross(p, q, s) = Y * c - X * d /\ Cross(q, p, s) = X * d - Y * c
    BY <1>4, <1>5, <1>17, <2>1, CrossOnTheWay
  <2>3. n = X * d - Y * c
    BY <2>1 DEF Lean
  <2>4. Y * c - X * d = -n
    BY <2>2, <2>3
  <2>5. Steps(p, q) = S /\ Steps(q, p) = S
    <3>1. Abs(p[1] - q[1]) = Abs(q[1] - p[1]) /\ Abs(p[2] - q[2]) = Abs(q[2] - p[2])
      BY <1>4 DEF Abs
    <3> QED BY <1>3, <3>1 DEF Steps
  <2> HIDE DEF n, S
  <2>6. 2 * Cross(p, q, s) <= 7 * S /\ 2 * Cross(q, p, s) <= 7 * S
    BY <1>13, <1>16, <2>2, <2>3, <2>4
  <2> QED BY <2>5, <2>6 DEF Off
<1>19. Between(p, q, s)
  <2>1. ia + i \in 0 .. X /\ ja + j \in 0 .. Y
    BY <1>31
  <2>2. s[1] = p[1] + sx * (ia + i) /\ s[2] = p[2] + sy * (ja + j)
    BY <1>17 DEF Reached
  <2>5. /\ X = Abs(q[1] - p[1]) /\ Y = Abs(q[2] - p[2])
        /\ sx = Sign(q[1] - p[1]) /\ sy = Sign(q[2] - p[2])
    BY <1>3
  <2>6. PICK x \in Int, y \in Int : x = ia + i /\ y = ja + j
    BY <1>10
  <2>3. s[1] \in Min({p[1], q[1]}) .. Max({p[1], q[1]})
    <3>1. x \in 0 .. Abs(q[1] - p[1])
      BY <2>1, <2>5, <2>6
    <3>2. p[1] + Sign(q[1] - p[1]) * x \in Min({p[1], q[1]}) .. Max({p[1], q[1]})
      BY <1>4, <3>1, OnTheWay
    <3> QED BY <2>2, <2>5, <2>6, <3>2
  <2>4. s[2] \in Min({p[2], q[2]}) .. Max({p[2], q[2]})
    <3>1. y \in 0 .. Abs(q[2] - p[2])
      BY <2>1, <2>5, <2>6
    <3>2. p[2] + Sign(q[2] - p[2]) * y \in Min({p[2], q[2]}) .. Max({p[2], q[2]})
      BY <1>4, <3>1, OnTheWay
    <3> QED BY <2>2, <2>5, <2>6, <3>2
  <2> QED BY <2>3, <2>4 DEF Between
<1> QED BY <1>18, <1>19 DEF NearLine

\* Every pixel right on the line, but at the border, has a pixel of the cut line near it.
LEMMA CutLinePasses ==
  ASSUME NEW p \in Points, NEW q \in Points, NEW a \in Points, NEW b \in Points,
         Begun(p, q, a, -Abs(q[1] - p[1]), Abs(q[2] - p[2])),
         Ended(p, q, a, b, -(2 * Abs(q[1] - p[1])), 2 * Abs(q[2] - p[2])),
         NEW r, OnLine(p, q, r)
  PROVE  \E s \in Segment(a, b) : Abs(s[1] - r[1]) + Abs(s[2] - r[2]) <= 3
<1>1. InOrder(p, q, a, b) /\ InOrder(p, q, a, r) /\ r \in Points /\ Tilt(p, q, r) = 0
  BY DEF Begun, Ended, OnLine
<1>2. PICK X \in Nat, Y \in Nat, sx \in {-1, 1}, sy \in {-1, 1},
           ia \in Nat, ja \in Nat, A \in Nat, B \in Nat :
         Placed(p, q, a, b, X, Y, sx, sy, ia, ja, A, B)
  <2>1. InOrder(p, q, a, b)
    BY <1>1
  <2> QED BY <2>1, PlacedSomewhere
<1>3. /\ X = Abs(q[1] - p[1]) /\ Y = Abs(q[2] - p[2]) /\ sx = Sign(q[1] - p[1]) /\ sy = Sign(q[2] - p[2])
      /\ Ahead(p, q, a)[1] = ia /\ Ahead(p, q, a)[2] = ja
      /\ Ahead(p, q, b)[1] = ia + A /\ Ahead(p, q, b)[2] = ja + B
      /\ ia + A <= X /\ ja + B <= Y
      /\ a[1] = p[1] + sx * ia /\ a[2] = p[2] + sy * ja
      /\ b[1] = a[1] + sx * A /\ b[2] = a[2] + sy * B
      /\ Abs(b[1] - a[1]) = A /\ Abs(b[2] - a[2]) = B
      /\ (A # 0 => Sign(b[1] - a[1]) = sx) /\ (B # 0 => Sign(b[2] - a[2]) = sy)
  BY <1>2 DEF Placed
<1>31. ia + A <= X /\ ja + B <= Y
  BY <1>3
<1>4. /\ p[1] \in Int /\ p[2] \in Int /\ a[1] \in Int /\ a[2] \in Int
      /\ a \in Int \X Int /\ b \in Int \X Int
  BY DEF Points
<1>5. PICK u \in Nat, v \in Nat :
         /\ Ahead(p, q, r)[1] = ia + u /\ Ahead(p, q, r)[2] = ja + v
         /\ r[1] = p[1] + sx * (ia + u) /\ r[2] = p[2] + sy * (ja + v)
  <2>1. PICK g \in Int, h \in Int :
           /\ Ahead(p, q, r)[1] = g /\ Ahead(p, q, r)[2] = h
           /\ r[1] = p[1] + sx * g /\ r[2] = p[2] + sy * h
    BY <1>1, <1>3, AheadIs DEF Reached
  <2>2. ia <= g /\ ja <= h
    BY <1>1, <1>3, <2>1 DEF InOrder
  <2>3. g - ia \in Nat /\ h - ja \in Nat /\ g = ia + (g - ia) /\ h = ja + (h - ja)
    BY <1>3, <2>1, <2>2
  <2> QED BY <2>1, <2>3
<1>6. /\ Y <= X => u <= A
      /\ X <= Y => v <= B
      /\ u < A \/ v < B
  <2>1. /\ Y <= X => ia + u <= ia + A
        /\ X <= Y => ja + v <= ja + B
        /\ ia + u < ia + A \/ ja + v < ja + B
    BY <1>3, <1>5 DEF Ended
  <2> QED BY <1>3, <1>5, <2>1
<1> DEFINE e == A * v - B * u
           l == Lean(X, Y, ia, ja)
           m == Lean(X, Y, ia + A, ja + B)
<1>7. l \in Int /\ m \in Int /\ e \in Int /\ Tilt(p, q, a) = l /\ Tilt(p, q, b) = m
  <2>1. l \in Int /\ m \in Int /\ e \in Int
    <3>1. ia \in Int /\ ja \in Int /\ A \in Int /\ B \in Int /\ u \in Int /\ v \in Int
      OBVIOUS
    <3>2. LeansBetween(X, Y, ia, ja, A, B, u, v)
      BY <3>1, LeanBetween
    <3> QED BY <3>2 DEF LeansBetween
  <2> QED BY <1>3, <2>1 DEF Tilt
<1>8. -X <= l /\ l <= Y /\ -(2 * X) <= m /\ m <= 2 * Y
  <2> HIDE DEF l, m
  <2>1. X = Abs(q[1] - p[1]) /\ Y = Abs(q[2] - p[2])
    BY <1>3
  <2> QED BY <1>7, <2>1 DEF Begun, Ended
<1>9. Lean(X, Y, ia + u, ja + v) = 0
  BY <1>1, <1>3, <1>5 DEF Tilt
<1>10. /\ (A - u) * l + u * m + X * e = 0
       /\ (B - v) * l + v * m + Y * e = 0
  <2>1. /\ A * Lean(X, Y, ia + u, ja + v) = (A - u) * l + u * m + X * e
        /\ B * Lean(X, Y, ia + u, ja + v) = (B - v) * l + v * m + Y * e
    <3>1. ia \in Int /\ ja \in Int /\ A \in Int /\ B \in Int /\ u \in Int /\ v \in Int
      OBVIOUS
    <3>2. /\ l \in Int /\ m \in Int /\ Lean(X, Y, ia + u, ja + v) \in Int /\ e \in Int
          /\ A * Lean(X, Y, ia + u, ja + v) = (A - u) * l + u * m + X * e
          /\ B * Lean(X, Y, ia + u, ja + v) = (B - v) * l + v * m + Y * e
      <4>1. LeansBetween(X, Y, ia, ja, A, B, u, v)
        BY <3>1, LeanBetween
      <4> QED BY <4>1 DEF LeansBetween
    <3> QED BY <3>2
  <2>2. A * 0 = 0 /\ B * 0 = 0
    OBVIOUS
  <2> HIDE DEF l, m, e
  <2> QED BY <1>9, <2>1, <2>2
<1>11. \/ u <= A /\ e <= 2 * A /\ -e <= 2 * A
       \/ v <= B /\ e <= 2 * B /\ -e <= 2 * B
  <2> HIDE DEF l, m, e
  <2>1. CASE Y <= X
    <3>1. X # 0
      BY <1>31, <1>6, <2>1
    <3>2. X \in Nat \ {0} /\ u \in 0 .. A
      BY <1>6, <2>1, <3>1
    <3>3. -(2 * X) <= l /\ l <= 2 * X /\ -(2 * X) <= m /\ m <= 2 * X
      BY <1>7, <1>8, <2>1
    <3>4. e <= 2 * A /\ -e <= 2 * A
      BY <1>7, <1>10, <3>2, <3>3, BesideBounds
    <3> QED BY <3>2, <3>4
  <2>2. CASE X <= Y
    <3>1. Y # 0
      BY <1>31, <1>6, <2>2
    <3>2. Y \in Nat \ {0} /\ v \in 0 .. B
      BY <1>6, <2>2, <3>1
    <3>3. -(2 * Y) <= l /\ l <= 2 * Y /\ -(2 * Y) <= m /\ m <= 2 * Y
      BY <1>7, <1>8, <2>2
    <3>4. e <= 2 * B /\ -e <= 2 * B
      BY <1>7, <1>10, <3>2, <3>3, BesideBounds
    <3> QED BY <3>2, <3>4
  <2> QED BY <2>1, <2>2
<1>12. B * u - A * v = -e
  <2>1. A * v \in Int /\ B * u \in Int
    OBVIOUS
  <2> QED BY <2>1
<1> HIDE DEF e, l, m
<1>122. \/ u <= A /\ A * v - B * u <= 2 * A /\ B * u - A * v <= 2 * A
        \/ v <= B /\ A * v - B * u <= 2 * B /\ B * u - A * v <= 2 * B
  <2>1. A * v - B * u = e
    BY DEF e
  <2> QED BY <1>11, <1>12, <2>1
<1>123. u < A \/ v < B
  BY <1>6
<1>13. PICK i \in 0 .. A, j \in 0 .. B : Walks(A, B, i, j) /\ Abs(i - u) + Abs(j - v) <= 3
  BY <1>122, <1>123, WalkPasses
<1> DEFINE s == <<a[1] + Sign(b[1] - a[1]) * i, a[2] + Sign(b[2] - a[2]) * j>>
<1>131. Abs(b[1] - a[1]) = A /\ Abs(b[2] - a[2]) = B
  BY <1>3
<1>14. s \in Segment(a, b)
  <2>1. CASE B > A
    <3>1. <<j, i>> \in Stairs(B, A)
      BY <1>13, <2>1 DEF Walks
    <3>2. Segment(a, b) = {<<a[1] + Sign(b[1] - a[1]) * t[2], a[2] + Sign(b[2] - a[2]) * t[1]>> : t \in Stairs(B, A)}
      BY <1>4, <1>131, <2>1, SegmentIs
    <3>3. s = <<a[1] + Sign(b[1] - a[1]) * <<j, i>>[2], a[2] + Sign(b[2] - a[2]) * <<j, i>>[1]>>
      OBVIOUS
    <3> QED BY <3>1, <3>2, <3>3
  <2>2. CASE ~(B > A)
    <3>1. <<i, j>> \in Stairs(A, B)
      BY <1>13, <2>2 DEF Walks
    <3>2. Segment(a, b) = {<<a[1] + Sign(b[1] - a[1]) * t[1], a[2] + Sign(b[2] - a[2]) * t[2]>> : t \in Stairs(A, B)}
      BY <1>4, <1>131, <2>2, SegmentIs
    <3>3. s = <<a[1] + Sign(b[1] - a[1]) * <<i, j>>[1], a[2] + Sign(b[2] - a[2]) * <<i, j>>[2]>>
      OBVIOUS
    <3> QED BY <3>1, <3>2, <3>3
  <2> QED BY <2>1, <2>2
<1>15. s[1] = a[1] + sx * i /\ s[2] = a[2] + sy * j
  <2>1. s[1] = a[1] + Sign(b[1] - a[1]) * i /\ s[2] = a[2] + Sign(b[2] - a[2]) * j
    OBVIOUS
  <2> HIDE DEF s
  <2>2. A = 0 => i = 0
    BY <1>3
  <2>3. B = 0 => j = 0
    BY <1>3
  <2>4. \A d \in {-1, 1} : d * 0 = 0
    OBVIOUS
  <2>5. Sign(b[1] - a[1]) \in {-1, 1} /\ Sign(b[2] - a[2]) \in {-1, 1}
    BY DEF Sign
  <2> QED BY <1>3, <2>1, <2>2, <2>3, <2>4, <2>5
<1> HIDE DEF s
<1>16. ASSUME NEW d \in {-1, 1}, NEW x \in Int, NEW k \in Int, NEW f \in Int, NEW g \in Int
       PROVE  Abs(((x + d * k) + d * f) - (x + d * (k + g))) = Abs(f - g)
  <2>1. CASE d = 1
    BY <2>1 DEF Abs
  <2>2. CASE d = -1
    BY <2>2 DEF Abs
  <2> QED BY <2>1, <2>2
<1>17. Abs(s[1] - r[1]) = Abs(i - u) /\ Abs(s[2] - r[2]) = Abs(j - v)
  <2>1. PICK x \in Int, y \in Int : x = p[1] /\ y = p[2]
    BY <1>4
  <2>2. s[1] = (x + sx * ia) + sx * i /\ s[2] = (y + sy * ja) + sy * j
    BY <1>3, <1>15, <2>1
  <2>3. r[1] = x + sx * (ia + u) /\ r[2] = y + sy * (ja + v)
    BY <1>5, <2>1
  <2>4. i \in Int /\ j \in Int /\ ia \in Int /\ ja \in Int /\ u \in Int /\ v \in Int
    OBVIOUS
  <2>5. /\ Abs(((x + sx * ia) + sx * i) - (x + sx * (ia + u))) = Abs(i - u)
        /\ Abs(((y + sy * ja) + sy * j) - (y + sy * (ja + v))) = Abs(j - v)
    BY <1>16, <2>4
  <2> QED BY <2>2, <2>3, <2>5
<1> QED BY <1>13, <1>14, <1>17

\* A pixel of the screen that the line from p to q runs right through, if it is not at the border.
LEMMA OnLineIs ==
  ASSUME NEW p \in Points, NEW q \in Points, NEW r \in Screen, r # q,
         Between(p, q, r), Cross(p, q, r) = 0, ~AtBorder(r)
  PROVE  OnLine(p, q, r)
<1>1. /\ p[1] \in Int /\ p[2] \in Int /\ q[1] \in Int /\ q[2] \in Int
      /\ p \in Int \X Int /\ q \in Int \X Int
  BY DEF Points
<1>2. r[1] \in 1 .. GL_width - 2 /\ r[2] \in 1 .. GL_height - 2 /\ r \in Points
  <2>1. GL_width \in Nat \ {0} /\ GL_height \in Nat \ {0}
    BY ScreenSizes
  <2>2. r[1] \in 0 .. GL_width - 1 /\ r[2] \in 0 .. GL_height - 1 /\ r = <<r[1], r[2]>>
    BY DEF Screen
  <2>3. ~(r[1] = 0) /\ ~(r[1] = GL_width - 1) /\ ~(r[2] = 0) /\ ~(r[2] = GL_height - 1)
    BY DEF AtBorder
  <2> QED BY <2>1, <2>2, <2>3 DEF Points
<1>3. PICK X \in Nat, Y \in Nat, sx \in {-1, 1}, sy \in {-1, 1} :
         /\ X = Abs(q[1] - p[1]) /\ Y = Abs(q[2] - p[2])
         /\ sx = Sign(q[1] - p[1]) /\ sy = Sign(q[2] - p[2])
         /\ q[1] = p[1] + sx * X /\ q[2] = p[2] + sy * Y
  <2>1. /\ Abs(q[1] - p[1]) \in Nat /\ Sign(q[1] - p[1]) \in {-1, 1}
        /\ q[1] = p[1] + Sign(q[1] - p[1]) * Abs(q[1] - p[1])
    BY <1>1, OnTheWay
  <2>2. /\ Abs(q[2] - p[2]) \in Nat /\ Sign(q[2] - p[2]) \in {-1, 1}
        /\ q[2] = p[2] + Sign(q[2] - p[2]) * Abs(q[2] - p[2])
    BY <1>1, OnTheWay
  <2> DEFINE A == Abs(q[1] - p[1])
             B == Abs(q[2] - p[2])
             e == Sign(q[1] - p[1])
             f == Sign(q[2] - p[2])
  <2>3. /\ A \in Nat /\ B \in Nat /\ e \in {-1, 1} /\ f \in {-1, 1}
        /\ A = Abs(q[1] - p[1]) /\ B = Abs(q[2] - p[2])
        /\ e = Sign(q[1] - p[1]) /\ f = Sign(q[2] - p[2])
        /\ q[1] = p[1] + e * A /\ q[2] = p[2] + f * B
    BY <2>1, <2>2
  <2> HIDE DEF A, B, e, f
  <2> QED BY <2>3
<1>4. PICK i \in 0 .. X, j \in 0 .. Y : r[1] = p[1] + sx * i /\ r[2] = p[2] + sy * j
  <2>1. /\ r[1] \in Min({p[1], q[1]}) .. Max({p[1], q[1]})
        /\ r[2] \in Min({p[2], q[2]}) .. Max({p[2], q[2]})
    BY DEF Between
  <2>2. /\ Abs(r[1] - p[1]) \in 0 .. Abs(q[1] - p[1])
        /\ r[1] = p[1] + Sign(q[1] - p[1]) * Abs(r[1] - p[1])
    <3>1. PICK x \in Int, y \in Int, z \in Int : x = p[1] /\ y = q[1] /\ z = r[1]
      BY <1>1, <1>2
    <3>2. z \in Min({x, y}) .. Max({x, y})
      BY <2>1, <3>1
    <3>3. Abs(z - x) \in 0 .. Abs(y - x) /\ z = x + Sign(y - x) * Abs(z - x)
      BY <3>2, OnTheWay
    <3> QED BY <3>1, <3>3, Zenon
  <2>3. /\ Abs(r[2] - p[2]) \in 0 .. Abs(q[2] - p[2])
        /\ r[2] = p[2] + Sign(q[2] - p[2]) * Abs(r[2] - p[2])
    <3>1. PICK x \in Int, y \in Int, z \in Int : x = p[2] /\ y = q[2] /\ z = r[2]
      BY <1>1, <1>2
    <3>2. z \in Min({x, y}) .. Max({x, y})
      BY <2>1, <3>1
    <3>3. Abs(z - x) \in 0 .. Abs(y - x) /\ z = x + Sign(y - x) * Abs(z - x)
      BY <3>2, OnTheWay
    <3> QED BY <3>1, <3>3, Zenon
  <2> QED BY <1>3, <2>2, <2>3
<1>5. Reached(p, r, sx, sy, i, j) /\ Reached(p, q, sx, sy, X, Y)
  <2>1. i \in Int /\ j \in Int /\ X \in Int /\ Y \in Int
    OBVIOUS
  <2>2. q[1] = p[1] + sx * X /\ q[2] = p[2] + sy * Y
    BY <1>3
  <2> QED BY <1>4, <2>1, <2>2 DEF Reached
<1>6. Ahead(p, q, r) = <<i, j>> /\ Ahead(p, q, q) = <<X, Y>>
  <2>1. /\ Reached(p, r, Sign(q[1] - p[1]), Sign(q[2] - p[2]), i, j)
        /\ Reached(p, q, Sign(q[1] - p[1]), Sign(q[2] - p[2]), X, Y)
    BY <1>3, <1>5
  <2> QED BY <1>2, <2>1, AheadOf
<1>7. InOrder(p, q, r, q)
  <2>1. 0 <= i /\ i <= X /\ X <= X /\ 0 <= j /\ j <= Y /\ Y <= Y
    OBVIOUS
  <2>2. /\ Ahead(p, q, r)[1] = i /\ Ahead(p, q, r)[2] = j
        /\ Ahead(p, q, q)[1] = X /\ Ahead(p, q, q)[2] = Y
        /\ Abs(q[1] - p[1]) = X /\ Abs(q[2] - p[2]) = Y
    <3>1. Abs(q[1] - p[1]) = X /\ Abs(q[2] - p[2]) = Y
      BY <1>3
    <3>2. <<i, j>>[1] = i /\ <<i, j>>[2] = j /\ <<X, Y>>[1] = X /\ <<X, Y>>[2] = Y
      OBVIOUS
    <3> QED BY <1>6, <3>1, <3>2
  <2> QED BY <2>1, <2>2 DEF InOrder
<1>8. Tilt(p, q, r) = 0
  <2>1. r \in Int \X Int
    BY <1>2 DEF Points
  <2>2. /\ X * j \in Int /\ Y * i \in Int
        /\ \/ Cross(p, q, r) = X * j - Y * i
           \/ Cross(p, q, r) = Y * i - X * j
    BY <1>1, <1>5, <2>1, CrossOnTheWay
  <2>3. X * j - Y * i = 0
    BY <2>2
  <2>4. Tilt(p, q, r) = Lean(X, Y, i, j)
    BY <1>3, <1>6 DEF Tilt
  <2> QED BY <2>3, <2>4 DEF Lean
<1> QED BY <1>2, <1>7, <1>8 DEF OnLine

\* What the drawing of a line sends: what LineIsRight asks for, if a cut line may be two pixels
\* further off than a whole one.
RightFor(p, q, P) ==
    /\ \A r \in P : r = <<r[1], r[2]>> /\ NearLine(p, q, r, 3 + Slack(<<p, q>>))
    /\ P \subseteq Screen
    /\ \A r \in Screen \ {q} :
            Between(p, q, r) /\ Cross(p, q, r) = 0 =>
                IF OnScreen(<<p, q>>) THEN r \in P
                ELSE AtBorder(r) \/ \E s \in P : Abs(s[1] - r[1]) + Abs(s[2] - r[2]) <= CUT

LEMMA WholeLineSent ==
  ASSUME NEW p \in Points, NEW q \in Points, OnScreen(<<p, q>>)
  PROVE  RightFor(p, q, GL_line(p, q))
<1>1. code(p) = {} /\ code(q) = {}
  BY DEF OnScreen
<1>2. GL_line(p, q) = Segment(p, q)
  BY <1>1, LineOnScreen DEF Points
<1>3. Segment(p, q) \subseteq Screen
  BY <1>1, PointOnScreen, SegmentOnScreen
<1>4. ASSUME NEW r \in Segment(p, q) PROVE r = <<r[1], r[2]>> /\ NearLine(p, q, r, 3)
  BY SegmentIsNear DEF Points
<1>5. ASSUME NEW r \in Screen \ {q}, Between(p, q, r), Cross(p, q, r) = 0
      PROVE  r \in Segment(p, q)
  <2>1. r \in Int \X Int
    BY ScreenSizes DEF Screen
  <2> QED BY <1>5, <2>1, SegmentMeetsTheLine DEF Points
<1>6. 3 + Slack(<<p, q>>) = 3
  BY DEF Slack
<1> QED BY <1>2, <1>3, <1>4, <1>5, <1>6 DEF RightFor

\* Near within seven half pixels, with at least four for the cut.
LEMMA NearWithCut ==
  ASSUME NEW p \in Points, NEW q \in Points, NEW r \in Points, CUT >= 4, NearLine(p, q, r, 7)
  PROVE  NearLine(p, q, r, 3 + CUT)
<1>1. CUT \in Int
  BY FigureAssumption
<1>2. \A n \in Nat : 7 * n <= (3 + CUT) * n
  <2> SUFFICES ASSUME NEW n \in Nat PROVE 7 * n <= (3 + CUT) * n
    OBVIOUS
  <2>1. PICK k \in Nat : CUT = 4 + k
    <3>1. CUT - 4 \in Nat /\ CUT = 4 + (CUT - 4)
      BY <1>1
    <3> QED BY <3>1
  <2>2. (3 + CUT) * n = 7 * n + k * n
    BY <2>1
  <2>3. k * n >= 0 /\ k * n \in Int
    BY ProductSign
  <2> QED BY <2>2, <2>3
<1>3. /\ Steps(p, q) \in Nat /\ Steps(q, p) \in Nat /\ Cross(p, q, r) \in Int /\ Cross(q, p, r) \in Int
  <2>1. /\ p[1] \in Int /\ p[2] \in Int /\ q[1] \in Int /\ q[2] \in Int
    BY DEF Points
  <2>2. r[1] \in Int /\ r[2] \in Int
    BY DEF Points
  <2>3. \A x, y \in Int : Abs(x - y) \in Nat
    BY DEF Abs
  <2>4. Steps(p, q) \in Nat /\ Steps(q, p) \in Nat
    BY <2>1, <2>3 DEF Steps
  <2> QED BY <2>1, <2>2, <2>4 DEF Cross
<1>4. Off(p, q, r, 7) => Off(p, q, r, 3 + CUT)
  BY <1>1, <1>2, <1>3 DEF Off
<1>5. Off(q, p, r, 7) => Off(q, p, r, 3 + CUT)
  BY <1>1, <1>2, <1>3 DEF Off
<1> QED BY <1>4, <1>5 DEF NearLine

LEMMA CutLineSent ==
  ASSUME NEW p \in Points, NEW q \in Points, ~OnScreen(<<p, q>>), CUT >= 4
  PROVE  RightFor(p, q, GL_line(p, q))
<1>1. Slack(<<p, q>>) = CUT /\ CUT \in Int
  BY FigureAssumption DEF Slack
<1>2. GL_line(p, q) = IF Clipped[<<p, q>>] = <<>> THEN {} ELSE Segment(Clipped[<<p, q>>][1], Clipped[<<p, q>>][2])
  BY DEF GL_line, FGA_line
<1>3. Outcome(p, q, Clipped[<<p, q>>])
  BY ClippedToScreen
<1>4. CASE Clipped[<<p, q>>] = <<>> /\ \A r : ~OnLine(p, q, r)
  <2>1. GL_line(p, q) = {}
    BY <1>2, <1>4
  <2>2. ASSUME NEW r \in Screen \ {q}, Between(p, q, r), Cross(p, q, r) = 0 PROVE AtBorder(r)
    BY <1>4, <2>2, OnLineIs
  <2> QED BY <2>1, <2>2 DEF RightFor
<1>5. ASSUME NEW a \in Points, NEW b \in Points, Clipped[<<p, q>>] = <<a, b>>,
             code(a) = {}, code(b) = {},
             Begun(p, q, a, -Abs(q[1] - p[1]), Abs(q[2] - p[2])),
             Ended(p, q, a, b, -(2 * Abs(q[1] - p[1])), 2 * Abs(q[2] - p[2]))
      PROVE  RightFor(p, q, GL_line(p, q))
  <2>1. GL_line(p, q) = Segment(a, b)
    <3>1. <<a, b>> # <<>> /\ <<a, b>>[1] = a /\ <<a, b>>[2] = b
      OBVIOUS
    <3> QED BY <1>2, <1>5, <3>1
  <2>2. Segment(a, b) \subseteq Screen
    BY <1>5, PointOnScreen, SegmentOnScreen
  <2>3. ASSUME NEW r \in Segment(a, b) PROVE r = <<r[1], r[2]>> /\ NearLine(p, q, r, 3 + CUT)
    <3>1. r = <<r[1], r[2]>>
      BY SegmentIsNear DEF Points
    <3>2. NearLine(p, q, r, 7)
      <4>1. PICK X \in Nat, Y \in Nat : X = Abs(q[1] - p[1]) /\ Y = Abs(q[2] - p[2])
        BY AheadIs
      <4>2. Tilt(p, q, a) \in Int
        BY AheadIs
      <4>3. /\ -X <= Tilt(p, q, a) /\ Tilt(p, q, a) <= Y
            /\ -(2 * X) <= Tilt(p, q, b) /\ Tilt(p, q, b) <= 2 * Y /\ InOrder(p, q, a, b)
        BY <1>5, <4>1 DEF Begun, Ended
      <4>4. -(2 * X) <= Tilt(p, q, a) /\ Tilt(p, q, a) <= 2 * Y
        BY <4>2, <4>3
      <4>5. Along(p, q, a, b, 2, 2)
        BY <4>1, <4>3, <4>4 DEF Along, LeansBy
      <4> QED BY <4>5, AlongIsNear
    <3>3. NearLine(p, q, r, 3 + CUT)
      <4>1. r \in Int \X Int
        BY SegmentIsNear DEF Points
      <4> QED BY <3>2, <4>1, NearWithCut DEF Points
    <3> QED BY <3>1, <3>3
  <2>4. ASSUME NEW r \in Screen \ {q}, Between(p, q, r), Cross(p, q, r) = 0, ~AtBorder(r)
        PROVE  \E s \in Segment(a, b) : Abs(s[1] - r[1]) + Abs(s[2] - r[2]) <= CUT
    <3>1. OnLine(p, q, r)
      BY <2>4, OnLineIs
    <3>2. PICK s \in Segment(a, b) : Abs(s[1] - r[1]) + Abs(s[2] - r[2]) <= 3
      BY <1>5, <3>1, CutLinePasses
    <3>3. Abs(s[1] - r[1]) + Abs(s[2] - r[2]) \in Int
      <4>1. s[1] \in Int /\ s[2] \in Int
        BY SegmentIsNear DEF Points
      <4>2. r[1] \in Int /\ r[2] \in Int
        BY ScreenSizes DEF Screen
      <4> QED BY <4>1, <4>2 DEF Abs
    <3> QED BY <1>1, <3>2, <3>3
  <2> QED BY <1>1, <2>1, <2>2, <2>3, <2>4 DEF RightFor
<1> QED BY <1>3, <1>4, <1>5 DEF Outcome

-------------------------------------------------------------------------------
(* Figures: the steps.                                                     *)

\* The pixels of a figure that is drawn whole are right.
LEMMA WholeFigureIsRight == FigureInv /\ DrawnWhole => FiguresAreRight
<1> SUFFICES ASSUME FigureInv, DrawnWhole PROVE FiguresAreRight
  OBVIOUS
<1>1. /\ figure \in Figures
      /\ IF IsFilled(figure) THEN TriangleIsRight(figure.points) ELSE Inked = Pixels(figure)
  BY DEF FigureInv
<1>2. CASE figure = None
  <2>1. figure.shape = "none" /\ Inked = {}
    BY <1>1, <1>2 DEF None, Pixels, IsFilled
  <2> QED BY <2>1 DEF FiguresAreRight
<1>3. CASE figure \in [shape : {"line"}, points : Points \X Points]
  <2>1. figure.shape = "line" /\ None.shape = "none"
    BY <1>3 DEF None
  <2>2. figure # None
    BY <2>1
  <2>3. OnScreen(figure.points) /\ Inked = Segment(figure.points[1], figure.points[2])
    BY <1>1, <2>1, <2>2 DEF DrawnWhole, Pixels, IsFilled
  <2>4. PICK p \in Points, q \in Points : figure.points = <<p, q>>
    BY <1>3
  <2>5. LineIsRight(figure.points[1], figure.points[2])
    BY <2>3, <2>4, WholeLineIsRight
  <2> QED BY <2>1, <2>5 DEF FiguresAreRight
<1>4. CASE figure \in [shape : {"rectangle"}, points : Points \X Points]
  <2>1. figure.shape = "rectangle" /\ None.shape = "none"
    BY <1>4 DEF None
  <2>2. figure # None
    BY <2>1
  <2>3. PICK p \in Points, q \in Points : figure.points = <<p, q>>
    BY <1>4
  <2>4. OnScreen(<<p, q>>) /\ p[1] <= q[1] /\ p[2] <= q[2]
    <3>1. OnScreen(<<p, q>>)
      BY <2>1, <2>2, <2>3 DEF FigureInv
    <3>2. figure.points[1][1] <= figure.points[2][1] /\ figure.points[1][2] <= figure.points[2][2]
      BY <1>1, <2>1, <2>2 DEF Figures
    <3> QED BY <2>3, <3>1, <3>2
  <2>5. p \in Screen /\ q \in Screen
    <3>1. code(p) = {} /\ code(q) = {}
      BY <2>4 DEF OnScreen
    <3> QED BY <3>1, PointOnScreen
  <2>6. Inked = Window(p[1], p[2], q[1], q[2])
    BY <1>1, <2>1, <2>2, <2>3 DEF Pixels, IsFilled
  <2>7. Inked = {r \in Screen : Between(figure.points[1], figure.points[2], r)}
    BY <2>3, <2>4, <2>5, <2>6, WholeRectangleIsRight
  <2> QED BY <2>1, <2>7 DEF FiguresAreRight
<1>5. CASE figure \in [shape : {"GL_POLY_LINES", "GL_POLY_FILL"}, points : Triangles,
                       culling : {"GL_FRONT_FACE", "GL_BACK_FACE", "GL_FRONT_AND_BACK"}]
  <2>1. figure.shape \in {"GL_POLY_LINES", "GL_POLY_FILL"} /\ None.shape = "none"
        /\ figure.points \in Triangles
    BY <1>5 DEF None
  <2>2. figure # None
    BY <2>1
  <2>3. CASE Culled(figure.culling, Clockwise(figure.points))
    <3>1. Inked = {}
      BY <1>1, <2>1, <2>2, <2>3 DEF Pixels, IsFilled
    <3> QED BY <2>1, <2>3, <3>1 DEF FiguresAreRight
  <2>4. CASE ~Culled(figure.culling, Clockwise(figure.points))
    <3>1. CASE figure.shape = "GL_POLY_LINES"
      <4>1. OnScreen(figure.points)
        BY <2>2, <2>4 DEF DrawnWhole
      <4>2. Inked = Outline(figure.points)
        BY <1>1, <2>2, <2>4, <3>1 DEF Pixels, IsFilled
      <4>3. OutlineIsRight(figure.points)
        BY <2>1, <4>1, <4>2, WholeOutlineIsRight
      <4> QED BY <2>4, <3>1, <4>3 DEF FiguresAreRight
    <3>2. CASE figure.shape = "GL_POLY_FILL"
      <4>1. TriangleIsRight(figure.points)
        BY <1>1, <2>2, <2>4, <3>2 DEF IsFilled
      <4> QED BY <2>4, <3>2, <4>1 DEF FiguresAreRight
    <3> QED BY <2>1, <3>1, <3>2
  <2> QED BY <2>3, <2>4
<1> QED BY <1>1, <1>2, <1>3, <1>4, <1>5 DEF Figures

\* A panel without the pixels of a figure.
InkFree(panel) ==
    /\ DOMAIN panel = 0 .. OLED_HEIGHT - 1
    /\ \A y \in 0 .. OLED_HEIGHT - 1 : DOMAIN panel[y] = 0 .. OLED_WIDTH - 1
    /\ \A y \in 0 .. OLED_HEIGHT - 1, x \in 0 .. OLED_WIDTH - 1 : panel[y][x] # INK

\* Characters have pixels of their own.
LEMMA GlyphIsNoInk == GL_BG # INK /\ \A c, i, j : Glyph(c, i, j) # INK
<1>1. Len(INK) = 1 /\ Len(GL_BG) = 0
  BY DEF INK, GL_BG
<1>2. \A c, i, j : Len(<<c, i, j>>) = 3
  OBVIOUS
<1>3. \A c, i, j : <<c, i, j>> # INK
  BY <1>1, <1>2
<1> QED BY <1>1, <1>3 DEF Glyph

LEMMA TextIsInkFree ==
  ASSUME NEW panel, InkFree(panel), NEW a, NEW b, NEW X, NEW Y, NEW c
  PROVE  InkFree(Cleared(panel, a, b)) /\ InkFree(GL_putchar_xy(panel, X, Y, c))
<1>1. InkFree(Cleared(panel, a, b))
  BY GlyphIsNoInk DEF InkFree, Cleared
<1>2. InkFree(GL_putchar_xy(panel, X, Y, c))
  <2> DEFINE s == GL_putchar_xy(panel, X, Y, c)
  <2>1. s = [y \in 0 .. OLED_HEIGHT - 1 |->
               [x \in 0 .. OLED_WIDTH - 1 |->
                   IF x \in X .. X + FONT_WIDTH - 1 /\ y \in Y .. Y + FONT_HEIGHT - 1
                   THEN Glyph(c, x - X, y - Y) ELSE panel[y][x]]]
    BY DEF InkFree, GL_putchar_xy
  <2> HIDE DEF s
  <2>2. \A y \in 0 .. OLED_HEIGHT - 1, x \in 0 .. OLED_WIDTH - 1 : s[y][x] # INK
    BY <2>1, GlyphIsNoInk DEF InkFree
  <2> QED BY <2>1, <2>2 DEF InkFree, s
<1> QED BY <1>1, <1>2

\* While there is no figure, no pixel of one is on the screen.
LEMMA NoFigureNoInk ==
  ASSUME TextMode, TextInv, FigureInv
  PROVE  InkFree(frame)
<1>1. figure = None /\ FGA_mode = GL_MODE_OLED
  BY DEF TextMode
<1>2. Inked = {}
  BY <1>1 DEF FigureInv, DrawnWhole, Pixels, IsFilled
<1>3. GL_width = OLED_WIDTH /\ GL_height = OLED_HEIGHT
  BY <1>1, ScreenSizes
<1>4. ASSUME NEW y \in 0 .. OLED_HEIGHT - 1, NEW x \in 0 .. OLED_WIDTH - 1
      PROVE  frame[y][x] # INK
  <2>1. <<x, y>> \in Screen /\ <<x, y>>[1] = x /\ <<x, y>>[2] = y
    BY <1>3 DEF Screen
  <2>2. <<x, y>> \notin Inked
    BY <1>2
  <2> QED BY <2>1, <2>2 DEF Inked
<1>5. /\ DOMAIN frame = 0 .. OLED_HEIGHT - 1
      /\ \A y \in 0 .. OLED_HEIGHT - 1 : DOMAIN frame[y] = 0 .. OLED_WIDTH - 1
  BY DEF TextInv
<1> QED BY <1>4, <1>5 DEF InkFree

\* A step to a panel without such pixels, and without a figure.
LEMMA NoInkNext ==
  ASSUME FGA_mode' = GL_MODE_OLED, figure' = None, InkFree(frame')
  PROVE  FigureInv'
<1>1. GL_width' = OLED_WIDTH /\ GL_height' = OLED_HEIGHT
  BY DEF GL_width, GL_height, WidthOf, HeightOf
<1>2. Inked' = {}
  <2> SUFFICES ASSUME NEW p \in Screen', frame'[p[2]][p[1]] = INK PROVE FALSE
    BY DEF Inked
  <2>1. p[1] \in 0 .. OLED_WIDTH - 1 /\ p[2] \in 0 .. OLED_HEIGHT - 1
    BY <1>1 DEF Screen
  <2> QED BY <2>1 DEF InkFree
<1> QED BY <1>2 DEF FigureInv, Figures, Pixels, IsFilled

\* Writing, clearing and moving the cursor draw no figure.
LEMMA TextDrawsNone ==
  ASSUME TextMode, TextInv, FigureInv,
         \/ \E c \in Chars : GL_putchar(c)
         \/ NewLine \/ CarriageReturn \/ GL_clear
         \/ \E X \in 0 .. GL_width - 1, Y \in 0 .. GL_height - 1 : GL_tty_goto_xy(X, Y)
  PROVE  FigureInv'
<1>1. InkFree(frame) /\ FGA_mode = GL_MODE_OLED /\ figure = None
  BY NoFigureNoInk DEF TextMode
<1>2. InkFree(AtCursor.frame)
  BY <1>1, TextIsInkFree DEF AtCursor, Scrolled
<1>3. ASSUME NEW place, NEW panel, InkFree(panel), NEW X, NEW Y, NEW ended, Written(place, panel, X, Y, ended)
      PROVE  FigureInv'
  BY <1>3, NoInkNext DEF Written
<1>4. CASE \E c \in Chars : GL_putchar(c)
  BY <1>2, <1>3, <1>4, TextIsInkFree DEF GL_putchar
<1>5. CASE NewLine
  BY <1>2, <1>3, <1>5 DEF NewLine
<1>6. CASE CarriageReturn
  BY <1>2, <1>3, <1>6 DEF CarriageReturn
<1>7. CASE GL_clear
  <2>1. FGA_mode' = GL_MODE_OLED /\ figure' = None
    BY <1>1, <1>7 DEF GL_clear
  <2>2. GL_width = OLED_WIDTH /\ GL_height = OLED_HEIGHT
    BY <1>1, ScreenSizes
  <2>3. PICK hit : frame' = [y \in 0 .. OLED_HEIGHT - 1 |-> [x \in 0 .. OLED_WIDTH - 1 |->
                                IF <<x, y>> \in hit THEN GL_BG ELSE frame[y][x]]]
    BY <1>7, <2>2 DEF GL_clear, Painted
  <2>4. InkFree(frame')
    BY <1>1, <2>3, GlyphIsNoInk DEF InkFree
  <2> QED BY <2>1, <2>4, NoInkNext
<1>8. CASE \E X \in 0 .. GL_width - 1, Y \in 0 .. GL_height - 1 : GL_tty_goto_xy(X, Y)
  BY <1>1, <1>8, NoInkNext DEF GL_tty_goto_xy
<1> QED BY <1>4, <1>5, <1>6, <1>7, <1>8

\* The screen is blank after GL_tty_init, in both modes.
LEMMA InitDrawsNone ==
  ASSUME NEW mode \in {GL_MODE_OLED, GL_MODE_FGA}, FGA_mode' = mode, frame' = Blank(mode), figure' = None
  PROVE  FigureInv'
<1>1. GL_width' = WidthOf(mode) /\ GL_height' = HeightOf(mode)
  BY DEF GL_width, GL_height
<1>2. Inked' = {}
  <2> SUFFICES ASSUME NEW p \in Screen', frame'[p[2]][p[1]] = INK PROVE FALSE
    BY DEF Inked
  <2>1. p[1] \in 0 .. WidthOf(mode) - 1 /\ p[2] \in 0 .. HeightOf(mode) - 1
    BY <1>1 DEF Screen
  <2>2. Blank(mode)[p[2]][p[1]] = GL_BG
    BY <2>1 DEF Blank
  <2> QED BY <2>2, GlyphIsNoInk
<1> QED BY <1>2 DEF FigureInv, Figures, Pixels, IsFilled

\* To draw a figure whose pixels are as said, if it is drawn whole.
LEMMA DrawsItsPixels ==
  ASSUME FigureInv, frame = Blank(FGA_mode), NEW P, Draws(P),
         NEW fig \in Figures \ {None}, figure' = fig, ~IsFilled(fig),
         fig.shape = "rectangle" => OnScreen(fig.points),
         DrawnWhole' => P = Pixels(fig) /\ P \subseteq Screen
  PROVE  FigureInv'
<1>1. FGA_mode' = FGA_mode /\ frame' = Painted(P, INK)
  BY DEF Draws
<1>2. \A points : OnScreen(points)' <=> OnScreen(points)
  BY <1>1 DEF OnScreen, code, GL_width, GL_height
<1>3. DrawnWhole' => Inked' = P
  <2> SUFFICES ASSUME DrawnWhole' PROVE Inked' = P
    OBVIOUS
  <2>1. \A p \in P : p = <<p[1], p[2]>>
    BY DEF Screen
  <2>2. Inked' = P \cap Screen
    BY <1>1, <2>1, PaintedOnBlank
  <2> QED BY <2>2
<1>4. figure'.shape = "rectangle" => OnScreen(fig.points)'
  BY <1>2
<1>5. IsFilled(figure)' <=> IsFilled(fig)
  BY DEF IsFilled
<1>6. (DrawnWhole => IF IsFilled(figure) THEN TriangleIsRight(figure.points) ELSE Inked = Pixels(figure))'
  BY <1>3, <1>5
<1> QED BY <1>1, <1>2, <1>6 DEF FigureInv

\* To fill a triangle: right on the screen when what is sent is right.
LEMMA TriangleDrawn ==
  ASSUME frame = Blank(FGA_mode), NEW points, OnScreen(points), NEW P, Draws(P),
         Fills(points, P), \A z \in P : z = <<z[1], z[2]>>,
         FGA_mode = GL_MODE_OLED \/ Clockwise(points) = 0 \/ P \subseteq Screen
  PROVE  TriangleIsRight(points)'
<1>1. FGA_mode' = FGA_mode /\ frame' = Painted(P, INK)
  BY DEF Draws
<1>2. GL_height' = GL_height /\ OnScreen(points)'
  BY <1>1 DEF OnScreen, code, GL_width, GL_height
<1>3. /\ Screen' = Screen /\ P \cap Screen \subseteq Inked'
      /\ Clockwise(points) # 0 => Inked' = P \cap Screen
  BY <1>1, PaintedOnBlank
<1> DEFINE rows == IF FGA_mode = GL_MODE_OLED THEN 1 .. GL_height - 1 ELSE 0 .. GL_height - 1
<1>4. \A r \in Screen : r[2] \in rows =>
         /\ InsideBy(points, r, 0) => r \in Inked'
         /\ r \in Inked' /\ Clockwise(points) # 0 => InsideBy(points, r, -3)
  BY <1>3 DEF Fills
<1>5. /\ Slack(points)' = 0 /\ StoredRows' = rows
      /\ \A r, n : InsideBy(points, r, n)' <=> InsideBy(points, r, n)
  BY <1>1, <1>2 DEF Slack, StoredRows, InsideBy, Steps
<1>6. 2 * 0 = 0 /\ -3 - 0 = -3
  OBVIOUS
<1> HIDE DEF rows
<1>7. FillsTheInside(points)'
  BY <1>3, <1>4, <1>5, <1>6 DEF FillsTheInside
<1>8. StaysInside(points)'
  <2>1. \A r \in Inked' : r \in Screen
    BY <1>3 DEF Inked
  <2> QED BY <1>4, <1>5, <1>6, <2>1 DEF StaysInside
<1> QED BY <1>7, <1>8 DEF TriangleIsRight

LEMMA LineDrawn ==
  ASSUME FigureInv, frame = Blank(FGA_mode), NEW p \in Points, NEW q \in Points, DrawLine(p, q)
  PROVE  FigureInv'
<1> DEFINE fig == [shape |-> "line", points |-> <<p, q>>]
           P == GL_line(p, q)
<1>1. figure' = fig /\ Draws(P)
  BY DEF DrawLine
<1>2. fig \in Figures \ {None} /\ fig.shape = "line" /\ fig.points = <<p, q>>
  BY DEF Figures, None
<1>3. Pixels(fig) = Segment(p, q)
  BY <1>2 DEF Pixels
<1>4. ASSUME DrawnWhole' PROVE P = Pixels(fig) /\ P \subseteq Screen
  <2>1. FGA_mode' = FGA_mode
    BY <1>1 DEF Draws
  <2>2. OnScreen(<<p, q>>)'
    BY <1>1, <1>2, <1>4 DEF DrawnWhole
  <2>3. OnScreen(<<p, q>>)
    BY <2>1, <2>2 DEF OnScreen, code, GL_width, GL_height
  <2>4. code(p) = {} /\ code(q) = {}
    BY <2>3 DEF OnScreen
  <2>5. P = Segment(p, q)
    BY <2>4, LineOnScreen DEF Points
  <2>6. p \in Screen /\ q \in Screen
    BY <2>4, PointOnScreen
  <2> QED BY <1>3, <2>5, <2>6, SegmentOnScreen
<1> HIDE DEF fig, P
<1>5. fig.shape # "rectangle" /\ ~IsFilled(fig)
  BY <1>2 DEF IsFilled
<1> QED BY <1>1, <1>2, <1>4, <1>5, DrawsItsPixels

\* GL_setpixel draws a rectangle of one pixel.
LEMMA RectangleDrawn ==
  ASSUME FigureInv, frame = Blank(FGA_mode), NEW p \in Points, NEW q \in Points,
         OnScreen(<<p, q>>), p[1] <= q[1], p[2] <= q[2],
         Draws(Window(p[1], p[2], q[1], q[2])),
         figure' = [shape |-> "rectangle", points |-> <<p, q>>]
  PROVE  FigureInv'
<1> DEFINE fig == [shape |-> "rectangle", points |-> <<p, q>>]
           P == Window(p[1], p[2], q[1], q[2])
<1>1. fig \in Figures \ {None} /\ fig.shape = "rectangle" /\ fig.points = <<p, q>>
  <2>1. fig \in [shape : {"rectangle"}, points : Points \X Points] /\ fig # None
        /\ fig.points = <<p, q>> /\ fig.shape = "rectangle"
    BY DEF None
  <2>2. fig.points[1] = p /\ fig.points[2] = q
    BY <2>1
  <2> HIDE DEF fig
  <2> QED BY <2>1, <2>2 DEF Figures
<1>2. Pixels(fig) = P
  <2>1. fig # None /\ fig.points[1] = p /\ fig.points[2] = q
    BY <1>1
  <2> HIDE DEF fig
  <2> QED BY <1>1, <2>1 DEF Pixels
<1>3. P \subseteq Screen
  <2>1. code(p) = {} /\ code(q) = {}
    BY DEF OnScreen
  <2>2. p \in Screen /\ q \in Screen
    BY <2>1, PointOnScreen
  <2> QED BY <2>2, WholeRectangleIsRight
<1>4. OnScreen(fig.points)
  BY <1>1
<1>5. Draws(P) /\ figure' = fig
  OBVIOUS
<1> HIDE DEF fig, P
<1>6. ~IsFilled(fig)
  BY <1>1 DEF IsFilled
<1> QED BY <1>6, <1>1, <1>2, <1>3, <1>4, <1>5, DrawsItsPixels

\* An outline on the screen is its three edges.
LEMMA OutlineDrawn ==
  ASSUME NEW points \in Triangles, OnScreen(points), NEW culling, NEW garbage,
         ~Culled(culling, Clockwise(points))
  PROVE  /\ GL_fill_poly(points, "GL_POLY_LINES", culling, garbage) = Outline(points)
         /\ Outline(points) \subseteq Screen
<1> DEFINE a == points[1]
           b == points[2]
           c == points[3]
<1>1. /\ Len(points) = 3
      /\ a \in Points /\ b \in Points /\ c \in Points
      /\ Following(points, 1) = b /\ Following(points, 2) = c /\ Following(points, 3) = a
      /\ Outline(points) = Segment(a, b) \cup Segment(b, c) \cup Segment(c, a)
  BY TriangleIs
<1>2. Visible(points) = points /\ points # <<>>
  <2>1. Len(<<>>) = 0
    OBVIOUS
  <2> QED BY <1>1, <2>1 DEF Visible
<1>3. code(a) = {} /\ code(b) = {} /\ code(c) = {}
  BY <1>1 DEF OnScreen
<1>4. /\ GL_line(a, b) = Segment(a, b) /\ GL_line(b, c) = Segment(b, c)
      /\ GL_line(c, a) = Segment(c, a)
  BY <1>1, <1>3, LineOnScreen DEF Points
<1>5. Filled(points, "GL_POLY_LINES", culling, garbage)
      = UNION {GL_line(points[i], Following(points, i)) : i \in 1 .. Len(points)}
  BY <1>2 DEF Filled
<1>6. \A i : i \in 1 .. 3 <=> i = 1 \/ i = 2 \/ i = 3
  OBVIOUS
<1>7. ASSUME NEW s
      PROVE  s \in Filled(points, "GL_POLY_LINES", culling, garbage) <=> s \in Outline(points)
  <2>1. s \in Filled(points, "GL_POLY_LINES", culling, garbage) <=>
          \E i \in 1 .. 3 : s \in GL_line(points[i], Following(points, i))
    BY <1>1, <1>5
  <2> QED BY <1>1, <1>4, <1>6, <2>1
<1>8. Filled(points, "GL_POLY_LINES", culling, garbage) = Outline(points)
  <2>1. /\ Filled(points, "GL_POLY_LINES", culling, garbage) \subseteq Outline(points)
        /\ Outline(points) \subseteq Filled(points, "GL_POLY_LINES", culling, garbage)
    BY <1>7
  <2> QED BY <2>1
<1>9. Outline(points) \subseteq Screen
  <2>1. a \in Screen /\ b \in Screen /\ c \in Screen
    BY <1>1, <1>3, PointOnScreen
  <2>2. /\ Segment(a, b) \subseteq Screen /\ Segment(b, c) \subseteq Screen
        /\ Segment(c, a) \subseteq Screen
    BY <1>1, <2>1, SegmentOnScreen
  <2> QED BY <1>1, <2>2
<1> QED BY <1>8, <1>9 DEF GL_fill_poly, FGA_fill_poly

LEMMA PolygonDrawn ==
  ASSUME FigureInv, frame = Blank(FGA_mode), NEW points \in Triangles,
         NEW polygon_mode \in {"GL_POLY_LINES", "GL_POLY_FILL"},
         NEW culling \in {"GL_FRONT_FACE", "GL_BACK_FACE", "GL_FRONT_AND_BACK"},
         DrawPolygon(points, polygon_mode, culling)
  PROVE  FigureInv'
<1> DEFINE fig == [shape |-> polygon_mode, points |-> points, culling |-> culling]
<1>1. PICK garbage \in Garbage : Draws(GL_fill_poly(points, polygon_mode, culling, garbage))
  BY DEF DrawPolygon
<1> DEFINE P == GL_fill_poly(points, polygon_mode, culling, garbage)
<1>2. figure' = fig /\ Draws(P)
  BY <1>1 DEF DrawPolygon
<1>3. /\ fig \in Figures /\ fig.shape = polygon_mode /\ fig.points = points /\ fig.culling = culling
      /\ None.shape = "none"
  BY DEF Figures, None
<1> HIDE DEF fig
<1>4. fig # None /\ fig.shape # "rectangle" /\ fig.shape # "line"
  BY <1>3
<1>5. CASE Culled(culling, Clockwise(points))
  <2>1. P = {}
    BY <1>5 DEF GL_fill_poly, FGA_fill_poly, Filled
  <2>2. Pixels(fig) = {} /\ ~IsFilled(fig)
    BY <1>3, <1>4, <1>5 DEF Pixels, IsFilled
  <2> HIDE DEF P
  <2> QED BY <1>2, <1>3, <1>4, <2>1, <2>2, DrawsItsPixels
<1>6. CASE ~Culled(culling, Clockwise(points)) /\ polygon_mode = "GL_POLY_LINES"
  <2>1. ASSUME DrawnWhole' PROVE P = Pixels(fig) /\ P \subseteq Screen
    <3>1. FGA_mode' = FGA_mode
      BY <1>2 DEF Draws
    <3>2. OnScreen(points)'
      BY <1>2, <1>3, <1>4, <1>6, <2>1 DEF DrawnWhole
    <3>3. OnScreen(points)
      BY <3>1, <3>2 DEF OnScreen, code, GL_width, GL_height
    <3>4. Pixels(fig) = Outline(points)
      BY <1>3, <1>4, <1>6 DEF Pixels
    <3> QED BY <1>6, <3>3, <3>4, OutlineDrawn
  <2>2. ~IsFilled(fig)
    BY <1>3, <1>6 DEF IsFilled
  <2> HIDE DEF P
  <2> QED BY <1>2, <1>3, <1>4, <2>1, <2>2, DrawsItsPixels
<1>7. CASE ~Culled(culling, Clockwise(points)) /\ polygon_mode = "GL_POLY_FILL"
  <2>1. FGA_mode' = FGA_mode
    BY <1>2 DEF Draws
  <2>2. FGA_mode \in {GL_MODE_OLED, GL_MODE_FGA}
    BY DEF FigureInv
  <2>3. ASSUME DrawnWhole' PROVE TriangleIsRight(points)'
    <3>1. OnScreen(points)'
      BY <1>2, <1>3, <1>4, <1>7, <2>3 DEF DrawnWhole
    <3>2. OnScreen(points)
      BY <2>1, <3>1 DEF OnScreen, code, GL_width, GL_height
    <3>3. /\ Fills(points, P)
          /\ \A z \in P : z = <<z[1], z[2]>>
          /\ FGA_mode = GL_MODE_OLED \/ Clockwise(points) = 0 \/ P \subseteq Screen
      BY <1>7, <2>2, <3>2, FillingIsRight
    <3> HIDE DEF P
    <3> QED BY <1>2, <3>2, <3>3, TriangleDrawn
  <2>4. IsFilled(figure)' /\ figure'.points = points
    BY <1>2, <1>3, <1>4, <1>7 DEF IsFilled
  <2>5. figure' \in Figures /\ figure'.shape # "rectangle"
    BY <1>2, <1>3, <1>4
  <2>6. (DrawnWhole => IF IsFilled(figure) THEN TriangleIsRight(figure.points) ELSE Inked = Pixels(figure))'
    BY <2>3, <2>4
  <2> QED BY <2>1, <2>2, <2>5, <2>6 DEF FigureInv
<1> QED BY <1>5, <1>6, <1>7

LEMMA FigureDrawn ==
  ASSUME FigureInv, Draw
  PROVE  FigureInv'
<1>1. frame = Blank(FGA_mode)
  BY DEF Draw, Fresh
<1>2. PointsNear \subseteq Points
  <2>1. GL_width \in Int /\ GL_height \in Int /\ MARGIN \in Int
    BY ScreenSizes, FigureAssumption
  <2> QED BY <2>1 DEF PointsNear, Points
<1>3. Corners \subseteq Points
  <2>1. (\A c \in Columns : c - MARGIN \in Int) /\ (\A r \in Rows : r - MARGIN \in Int)
    BY FigureAssumption
  <2> QED BY <2>1 DEF Corners, Points
<1>4. ASSUME NEW p \in PointsNear, NEW q \in PointsNear, DrawLine(p, q) PROVE FigureInv'
  BY <1>1, <1>2, <1>4, LineDrawn
<1>5. ASSUME NEW p \in Corners, NEW q \in Corners, NEW r \in Corners,
             NEW polygon_mode \in {"GL_POLY_LINES", "GL_POLY_FILL"},
             NEW culling \in {"GL_FRONT_FACE", "GL_BACK_FACE", "GL_FRONT_AND_BACK"},
             DrawPolygon(<<p, q, r>>, polygon_mode, culling)
      PROVE  FigureInv'
  <2>1. <<p, q, r>> \in Triangles
    BY <1>3 DEF Triangles
  <2> QED BY <1>1, <1>5, <2>1, PolygonDrawn
<1>6. ASSUME NEW p \in PointsNear, NEW q \in PointsNear, DrawRectangle(p, q) PROVE FigureInv'
  <2>1. p[1] <= q[1] /\ OnScreen(<<p, q>>) /\ p[2] <= q[2]
    BY <1>6 DEF DrawRectangle
  <2>2. p[1] \in Int /\ q[1] \in Int
    BY <1>2 DEF Points
  <2>3. Draws(Window(p[1], p[2], q[1], q[2]))
    BY <1>6, <2>1, <2>2 DEF DrawRectangle, GL_fill_rect, FGA_fill_rect
  <2>4. figure' = [shape |-> "rectangle", points |-> <<p, q>>]
    BY <1>6 DEF DrawRectangle
  <2> QED BY <1>1, <1>2, <2>1, <2>3, <2>4, RectangleDrawn
<1>7. ASSUME NEW p \in PointsNear, DrawPixel(p) PROVE FigureInv'
  <2>1. code(p) = {}
    BY <1>7 DEF DrawPixel, OnScreen
  <2>2. OnScreen(<<p, p>>)
    BY <2>1 DEF OnScreen
  <2>3. p[1] <= p[1] /\ p[2] <= p[2]
    BY <1>2 DEF Points
  <2>4. Draws(Window(p[1], p[2], p[1], p[2]))
    BY <1>7 DEF DrawPixel, GL_setpixel
  <2>5. figure' = [shape |-> "rectangle", points |-> <<p, p>>]
    BY <1>7 DEF DrawPixel
  <2> QED BY <1>1, <1>2, <2>2, <2>3, <2>4, <2>5, RectangleDrawn
<1> QED BY <1>4, <1>5, <1>6, <1>7 DEF Draw

LEMMA FigureStep ==
  ASSUME TextInv, FigureInv, [TerminalNext]_terminalVars
  PROVE  FigureInv'
<1>1. CASE Draw
  BY <1>1, FigureDrawn
<1>2. CASE \E mode \in {GL_MODE_OLED, GL_MODE_FGA} : GL_tty_init(mode)
  BY <1>2, InitDrawsNone DEF GL_tty_init, GL_init, FGA_setmode
<1>3. CASE UNCHANGED terminalVars
  <2>1. FGA_mode' = FGA_mode /\ frame' = frame /\ figure' = figure
    BY <1>3 DEF terminalVars
  <2>2. Inked' = Inked /\ \A points : OnScreen(points)' <=> OnScreen(points)
    BY <2>1 DEF Inked, Screen, OnScreen, code, GL_width, GL_height
  <2>3. \A points, y : LevelWithACorner(points, y)' <=> LevelWithACorner(points, y)
    <3>1. \A p : code(p)' = code(p)
      BY <2>1 DEF code, GL_width, GL_height
    <3> QED BY <3>1 DEF LevelWithACorner
  <2>4. \A points : TriangleIsRight(points)' <=> TriangleIsRight(points)
    BY <2>1, <2>2, <2>3
       DEF TriangleIsRight, FillsTheInside, StaysInside, StoredRows, Slack, Screen, GL_width, GL_height
  <2> QED BY <2>1, <2>2, <2>4 DEF FigureInv, DrawnWhole, IsFilled
<1>4. ASSUME \/ \E c \in Chars : GL_putchar(c)
             \/ NewLine \/ CarriageReturn \/ GL_clear
             \/ \E X \in 0 .. GL_width - 1, Y \in 0 .. GL_height - 1 :
                   X % FONT_WIDTH = 0 /\ Y % FONT_HEIGHT = 0 /\ GL_tty_goto_xy(X, Y)
      PROVE  FigureInv'
  <2>1. TextMode
    BY <1>4 DEF TextMode, GL_putchar, NewLine, CarriageReturn, Written, GL_tty_goto_xy, GL_clear
  <2> QED BY <1>4, <2>1, TextDrawsNone
<1> QED BY <1>1, <1>2, <1>3, <1>4 DEF TerminalNext

LEMMA NoFigureAtFirst == TerminalInit => FigureInv
<1> SUFFICES ASSUME TerminalInit PROVE FigureInv
  OBVIOUS
<1>1. FGA_mode = GL_MODE_OLED /\ frame = Blank(GL_MODE_OLED) /\ figure = None
  BY DEF TerminalInit
<1>2. Inked = {}
  <2> SUFFICES ASSUME NEW p \in Screen, frame[p[2]][p[1]] = INK PROVE FALSE
    BY DEF Inked
  <2>1. p[1] \in 0 .. WidthOf(GL_MODE_OLED) - 1 /\ p[2] \in 0 .. HeightOf(GL_MODE_OLED) - 1
    BY <1>1 DEF Screen, GL_width, GL_height
  <2>2. frame[p[2]][p[1]] = GL_BG
    BY <1>1, <2>1 DEF Blank
  <2> QED BY <2>2, GlyphIsNoInk
<1> QED BY <1>1, <1>2 DEF FigureInv, Figures, Pixels, IsFilled

\* What is drawn whole is drawn right, whatever the sizes of the screen and whatever its
\* points: a line is at most one and a half pixels beside the true one and leaves out no
\* pixel on it, a rectangle is filled, an outline has all its corners, a triangle is filled
\* inside and not one and a half pixels outside, and one that is turned away leaves the screen
\* blank.
THEOREM WholeFiguresRight == TerminalSpec => [](DrawnWhole => FiguresAreRight)
<1>1. TerminalInit => FigureInv
  BY NoFigureAtFirst
<1>2. TextInv /\ FigureInv /\ [TerminalNext]_terminalVars => FigureInv'
  BY FigureStep
<1>3. FigureInv => (DrawnWhole => FiguresAreRight)
  BY WholeFigureIsRight
<1> QED BY <1>1, <1>2, <1>3, TextInvariant, PTL DEF TerminalSpec

-------------------------------------------------------------------------------
(* Figures: the line on the screen.                                        *)

\* A line that was drawn is right.
LineInv ==
    CUT >= 4 /\ figure.shape = "line" => LineIsRight(figure.points[1], figure.points[2])

LEMMA LineSent ==
  ASSUME frame = Blank(FGA_mode), NEW p \in Points, NEW q \in Points, CUT >= 4, DrawLine(p, q)
  PROVE  LineIsRight(p, q)'
<1> DEFINE P == GL_line(p, q)
<1>1. RightFor(p, q, P)
  BY WholeLineSent, CutLineSent
<1>2. FGA_mode' = FGA_mode /\ frame' = Painted(P, INK)
  BY DEF DrawLine, Draws
<1> HIDE DEF P
<1>3. P \subseteq Screen /\ \A r \in P : r = <<r[1], r[2]>>
  BY <1>1 DEF RightFor
<1>4. Inked' = P /\ Screen' = Screen
  <2>1. Inked' = P \cap Screen /\ Screen' = Screen
    BY <1>2, <1>3, PaintedOnBlank
  <2> QED BY <1>3, <2>1
<1>5. /\ OnScreen(<<p, q>>)' <=> OnScreen(<<p, q>>)
      /\ Slack(<<p, q>>)' = Slack(<<p, q>>)
      /\ \A r : AtBorder(r)' <=> AtBorder(r)
  BY <1>2 DEF Slack, OnScreen, code, AtBorder, GL_width, GL_height
<1> QED BY <1>1, <1>4, <1>5 DEF LineIsRight, RightFor

LEMMA LineStep ==
  ASSUME FigureInv, LineInv, [TerminalNext]_terminalVars
  PROVE  LineInv'
<1> SUFFICES ASSUME CUT >= 4, figure'.shape = "line"
             PROVE  LineIsRight(figure.points[1], figure.points[2])'
  BY DEF LineInv
<1>1. None.shape # "line"
  BY DEF None
<1>2. ASSUME NEW p \in PointsNear, NEW q \in PointsNear, DrawLine(p, q), frame = Blank(FGA_mode)
      PROVE  LineIsRight(figure.points[1], figure.points[2])'
  <2>1. p \in Points /\ q \in Points
    <3>1. GL_width \in Int /\ GL_height \in Int /\ MARGIN \in Int
      BY ScreenSizes, FigureAssumption
    <3> QED BY <3>1 DEF PointsNear, Points
  <2>2. figure'.points[1] = p /\ figure'.points[2] = q
    BY <1>2 DEF DrawLine
  <2> QED BY <1>2, <2>1, <2>2, LineSent
<1>3. CASE Draw
  <2>1. frame = Blank(FGA_mode)
    BY <1>3 DEF Draw, Fresh
  <2>2. ASSUME NEW points, NEW polygon_mode \in {"GL_POLY_LINES", "GL_POLY_FILL"}, NEW culling,
               DrawPolygon(points, polygon_mode, culling)
        PROVE  FALSE
    BY <2>2 DEF DrawPolygon
  <2>3. ASSUME NEW p, NEW q, DrawRectangle(p, q) \/ DrawPixel(p) PROVE FALSE
    BY <2>3 DEF DrawRectangle, DrawPixel
  <2> QED BY <1>2, <1>3, <2>1, <2>2, <2>3 DEF Draw
<1>4. CASE \E mode \in {GL_MODE_OLED, GL_MODE_FGA} : GL_tty_init(mode)
  BY <1>1, <1>4 DEF GL_tty_init, GL_init, FGA_setmode
<1>5. CASE UNCHANGED terminalVars
  <2>1. FGA_mode' = FGA_mode /\ frame' = frame /\ figure' = figure
    BY <1>5 DEF terminalVars
  <2>2. Inked' = Inked /\ \A points : OnScreen(points)' <=> OnScreen(points)
    BY <2>1 DEF Inked, Screen, OnScreen, code, GL_width, GL_height
  <2>3. LineIsRight(figure.points[1], figure.points[2])
    BY <2>1 DEF LineInv
  <2>4. LineIsRight(figure.points[1], figure.points[2])' <=> LineIsRight(figure'.points[1], figure'.points[2])
    BY <2>1, <2>2 DEF LineIsRight, Slack, AtBorder, Screen, GL_width, GL_height
  <2> QED BY <2>1, <2>3, <2>4
<1>6. ASSUME \/ \E c \in Chars : GL_putchar(c)
             \/ NewLine \/ CarriageReturn \/ GL_clear
             \/ \E X \in 0 .. GL_width - 1, Y \in 0 .. GL_height - 1 :
                   X % FONT_WIDTH = 0 /\ Y % FONT_HEIGHT = 0 /\ GL_tty_goto_xy(X, Y)
      PROVE  FALSE
  <2>1. figure' = None
    BY <1>6 DEF TextMode, GL_putchar, NewLine, CarriageReturn, Written, GL_tty_goto_xy, GL_clear
  <2> QED BY <1>1, <2>1
<1> QED BY <1>3, <1>4, <1>5, <1>6 DEF TerminalNext

\* A line is right also where it is cut at the border, whatever the sizes of the screen and its
\* ends, if two half pixels more are allowed for each of the two ends that are moved: it is at most
\* three and a half pixels beside the true line, and it passes every pixel right on the true line,
\* but for those at the border, at a distance of at most three.
THEOREM LinesRight == TerminalSpec => [](CUT >= 4 /\ figure.shape = "line" => FiguresAreRight)
<1>1. TerminalInit => FigureInv /\ LineInv
  <2>1. TerminalInit => LineInv
    BY DEF TerminalInit, LineInv, None
  <2> QED BY <2>1, NoFigureAtFirst
<1>2. TextInv /\ FigureInv /\ LineInv /\ [TerminalNext]_terminalVars => FigureInv' /\ LineInv'
  BY FigureStep, LineStep
<1>3. LineInv => (CUT >= 4 /\ figure.shape = "line" => FiguresAreRight)
  BY DEF LineInv, FiguresAreRight
<1> QED BY <1>1, <1>2, <1>3, TextInvariant, PTL DEF TerminalSpec

-------------------------------------------------------------------------------
(* Figures: the corners of a cut outline.                                  *)

\* FlattenSeq puts the sequences of a sequence one behind the other.
Flattens(f, n, K) == f[1] = K[1] /\ \A i \in 2 .. n : f[i] = f[i - 1] \o K[i]

LEMMA FlattenIs ==
  ASSUME NEW n \in Nat \ {0}, NEW K, Len(K) = n
  PROVE  \E f : FlattenSeq(K) = f[n] /\ Flattens(f, n, K)
<1> DEFINE next(w, i) == w \o K[i]
           body(g) == [i \in 1 .. n |-> IF i = 1 THEN K[i] ELSE next(g[i - 1], i)]
           flatten == CHOOSE g : g = body(g)
           good(g, m) == /\ g = [i \in 1 .. m |-> g[i]]
                         /\ \A i \in 1 .. m : (i = 1 => g[i] = K[i]) /\ (i # 1 => g[i] = next(g[i - 1], i))
           T == {m \in Nat : \E g : good(g, m)}
<1>1. FlattenSeq(K) = flatten[n]
  BY DEF FlattenSeq
<1> HIDE DEF next
<1>2. 0 \in T
  <2> DEFINE e == [i \in 1 .. 0 |-> <<>>]
  <2>1. good(e, 0)
    OBVIOUS
  <2> HIDE DEF good, e
  <2> QED BY <2>1
<1>3. ASSUME NEW m \in Nat, m \in T PROVE m + 1 \in T
  <2>1. PICK g : good(g, m)
    BY <1>3
  <2> DEFINE h == [i \in 1 .. m + 1 |-> IF i = 1 THEN K[i] ELSE next(g[i - 1], i)]
  <2>2. h = [i \in 1 .. m + 1 |-> h[i]]
    OBVIOUS
  <2>3. ASSUME NEW i \in 1 .. m PROVE h[i] = g[i]
    <3>1. (i = 1 => g[i] = K[i]) /\ (i # 1 => g[i] = next(g[i - 1], i))
      BY <2>1, Zenon
    <3>2. h[i] = IF i = 1 THEN K[i] ELSE next(g[i - 1], i)
      OBVIOUS
    <3> QED BY <3>1, <3>2
  <2>4. ASSUME NEW i \in 1 .. m + 1
        PROVE  (i = 1 => h[i] = K[i]) /\ (i # 1 => h[i] = next(h[i - 1], i))
    <3>1. i # 1 => i - 1 \in 1 .. m
      OBVIOUS
    <3>2. (i = 1 => h[i] = K[i]) /\ (i # 1 => h[i] = next(g[i - 1], i))
      OBVIOUS
    <3> HIDE DEF h
    <3> QED BY <2>3, <3>1, <3>2
  <2>5. good(h, m + 1)
    <3> HIDE DEF h
    <3> QED BY <2>2, <2>4
  <2> HIDE DEF good, h
  <2> QED BY <2>5
<1>4. n \in T
  <2> HIDE DEF T
  <2>1. Nat \subseteq T
    BY <1>2, <1>3, SetInduction
  <2> QED BY <2>1
<1>5. flatten = body(flatten)
  <2>1. PICK g : good(g, n)
    BY <1>4
  <2>2. g = body(g)
    <3> DEFINE b == body(g)
    <3>1. b = [i \in 1 .. n |-> b[i]]
      OBVIOUS
    <3>4. ASSUME NEW i \in 1 .. n PROVE g[i] = b[i]
      <4>1. b[i] = IF i = 1 THEN K[i] ELSE next(g[i - 1], i)
        OBVIOUS
      <4>2. (i = 1 => g[i] = K[i]) /\ (i # 1 => g[i] = next(g[i - 1], i))
        BY <2>1, Zenon
      <4> QED BY <4>1, <4>2
    <3>2. g = [i \in 1 .. n |-> g[i]]
      BY <2>1
    <3> HIDE DEF b
    <3>3. g = b
      BY <3>1, <3>2, <3>4
    <3> QED BY <3>3 DEF b
  <2> HIDE DEF body
  <2> QED BY <2>2
<1> HIDE DEF flatten
<1>6. flatten[1] = K[1] /\ \A i \in 2 .. n : flatten[i] = next(flatten[i - 1], i)
  <2>1. \A i \in 1 .. n : (i = 1 => flatten[i] = K[i]) /\ (i # 1 => flatten[i] = next(flatten[i - 1], i))
    BY <1>5
  <2>2. 1 \in 1 .. n /\ \A i \in 2 .. n : i \in 1 .. n /\ i # 1
    OBVIOUS
  <2> HIDE DEF body, good, T
  <2> QED BY <2>1
<1>7. Flattens(flatten, n, K)
  BY <1>6 DEF next, Flattens
<1> QED BY <1>1, <1>7

\* Beside the side h of the screen, whose coefficients are the arguments of clip_H: on the screen's
\* side if positive, right on it if zero.
Value(h, z) == h[1] * z[1] + h[2] * z[2] + h[3]

\* Where the edge from p to q is cut, and what is kept of it.
CrossingOf(h, p, q) == crossing(p, q, h[1], h[2], h[3])

KeptOf(h, p, q) ==
    (IF SGN(Value(h, p)) * SGN(Value(h, q)) = -1 THEN <<CrossingOf(h, p, q)>> ELSE <<>>)
    \o (IF SGN(Value(h, q)) >= 0 THEN <<q>> ELSE <<>>)

LEMMA ClipIs ==
  ASSUME NEW points, NEW h
  PROVE  clip_H(points, h[1], h[2], h[3]) =
            FlattenSeq([i \in 1 .. Len(points) |-> KeptOf(h, Previous(points, i), points[i])])
BY DEF clip_H, KeptOf, CrossingOf, Value

\* A sequence of points of Q beside h, one linked to the next.
Chain(h, Q, L, F) ==
    /\ F \in Seq(Q)
    /\ \A j \in 1 .. Len(F) : Value(h, F[j]) >= 0
    /\ \A j \in 1 .. Len(F) - 1 : <<F[j], F[j + 1]>> \in L

\* What is kept of the way from p to q: its first point is linked to p or lies on the side, its
\* last point is q or lies on the side.
Piece(h, Q, L, p, q, F) ==
    /\ Chain(h, Q, L, F)
    /\ Len(F) = 0 => Value(h, p) <= 0 /\ Value(h, q) < 0
    /\ Len(F) > 0 =>
          /\ Value(h, p) >= 0 => <<p, F[1]>> \in L
          /\ Value(h, p) < 0 => Value(h, F[1]) = 0
          /\ Value(h, q) >= 0 => F[Len(F)] = q
          /\ Value(h, q) < 0 => Value(h, F[Len(F)]) = 0

\* Points on the side are linked.
LinksSide(h, Q, L) ==
    /\ \A x \in Q : Value(h, x) \in Int
    /\ \A x, y \in Q : Value(h, x) = 0 /\ Value(h, y) = 0 => <<x, y>> \in L

\* An edge on the screen's side is a link, and so is the part of one that is cut.
CutsEdge(h, Q, L, p, q) ==
    /\ Value(h, p) >= 0 /\ Value(h, q) >= 0 => <<p, q>> \in L
    /\ (Value(h, p) > 0 /\ Value(h, q) < 0) \/ (Value(h, p) < 0 /\ Value(h, q) > 0) =>
          /\ CrossingOf(h, p, q) \in Q /\ Value(h, CrossingOf(h, p, q)) = 0
          /\ Value(h, p) > 0 => <<p, CrossingOf(h, p, q)>> \in L
          /\ Value(h, q) > 0 => <<CrossingOf(h, p, q), q>> \in L

\* Two sequences one behind the other.
LEMMA Joined ==
  ASSUME NEW Q, NEW F \in Seq(Q), NEW G \in Seq(Q)
  PROVE  /\ F \o G \in Seq(Q) /\ Len(F \o G) = Len(F) + Len(G) /\ Len(F) \in Nat /\ Len(G) \in Nat
         /\ \A j \in 1 .. Len(F) : (F \o G)[j] = F[j] /\ F[j] \in Q
         /\ \A j \in 1 .. Len(G) : (F \o G)[Len(F) + j] = G[j] /\ G[j] \in Q
<1>1. F \o G \in Seq(Q) /\ Len(F \o G) = Len(F) + Len(G) /\ Len(F) \in Nat /\ Len(G) \in Nat
  OBVIOUS
<1>2. ASSUME NEW j \in 1 .. Len(F) PROVE (F \o G)[j] = F[j] /\ F[j] \in Q
  OBVIOUS
<1>3. ASSUME NEW j \in 1 .. Len(G) PROVE (F \o G)[Len(F) + j] = G[j] /\ G[j] \in Q
  OBVIOUS
<1> QED BY <1>1, <1>2, <1>3

LEMMA ShortSequences ==
  ASSUME NEW x, NEW y
  PROVE  /\ <<>> \o <<>> = <<>> /\ <<x>> \o <<>> = <<x>> /\ <<>> \o <<y>> = <<y>>
         /\ <<x>> \o <<y>> = <<x, y>>
<1>1. <<>> \o <<>> = <<>>
  OBVIOUS
<1>2. <<x>> \o <<>> = <<x>>
  OBVIOUS
<1>3. <<>> \o <<y>> = <<y>>
  OBVIOUS
<1>4. <<x>> \o <<y>> = <<x, y>>
  <2> DEFINE s == <<x>> \o <<y>>
             S == {x, y}
  <2>1. <<x>> \in Seq(S) /\ <<y>> \in Seq(S) /\ Len(<<x>>) = 1 /\ Len(<<y>>) = 1 /\ <<x>>[1] = x /\ <<y>>[1] = y
    OBVIOUS
  <2>2. s \in Seq(S) /\ Len(s) = 2 /\ s[1] = x /\ s[2] = y
    <3>1. 1 \in 1 .. 1 /\ 1 + 1 = 2
      OBVIOUS
    <3>2. /\ s \in Seq(S) /\ Len(s) = Len(<<x>>) + Len(<<y>>)
          /\ \A j \in 1 .. Len(<<x>>) : s[j] = <<x>>[j]
          /\ \A j \in 1 .. Len(<<y>>) : s[Len(<<x>>) + j] = <<y>>[j]
      BY <2>1, Joined
    <3> HIDE DEF s, S
    <3> QED BY <2>1, <3>1, <3>2
  <2> HIDE DEF s
  <2>3. DOMAIN s = 1 .. 2 /\ s = [j \in DOMAIN s |-> s[j]]
    BY <2>2
  <2>4. s = [j \in 1 .. 2 |-> IF j = 1 THEN x ELSE y]
    BY <2>2, <2>3
  <2>5. <<x, y>> = [j \in 1 .. 2 |-> IF j = 1 THEN x ELSE y]
    OBVIOUS
  <2> QED BY <2>4, <2>5 DEF s
<1> QED BY <1>1, <1>2, <1>3, <1>4

\* What is kept of one edge.
LEMMA EdgeKept ==
  ASSUME NEW h, NEW Q, NEW L, LinksSide(h, Q, L), NEW p \in Q, NEW q \in Q, CutsEdge(h, Q, L, p, q)
  PROVE  Piece(h, Q, L, p, q, KeptOf(h, p, q))
<1>1. PICK u \in Int, v \in Int : u = Value(h, p) /\ v = Value(h, q)
  BY DEF LinksSide
<1> DEFINE c == CrossingOf(h, p, q)
<1>2. /\ u >= 0 /\ v >= 0 => <<p, q>> \in L
      /\ (u > 0 /\ v < 0) \/ (u < 0 /\ v > 0) =>
            c \in Q /\ Value(h, c) = 0 /\ (u > 0 => <<p, c>> \in L) /\ (v > 0 => <<c, q>> \in L)
  BY <1>1 DEF CutsEdge
<1>3. /\ SGN(u) * SGN(v) = -1 <=> (u > 0 /\ v < 0) \/ (u < 0 /\ v > 0)
      /\ SGN(v) >= 0 <=> v >= 0
  BY DEF SGN
<1> DEFINE x == IF SGN(Value(h, p)) * SGN(Value(h, q)) = -1 THEN <<c>> ELSE <<>>
           y == IF SGN(Value(h, q)) >= 0 THEN <<q>> ELSE <<>>
<1>4. /\ KeptOf(h, p, q) = x \o y
      /\ (u > 0 /\ v < 0) \/ (u < 0 /\ v > 0) => x = <<c>>
      /\ ~((u > 0 /\ v < 0) \/ (u < 0 /\ v > 0)) => x = <<>>
      /\ v >= 0 => y = <<q>>
      /\ ~(v >= 0) => y = <<>>
  <2>1. KeptOf(h, p, q) = x \o y
    BY DEF KeptOf
  <2>2. SGN(Value(h, p)) = SGN(u) /\ SGN(Value(h, q)) = SGN(v)
    BY <1>1
  <2> HIDE DEF c
  <2>3. /\ (u > 0 /\ v < 0) \/ (u < 0 /\ v > 0) => x = <<c>>
        /\ ~((u > 0 /\ v < 0) \/ (u < 0 /\ v > 0)) => x = <<>>
    BY <1>3, <2>2
  <2>4. (v >= 0 => y = <<q>>) /\ (~(v >= 0) => y = <<>>)
    BY <1>3, <2>2
  <2> QED BY <2>1, <2>3, <2>4
<1> HIDE DEF c, x, y
<1>5. CASE u > 0 /\ v < 0
  <2>1. KeptOf(h, p, q) = <<c>>
    <3>0. x = <<c>> /\ y = <<>>
      BY <1>4, <1>5
    <3>1. KeptOf(h, p, q) = <<c>> \o <<>>
      BY <1>4, <3>0, Zenon
    <3> QED BY <3>1, ShortSequences
  <2>2. <<c>> \in Seq(Q) /\ Len(<<c>>) = 1 /\ <<c>>[1] = c
    BY <1>2, <1>5
  <2>3. Value(h, c) >= 0 /\ Value(h, c) = 0
    BY <1>2, <1>5
  <2>4. Chain(h, Q, L, <<c>>)
    <3>1. 1 .. 1 - 1 = {} /\ \A j \in 1 .. 1 : j = 1
      OBVIOUS
    <3> QED BY <2>2, <2>3, <3>1 DEF Chain
  <2>5. Piece(h, Q, L, p, q, <<c>>)
    BY <1>1, <1>2, <1>5, <2>2, <2>3, <2>4 DEF Piece
  <2> QED BY <2>1, <2>5
<1>6. CASE u < 0 /\ v > 0
  <2>1. KeptOf(h, p, q) = <<c, q>>
    <3>0. x = <<c>> /\ y = <<q>>
      BY <1>4, <1>6
    <3>1. KeptOf(h, p, q) = <<c>> \o <<q>>
      BY <1>4, <3>0, Zenon
    <3> QED BY <3>1, ShortSequences
  <2>2. <<c, q>> \in Seq(Q) /\ Len(<<c, q>>) = 2 /\ <<c, q>>[1] = c /\ <<c, q>>[2] = q
    BY <1>2, <1>6
  <2>3. Value(h, c) >= 0 /\ Value(h, c) = 0 /\ Value(h, q) >= 0 /\ <<c, q>> \in L
    BY <1>1, <1>2, <1>6
  <2>4. Chain(h, Q, L, <<c, q>>)
    <3>1. (\A j \in 1 .. 2 - 1 : j = 1) /\ (\A j \in 1 .. 2 : j = 1 \/ j = 2) /\ 1 + 1 = 2
      OBVIOUS
    <3> QED BY <2>2, <2>3, <3>1 DEF Chain
  <2>5. Piece(h, Q, L, p, q, <<c, q>>)
    BY <1>1, <1>2, <1>6, <2>2, <2>3, <2>4 DEF Piece
  <2> QED BY <2>1, <2>5
<1>7. CASE v >= 0 /\ ~(u < 0 /\ v > 0)
  <2>1. KeptOf(h, p, q) = <<q>>
    <3>0. x = <<>> /\ y = <<q>>
      BY <1>4, <1>7
    <3>1. KeptOf(h, p, q) = <<>> \o <<q>>
      BY <1>4, <3>0, Zenon
    <3> QED BY <3>1, ShortSequences
  <2>2. <<q>> \in Seq(Q) /\ Len(<<q>>) = 1 /\ <<q>>[1] = q
    OBVIOUS
  <2>3. Value(h, q) >= 0 /\ (Value(h, p) < 0 => Value(h, q) = 0) /\ (Value(h, p) >= 0 => <<p, q>> \in L)
    BY <1>1, <1>2, <1>7
  <2>4. Chain(h, Q, L, <<q>>)
    <3>1. 1 .. 1 - 1 = {} /\ \A j \in 1 .. 1 : j = 1
      OBVIOUS
    <3> QED BY <2>2, <2>3, <3>1 DEF Chain
  <2>6. ~(Value(h, q) < 0)
    BY <1>1, <1>7
  <2>5. Piece(h, Q, L, p, q, <<q>>)
    BY <2>2, <2>3, <2>4, <2>6 DEF Piece
  <2> QED BY <2>1, <2>5
<1>8. CASE v < 0 /\ ~(u > 0)
  <2>1. KeptOf(h, p, q) = <<>>
    <3>0. x = <<>> /\ y = <<>>
      BY <1>4, <1>8
    <3>1. KeptOf(h, p, q) = <<>> \o <<>>
      BY <1>4, <3>0, Zenon
    <3> QED BY <3>1, ShortSequences
  <2>2. <<>> \in Seq(Q) /\ Len(<<>>) = 0
    OBVIOUS
  <2> QED BY <1>1, <1>8, <2>1, <2>2 DEF Piece, Chain
<1> QED BY <1>5, <1>6, <1>7, <1>8

LEMMA PieceJoins ==
  ASSUME NEW h, NEW Q, NEW L, LinksSide(h, Q, L), NEW p \in Q, NEW q \in Q, NEW r \in Q,
         NEW F, NEW G, Piece(h, Q, L, p, q, F), Piece(h, Q, L, q, r, G)
  PROVE  Piece(h, Q, L, p, r, F \o G)
<1>1. F \in Seq(Q) /\ G \in Seq(Q)
  BY DEF Piece, Chain
<1>2. PICK E : E = F \o G
  OBVIOUS
<1>3. PICK m \in Nat, n \in Nat : /\ m = Len(F) /\ n = Len(G) /\ Len(E) = m + n /\ E \in Seq(Q)
                                  /\ \A j \in 1 .. m : E[j] = F[j] /\ F[j] \in Q
                                  /\ \A j \in 1 .. n : E[m + j] = G[j] /\ G[j] \in Q
  <2>1. /\ E \in Seq(Q) /\ Len(E) = Len(F) + Len(G) /\ Len(F) \in Nat /\ Len(G) \in Nat
        /\ \A j \in 1 .. Len(F) : E[j] = F[j] /\ F[j] \in Q
        /\ \A j \in 1 .. Len(G) : E[Len(F) + j] = G[j] /\ G[j] \in Q
    BY <1>1, <1>2, Joined
  <2> QED BY <2>1
<1>4. /\ \A j \in 1 .. m : Value(h, F[j]) >= 0
      /\ \A j \in 1 .. n : Value(h, G[j]) >= 0
      /\ \A j \in 1 .. m - 1 : <<F[j], F[j + 1]>> \in L
      /\ \A j \in 1 .. n - 1 : <<G[j], G[j + 1]>> \in L
  BY <1>3 DEF Piece, Chain
<1>5. /\ m = 0 => Value(h, p) <= 0 /\ Value(h, q) < 0
      /\ n = 0 => Value(h, q) <= 0 /\ Value(h, r) < 0
      /\ m > 0 => /\ Value(h, p) >= 0 => <<p, F[1]>> \in L
                  /\ Value(h, p) < 0 => Value(h, F[1]) = 0
                  /\ Value(h, q) >= 0 => F[m] = q
                  /\ Value(h, q) < 0 => Value(h, F[m]) = 0
      /\ n > 0 => /\ Value(h, q) >= 0 => <<q, G[1]>> \in L
                  /\ Value(h, q) < 0 => Value(h, G[1]) = 0
                  /\ Value(h, r) >= 0 => G[n] = r
                  /\ Value(h, r) < 0 => Value(h, G[n]) = 0
  BY <1>3 DEF Piece
<1>6. /\ Value(h, p) \in Int /\ Value(h, q) \in Int /\ Value(h, r) \in Int
      /\ \A x, y \in Q : Value(h, x) = 0 /\ Value(h, y) = 0 => <<x, y>> \in L
  BY DEF LinksSide
<1>7. ASSUME m > 0, n > 0 PROVE <<F[m], G[1]>> \in L
  <2>1. m \in 1 .. m /\ 1 \in 1 .. n
    BY <1>7
  <2>2. F[m] \in Q /\ G[1] \in Q
    BY <1>3, <2>1
  <2> QED BY <1>5, <1>6, <1>7, <2>2
<1>8. ASSUME NEW j \in 1 .. m + n PROVE Value(h, E[j]) >= 0
  <2>1. CASE j \in 1 .. m
    BY <1>3, <1>4, <2>1
  <2>2. CASE j \notin 1 .. m
    <3>1. PICK k \in 1 .. n : j = m + k
      <4>1. j - m \in 1 .. n /\ j = m + (j - m)
        BY <2>2
      <4> QED BY <4>1
    <3> QED BY <1>3, <1>4, <3>1
  <2> QED BY <2>1, <2>2
<1>9. ASSUME NEW j \in 1 .. m + n - 1 PROVE <<E[j], E[j + 1]>> \in L
  <2>1. CASE j < m
    <3>1. j \in 1 .. m /\ j + 1 \in 1 .. m /\ j \in 1 .. m - 1
      BY <2>1
    <3> QED BY <1>3, <1>4, <3>1
  <2>2. CASE j = m
    <3>1. m > 0 /\ n > 0 /\ m \in 1 .. m /\ 1 \in 1 .. n
      BY <2>2
    <3>2. E[m] = F[m] /\ E[m + 1] = G[1]
      BY <1>3, <3>1
    <3> QED BY <1>7, <2>2, <3>1, <3>2
  <2>3. CASE j > m
    <3>1. PICK k \in 1 .. n - 1 : j = m + k
      <4>1. j - m \in 1 .. n - 1 /\ j = m + (j - m)
        BY <2>3
      <4> QED BY <4>1
    <3>2. k \in 1 .. n /\ k + 1 \in 1 .. n /\ j + 1 = m + (k + 1)
      BY <3>1
    <3>3. E[j] = G[k] /\ E[j + 1] = G[k + 1]
      BY <1>3, <3>1, <3>2
    <3> QED BY <1>4, <3>3
  <2> QED BY <2>1, <2>2, <2>3
<1>10. Chain(h, Q, L, E)
  BY <1>3, <1>8, <1>9 DEF Chain
<1>11. ASSUME m = 0, n = 0 PROVE Value(h, p) <= 0 /\ Value(h, r) < 0
  BY <1>5, <1>11
<1>12. ASSUME m > 0, n = 0 PROVE /\ E[1] = F[1] /\ E[m + n] = F[m]
                                 /\ Value(h, r) < 0 /\ Value(h, F[m]) = 0
  <2>1. 1 \in 1 .. m /\ m \in 1 .. m /\ m + n = m
    BY <1>12
  <2> QED BY <1>3, <1>5, <1>6, <1>12, <2>1
<1>13. ASSUME n > 0 PROVE E[m + n] = G[n]
  <2>1. n \in 1 .. n
    BY <1>13
  <2> QED BY <1>3, <2>1
<1>14. ASSUME m > 0 PROVE E[1] = F[1]
  <2>1. 1 \in 1 .. m
    BY <1>14
  <2> QED BY <1>3, <2>1
<1>15. ASSUME m = 0, n > 0
       PROVE  /\ Value(h, p) >= 0 => <<p, E[1]>> \in L
              /\ Value(h, p) < 0 => Value(h, E[1]) = 0
  <2>1. 1 \in 1 .. n /\ m + 1 = 1
    BY <1>15
  <2>2. E[1] = G[1] /\ G[1] \in Q
    BY <1>3, <2>1
  <2> QED BY <1>5, <1>6, <1>15, <2>2
<1>16. Piece(h, Q, L, p, r, E)
  <2>1. m + n = 0 => m = 0 /\ n = 0
    OBVIOUS
  <2>2. m + n > 0 => m > 0 \/ (m = 0 /\ n > 0)
    OBVIOUS
  <2>3. n > 0 \/ n = 0
    OBVIOUS
  <2>4. Len(E) = 0 => Value(h, p) <= 0 /\ Value(h, r) < 0
    BY <1>3, <1>11, <2>1
  <2>5. ASSUME m + n > 0
        PROVE  /\ Value(h, p) >= 0 => <<p, E[1]>> \in L
               /\ Value(h, p) < 0 => Value(h, E[1]) = 0
    BY <1>5, <1>14, <1>15, <2>2, <2>5
  <2>6. ASSUME m + n > 0
        PROVE  /\ Value(h, r) >= 0 => E[m + n] = r
               /\ Value(h, r) < 0 => Value(h, E[m + n]) = 0
    <3>1. CASE n > 0
      BY <1>5, <1>13, <3>1
    <3>2. CASE n = 0 /\ m > 0
      <4>1. ~(Value(h, r) >= 0)
        BY <1>6, <1>12, <3>2
      <4> QED BY <1>12, <3>2, <4>1
    <3> QED BY <2>2, <2>3, <2>6, <3>1, <3>2
  <2> HIDE DEF Value
  <2> QED BY <1>3, <1>10, <2>4, <2>5, <2>6 DEF Piece
<1> QED BY <1>2, <1>16

\* A polygon of points of Q beside h, whose edges are links.
Ring(h, Q, L, F) ==
    /\ F \in Seq(Q)
    /\ \A j \in 1 .. Len(F) : Value(h, F[j]) >= 0 /\ <<F[j], Following(F, j)>> \in L

\* A piece from a point to itself is a polygon.
LEMMA PieceCloses ==
  ASSUME NEW h, NEW Q, NEW L, LinksSide(h, Q, L), NEW p \in Q, NEW F, Piece(h, Q, L, p, p, F)
  PROVE  Ring(h, Q, L, F)
<1>1. F \in Seq(Q)
  BY DEF Piece, Chain
<1>2. Len(F) \in Nat /\ \A j \in 1 .. Len(F) : F[j] \in Q
  BY <1>1
<1>3. /\ \A j \in 1 .. Len(F) : Value(h, F[j]) >= 0
      /\ \A j \in 1 .. Len(F) - 1 : <<F[j], F[j + 1]>> \in L
  BY DEF Piece, Chain
<1>4. /\ Value(h, p) \in Int
      /\ \A x, y \in Q : Value(h, x) = 0 /\ Value(h, y) = 0 => <<x, y>> \in L
  BY DEF LinksSide
<1>5. ASSUME Len(F) > 0 PROVE <<F[Len(F)], F[1]>> \in L
  <2>1. 1 \in 1 .. Len(F) /\ Len(F) \in 1 .. Len(F)
    BY <1>2, <1>5
  <2>2. /\ Value(h, p) >= 0 => <<p, F[1]>> \in L
        /\ Value(h, p) < 0 => Value(h, F[1]) = 0
        /\ Value(h, p) >= 0 => F[Len(F)] = p
        /\ Value(h, p) < 0 => Value(h, F[Len(F)]) = 0
    BY <1>5 DEF Piece
  <2>3. F[1] \in Q /\ F[Len(F)] \in Q
    BY <1>2, <2>1
  <2> QED BY <1>4, <2>2, <2>3
<1>6. ASSUME NEW j \in 1 .. Len(F) PROVE <<F[j], Following(F, j)>> \in L
  <2>1. CASE j = Len(F)
    BY <1>2, <1>5, <2>1 DEF Following
  <2>2. CASE j # Len(F)
    <3>1. j \in 1 .. Len(F) - 1
      BY <1>2, <2>2
    <3> QED BY <1>3, <2>2, <3>1 DEF Following
  <2> QED BY <2>1, <2>2
<1> QED BY <1>1, <1>3, <1>6 DEF Ring

\* Cutting a polygon at one side, edge by edge.
LEMMA ClipLinks ==
  ASSUME NEW h, NEW Q, NEW L, LinksSide(h, Q, L), NEW points, points \in Seq(Q),
         \A i \in 1 .. Len(points) : CutsEdge(h, Q, L, Previous(points, i), points[i])
  PROVE  Ring(h, Q, L, clip_H(points, h[1], h[2], h[3]))
<1>1. PICK n \in Nat : n = Len(points)
  OBVIOUS
<1> DEFINE K == [i \in 1 .. n |-> KeptOf(h, Previous(points, i), points[i])]
<1>2. clip_H(points, h[1], h[2], h[3]) = FlattenSeq(K)
  BY <1>1, ClipIs
<1>3. Len(K) = n /\ \A i \in 1 .. n : K[i] = KeptOf(h, Previous(points, i), points[i])
  OBVIOUS
<1>4. CASE n = 0
  <2>1. FlattenSeq(K) = K
    BY <1>3, <1>4 DEF FlattenSeq
  <2>2. K \in Seq(Q) /\ 1 .. Len(K) = {}
    BY <1>4
  <2> QED BY <1>2, <2>1, <2>2 DEF Ring
<1>5. CASE n # 0
  <2>1. n \in Nat \ {0} /\ n \in 1 .. n /\ 1 \in 1 .. n
    BY <1>5
  <2> HIDE DEF K
  <2>2. PICK f : FlattenSeq(K) = f[n] /\ Flattens(f, n, K)
    <3>1. Len(K) = n /\ n \in Nat \ {0}
      BY <1>3, <2>1
    <3> QED BY <3>1, FlattenIs
  <2>3. \A i \in 1 .. n : points[i] \in Q
    BY <1>1
  <2>4. ASSUME NEW i \in 1 .. n PROVE Piece(h, Q, L, Previous(points, i), points[i], K[i])
    <3>1. Previous(points, i) \in Q
      <4>1. i # 1 => i - 1 \in 1 .. n
        OBVIOUS
      <4> QED BY <1>1, <2>1, <2>3, <4>1 DEF Previous
    <3>2. points[i] \in Q /\ CutsEdge(h, Q, L, Previous(points, i), points[i])
      BY <1>1, <2>3
    <3> QED BY <1>3, <3>1, <3>2, EdgeKept
  <2> DEFINE T == {i \in Nat : i + 1 <= n => Piece(h, Q, L, points[n], points[i + 1], f[i + 1])}
  <2>5. 0 \in T
    <3>1. Previous(points, 1) = points[n] /\ 0 + 1 = 1
      BY <1>1 DEF Previous
    <3> QED BY <2>1, <2>2, <2>4, <3>1 DEF Flattens
  <2>6. ASSUME NEW i \in Nat, i \in T PROVE i + 1 \in T
    <3> SUFFICES ASSUME (i + 1) + 1 <= n
                 PROVE  Piece(h, Q, L, points[n], points[(i + 1) + 1], f[(i + 1) + 1])
      OBVIOUS
    <3>1. PICK k : k = i + 2
      OBVIOUS
    <3>2. k \in 2 .. n /\ k \in 1 .. n /\ k - 1 = i + 1 /\ (i + 1) + 1 = k /\ k - 1 \in 1 .. n /\ k # 1 /\ i + 1 <= n
      BY <3>1
    <3>3. Piece(h, Q, L, points[n], points[k - 1], f[k - 1])
      <4>1. i + 1 <= n => Piece(h, Q, L, points[n], points[i + 1], f[i + 1])
        BY <2>6, Zenon
      <4> HIDE DEF T
      <4>2. Piece(h, Q, L, points[n], points[i + 1], f[i + 1])
        BY <3>2, <4>1
      <4> QED BY <3>2, <4>2
    <3>4. Piece(h, Q, L, points[k - 1], points[k], K[k])
      BY <2>4, <3>2 DEF Previous
    <3>5. f[k] = f[k - 1] \o K[k]
      BY <2>2, <3>2 DEF Flattens
    <3>6. points[n] \in Q /\ points[k - 1] \in Q /\ points[k] \in Q
      BY <2>1, <2>3, <3>2
    <3>7. Piece(h, Q, L, points[n], points[k], f[k - 1] \o K[k])
      BY <3>3, <3>4, <3>6, PieceJoins
    <3> QED BY <3>2, <3>5, <3>7
  <2>7. Piece(h, Q, L, points[n], points[n], f[n])
    <3> HIDE DEF T
    <3>1. Nat \subseteq T
      BY <2>5, <2>6, SetInduction
    <3>2. n - 1 \in Nat /\ (n - 1) + 1 = n
      BY <2>1
    <3>3. n - 1 \in T
      BY <3>1, <3>2
    <3> QED BY <3>2, <3>3 DEF T
  <2>8. Ring(h, Q, L, f[n])
    BY <2>1, <2>3, <2>7, PieceCloses
  <2> QED BY <1>2, <2>2, <2>8
<1> QED BY <1>4, <1>5

-------------------------------------------------------------------------------
(* Figures: the sides at which an outline is cut.                          *)

LEMMA ExactQuotient ==
  ASSUME NEW k \in Int, NEW d \in Int \ {0}
  PROVE  Quotient(k * d, d) = k
<1>1. PICK n \in Nat, m \in Nat \ {0} : n = Abs(k) /\ m = Abs(d)
  BY DEF Abs
<1>2. n \div m \in Nat /\ (n * m) \div m = n
  <2>1. n * m \in Int /\ n * m = n * m + 0 /\ 0 \in 0 .. m - 1
    BY <1>1
  <2>2. (n * m) \div m = n
    <3>1. \A a : a = n * m + 0 => a \div m = n
      BY <1>1, <2>1, DividedBy
    <3> QED BY <2>1, <3>1
  <2> QED BY <1>1, <2>2
<1>3. Abs(k * d) = n * m
  <2>1. (k >= 0 => k = n) /\ (k < 0 => k = -n) /\ (d >= 0 => d = m) /\ (d < 0 => d = -m)
    BY <1>1 DEF Abs
  <2>2. n * m >= 0 /\ n * m \in Int
    BY <1>1, ProductSign
  <2>3. k * d = n * m \/ k * d = -(n * m)
    <3>1. \A x, y \in Int : (-x) * (-y) = x * y /\ (-x) * y = -(x * y) /\ x * (-y) = -(x * y)
      OBVIOUS
    <3>2. n \in Int /\ m \in Int /\ (k = n \/ k = -n) /\ (d = m \/ d = -m)
      BY <1>1, <2>1
    <3> QED BY <3>1, <3>2
  <2> QED BY <2>2, <2>3 DEF Abs
<1>4. Quotient(k * d, d) = IF (k * d < 0) = (d < 0) THEN n ELSE -n
  BY <1>1, <1>2, <1>3 DEF Quotient
<1>5. CASE k > 0
  <2>1. k = n /\ (k * d < 0 <=> d < 0)
    BY <1>1, <1>5, ProductSign DEF Abs
  <2> QED BY <1>4, <2>1
<1>6. CASE k < 0
  <2>1. k = -n /\ (k * d < 0 <=> ~(d < 0))
    <3>1. (-k) * d = -(k * d) /\ -k > 0 /\ -k \in Int /\ k * d \in Int
      BY <1>6
    <3>2. /\ d > 0 => (-k) * d > 0
          /\ d < 0 => (-k) * d < 0
      BY <3>1, ProductSign
    <3> QED BY <1>1, <1>6, <3>1, <3>2 DEF Abs
  <2> QED BY <1>4, <2>1
<1>7. CASE k = 0
  <2>1. n = 0 /\ -n = 0
    <3>1. n = 0
      BY <1>1, <1>7 DEF Abs
    <3>2. -n = 0 - n /\ 0 - 0 = 0
      OBVIOUS
    <3> QED BY <3>1, <3>2
  <2> QED BY <1>4, <1>7, <2>1
<1> QED BY <1>5, <1>6, <1>7

LEMMA NegatedQuotient ==
  ASSUME NEW n \in Int, NEW d \in Int \ {0}
  PROVE  Quotient(-n, -d) = Quotient(n, d)
<1>1. Abs(-n) = Abs(n) /\ Abs(-d) = Abs(d)
  BY DEF Abs
<1>2. CASE n # 0
  <2>1. ((-n < 0) = (-d < 0)) <=> ((n < 0) = (d < 0))
    BY <1>2
  <2> QED BY <1>1, <2>1 DEF Quotient
<1>3. CASE n = 0
  <2>1. Quotient(0 * d, d) = 0 /\ Quotient(0 * (-d), -d) = 0
    BY ExactQuotient
  <2>2. 0 * d = 0 /\ 0 * (-d) = 0 /\ -n = 0
    <3>1. -n = 0 - n /\ 0 - 0 = 0 /\ -d \in Int
      OBVIOUS
    <3>2. \A x \in Int : 0 * x = 0
      OBVIOUS
    <3> QED BY <1>3, <3>1, <3>2
  <2> QED BY <1>3, <2>1, <2>2
<1> QED BY <1>2, <1>3

\* A cut at coordinate p + u of an edge that goes by d there, and by v in the other coordinate.
CutsAt(e, u, v, d) ==
    /\ Quotient((e * u) * d, e * d) = u
    /\ Quotient((e * u) * v, e * d) = Quotient(v * u, d)

LEMMA CutQuotients ==
  ASSUME NEW e \in {-1, 1}, NEW u \in Int, NEW v \in Int, NEW d \in Int \ {0}
  PROVE  CutsAt(e, u, v, d)
<1>1. /\ u * d \in Int /\ v * u \in Int
      /\ Quotient(u * d, d) = u
  BY ExactQuotient
<1>2. /\ Quotient(-(u * d), -d) = Quotient(u * d, d)
      /\ Quotient(-(v * u), -d) = Quotient(v * u, d)
  BY <1>1, NegatedQuotient
<1>3. CASE e = 1
  <2>1. (e * u) * d = u * d /\ (e * u) * v = v * u /\ e * d = d
    BY <1>3
  <2> QED BY <1>1, <2>1 DEF CutsAt
<1>4. CASE e = -1
  <2>1. (e * u) * d = -(u * d) /\ (e * u) * v = -(v * u) /\ e * d = -d
    BY <1>4
  <2> QED BY <1>1, <1>2, <2>1 DEF CutsAt
<1> QED BY <1>3, <1>4

\* The side of the screen at column x or at row y; the screen is where e times the distance is
\* positive.
ColumnSide(e, x) == <<e, 0, -(e * x)>>
RowSide(e, y)    == <<0, e, -(e * y)>>

LEMMA ColumnSideIs ==
  ASSUME NEW e \in {-1, 1}, NEW x \in Int
  PROVE  /\ \A z \in Points : Value(ColumnSide(e, x), z) = e * (z[1] - x)
         /\ \A p, q \in Points : p[1] # q[1] => CrossingOf(ColumnSide(e, x), p, q) = AtX(p, q, x)
<1>1. ASSUME NEW z \in Points PROVE Value(ColumnSide(e, x), z) = e * (z[1] - x)
  <2>1. z[1] \in Int /\ z[2] \in Int
    BY DEF Points
  <2>2. e * z[1] + 0 * z[2] + -(e * x) = e * (z[1] - x)
    BY <2>1
  <2> QED BY <2>2 DEF Value, ColumnSide
<1>2. ASSUME NEW p \in Points, NEW q \in Points, p[1] # q[1]
      PROVE  CrossingOf(ColumnSide(e, x), p, q) = AtX(p, q, x)
  <2>1. PICK a \in Int, b \in Int, c \in Int, d \in Int : p[1] = a /\ p[2] = b /\ q[1] = c /\ q[2] = d
    BY DEF Points
  <2>2. /\ -(e * a + 0 * b + -(e * x)) = e * (x - a)
        /\ e * (c - a) + 0 * (d - b) = e * (c - a)
    BY <2>1
  <2>3. CrossingOf(ColumnSide(e, x), p, q)
        = <<a + Quotient((e * (x - a)) * (c - a), e * (c - a)), b + Quotient((e * (x - a)) * (d - b), e * (c - a))>>
    BY <2>1, <2>2 DEF CrossingOf, ColumnSide, crossing
  <2>4. /\ Quotient((e * (x - a)) * (c - a), e * (c - a)) = x - a
        /\ Quotient((e * (x - a)) * (d - b), e * (c - a)) = Quotient((d - b) * (x - a), c - a)
    <3>1. PICK u \in Int, v \in Int, w \in Int \ {0} : u = x - a /\ v = d - b /\ w = c - a
      <4>1. c - a \in Int \ {0} /\ x - a \in Int /\ d - b \in Int
        BY <1>2, <2>1
      <4> QED BY <4>1
    <3>2. CutsAt(e, u, v, w)
      BY CutQuotients
    <3> QED BY <3>1, <3>2, Zenon DEF CutsAt
  <2>5. AtX(p, q, x) = <<x, b + Quotient((d - b) * (x - a), c - a)>>
    BY <2>1 DEF AtX
  <2>6. a + (x - a) = x
    BY <2>1
  <2> QED BY <2>3, <2>4, <2>5, <2>6
<1> QED BY <1>1, <1>2

LEMMA RowSideIs ==
  ASSUME NEW e \in {-1, 1}, NEW y \in Int
  PROVE  /\ \A z \in Points : Value(RowSide(e, y), z) = e * (z[2] - y)
         /\ \A p, q \in Points : p[2] # q[2] => CrossingOf(RowSide(e, y), p, q) = AtY(p, q, y)
<1>1. ASSUME NEW z \in Points PROVE Value(RowSide(e, y), z) = e * (z[2] - y)
  <2>1. z[1] \in Int /\ z[2] \in Int
    BY DEF Points
  <2>2. 0 * z[1] + e * z[2] + -(e * y) = e * (z[2] - y)
    BY <2>1
  <2> QED BY <2>2 DEF Value, RowSide
<1>2. ASSUME NEW p \in Points, NEW q \in Points, p[2] # q[2]
      PROVE  CrossingOf(RowSide(e, y), p, q) = AtY(p, q, y)
  <2>1. PICK a \in Int, b \in Int, c \in Int, d \in Int : p[1] = a /\ p[2] = b /\ q[1] = c /\ q[2] = d
    BY DEF Points
  <2>2. /\ -(0 * a + e * b + -(e * y)) = e * (y - b)
        /\ 0 * (c - a) + e * (d - b) = e * (d - b)
    BY <2>1
  <2>3. CrossingOf(RowSide(e, y), p, q)
        = <<a + Quotient((e * (y - b)) * (c - a), e * (d - b)), b + Quotient((e * (y - b)) * (d - b), e * (d - b))>>
    BY <2>1, <2>2 DEF CrossingOf, RowSide, crossing
  <2>4. /\ Quotient((e * (y - b)) * (d - b), e * (d - b)) = y - b
        /\ Quotient((e * (y - b)) * (c - a), e * (d - b)) = Quotient((c - a) * (y - b), d - b)
    <3>1. PICK u \in Int, v \in Int, w \in Int \ {0} : u = y - b /\ v = c - a /\ w = d - b
      <4>1. d - b \in Int \ {0} /\ y - b \in Int /\ c - a \in Int
        BY <1>2, <2>1
      <4> QED BY <4>1
    <3>2. CutsAt(e, u, v, w)
      BY CutQuotients
    <3> QED BY <3>1, <3>2, Zenon DEF CutsAt
  <2>5. AtY(p, q, y) = <<a + Quotient((c - a) * (y - b), d - b), y>>
    BY <2>1 DEF AtY
  <2>6. b + (y - b) = y
    BY <2>1
  <2> QED BY <2>3, <2>4, <2>5, <2>6
<1> QED BY <1>1, <1>2

-------------------------------------------------------------------------------
(* Figures: the edges of a cut outline.                                    *)

\* An edge that lies in a side of the screen.
Bordered(a, b) ==
    \/ a[1] = b[1] /\ a[1] \in {0, GL_width - 1}
    \/ a[2] = b[2] /\ a[2] \in {0, GL_height - 1}

\* The edges along those of T, and those in a side of the screen.
Links(T, m, n) ==
    {e \in Points \X Points :
        Bordered(e[1], e[2]) \/ \E s, t \in Points : <<s, t>> \in T /\ Along(s, t, e[1], e[2], m, n)}

LEMMA LinkIs ==
  ASSUME NEW T, NEW m, NEW n, NEW a \in Points, NEW b \in Points
  PROVE  <<a, b>> \in Links(T, m, n) <=>
            Bordered(a, b) \/ \E s, t \in Points : <<s, t>> \in T /\ Along(s, t, a, b, m, n)
BY DEF Links

\* No coordinate of z is beyond those of a and b.
Amid(a, b, z) == \A k \in {1, 2} : (a[k] <= z[k] /\ z[k] <= b[k]) \/ (b[k] <= z[k] /\ z[k] <= a[k])

\* A set of points without gaps, and its part on the screen's side of h.
Boxed(Q) == Q \subseteq Points /\ \A a, b \in Q : \A z \in Points : Amid(a, b, z) => z \in Q

Within(Q, h) == {z \in Q : Value(h, z) >= 0}

LEMMA CutIsAmid ==
  ASSUME NEW a \in Points, NEW b \in Points
  PROVE  /\ \A x \in Int : (a[1] < x /\ x < b[1]) \/ (b[1] < x /\ x < a[1])
               => AtX(a, b, x) \in Points /\ AtX(a, b, x)[1] = x /\ Amid(a, b, AtX(a, b, x))
         /\ \A y \in Int : (a[2] < y /\ y < b[2]) \/ (b[2] < y /\ y < a[2])
               => AtY(a, b, y) \in Points /\ AtY(a, b, y)[2] = y /\ Amid(a, b, AtY(a, b, y))
<1>1. InOrder(a, b, a, b)
  <2>1. InOrder(a, b, a, b)
    BY WholeLine DEF Begun
  <2> QED BY <2>1
<1>2. a[1] \in Int /\ a[2] \in Int /\ b[1] \in Int /\ b[2] \in Int
  BY DEF Points
<1>3. ASSUME NEW x \in Int, (a[1] < x /\ x < b[1]) \/ (b[1] < x /\ x < a[1])
      PROVE  AtX(a, b, x) \in Points /\ AtX(a, b, x)[1] = x /\ Amid(a, b, AtX(a, b, x))
  <2> DEFINE c == AtX(a, b, x)
  <2>1. a[1] # b[1] /\ ((a[1] <= x /\ x <= b[1]) \/ (b[1] <= x /\ x <= a[1]))
    BY <1>2, <1>3
  <2>2. CutInColumn(a, b, a, b, x, c)
    BY <1>1, <2>1, CutAtX
  <2> HIDE DEF c
  <2>3. c \in Points /\ c[1] = x /\ InOrder(a, b, a, c) /\ InOrder(a, b, c, b)
    BY <2>2 DEF CutInColumn
  <2>4. Amid(a, b, c)
    BY <2>3, OnTheWayThere DEF Amid
  <2> QED BY <2>3, <2>4 DEF c
<1>4. ASSUME NEW y \in Int, (a[2] < y /\ y < b[2]) \/ (b[2] < y /\ y < a[2])
      PROVE  AtY(a, b, y) \in Points /\ AtY(a, b, y)[2] = y /\ Amid(a, b, AtY(a, b, y))
  <2> DEFINE c == AtY(a, b, y)
  <2>1. a[2] # b[2] /\ ((a[2] <= y /\ y <= b[2]) \/ (b[2] <= y /\ y <= a[2]))
    BY <1>2, <1>4
  <2>2. CutInRow(a, b, a, b, y, c)
    BY <1>1, <2>1, CutAtY
  <2> HIDE DEF c
  <2>3. c \in Points /\ c[2] = y /\ InOrder(a, b, a, c) /\ InOrder(a, b, c, b)
    BY <2>2 DEF CutInRow
  <2>4. Amid(a, b, c)
    BY <2>3, OnTheWayThere DEF Amid
  <2> QED BY <2>3, <2>4 DEF c
<1> QED BY <1>3, <1>4

\* Once more cut, a bit further beside.
LEMMA FurtherBeside ==
  ASSUME NEW s \in Points, NEW t \in Points, NEW m \in Nat, NEW n \in Nat
  PROVE  /\ \A z \in Points : LeansBy(s, t, z, m, n)
               => LeansBy(s, t, z, m + 1, n) /\ LeansBy(s, t, z, m, n + 1)
         /\ \A a, b, z \in Points : \A x \in Int :
               LeansBy(s, t, a, m, n) /\ LeansBy(s, t, b, m, n) /\ CutInColumn(s, t, a, b, x, z)
               => LeansBy(s, t, z, m + 1, n)
         /\ \A a, b, z \in Points : \A y \in Int :
               LeansBy(s, t, a, m, n) /\ LeansBy(s, t, b, m, n) /\ CutInRow(s, t, a, b, y, z)
               => LeansBy(s, t, z, m, n + 1)
<1>1. PICK X \in Nat, Y \in Nat : X = Abs(t[1] - s[1]) /\ Y = Abs(t[2] - s[2])
  BY AheadIs
<1>2. PICK lo \in Int, hi \in Int : lo = -(m * X) /\ hi = n * Y
  OBVIOUS
<1>3. -((m + 1) * X) = lo - X /\ (n + 1) * Y = hi + Y
  BY <1>2
<1>4. \A z \in Points : Tilt(s, t, z) \in Int
  BY AheadIs
<1>5. \A z \in Points : /\ LeansBy(s, t, z, m, n) <=> lo <= Tilt(s, t, z) /\ Tilt(s, t, z) <= hi
                        /\ LeansBy(s, t, z, m + 1, n) <=> lo - X <= Tilt(s, t, z) /\ Tilt(s, t, z) <= hi
                        /\ LeansBy(s, t, z, m, n + 1) <=> lo <= Tilt(s, t, z) /\ Tilt(s, t, z) <= hi + Y
  BY <1>1, <1>2, <1>3 DEF LeansBy
<1>6. ASSUME NEW z \in Points, LeansBy(s, t, z, m, n)
      PROVE  LeansBy(s, t, z, m + 1, n) /\ LeansBy(s, t, z, m, n + 1)
  BY <1>4, <1>5, <1>6
<1>7. ASSUME NEW a \in Points, NEW b \in Points, NEW z \in Points, NEW x \in Int,
             LeansBy(s, t, a, m, n), LeansBy(s, t, b, m, n), CutInColumn(s, t, a, b, x, z)
      PROVE  LeansBy(s, t, z, m + 1, n)
  <2>1. lo - X <= Tilt(s, t, z) /\ Tilt(s, t, z) <= hi
    BY <1>1, <1>5, <1>7 DEF CutInColumn
  <2> QED BY <1>5, <2>1
<1>8. ASSUME NEW a \in Points, NEW b \in Points, NEW z \in Points, NEW y \in Int,
             LeansBy(s, t, a, m, n), LeansBy(s, t, b, m, n), CutInRow(s, t, a, b, y, z)
      PROVE  LeansBy(s, t, z, m, n + 1)
  <2>1. lo <= Tilt(s, t, z) /\ Tilt(s, t, z) <= hi + Y
    BY <1>1, <1>5, <1>8 DEF CutInRow
  <2> QED BY <1>5, <2>1
<1> QED BY <1>6, <1>7, <1>8

\* Cut at a column, an edge leaves an edge that leans by one more width.
LEMMA ColumnCuts ==
  ASSUME NEW Q, Boxed(Q), NEW T, NEW m \in Nat, NEW n \in Nat,
         NEW e \in {-1, 1}, NEW x \in {0, GL_width - 1}, NEW h, h = ColumnSide(e, x)
  PROVE  /\ LinksSide(h, Q, Links(T, m + 1, n))
         /\ \A a, b \in Q : <<a, b>> \in Links(T, m, n) => CutsEdge(h, Q, Links(T, m + 1, n), a, b)
<1>1. x \in Int /\ GL_width \in Int /\ GL_height \in Int
  BY ScreenSizes
<1>2. \A z \in Points : z[1] \in Int /\ z[2] \in Int
  BY DEF Points
<1>3. /\ \A z \in Points : Value(h, z) = e * (z[1] - x)
      /\ \A p, q \in Points : p[1] # q[1] => CrossingOf(h, p, q) = AtX(p, q, x)
  BY <1>1, ColumnSideIs
<1>4. \A z \in Points : /\ Value(h, z) \in Int
                        /\ Value(h, z) = 0 <=> z[1] = x
                        /\ Value(h, z) > 0 <=> (e = 1 /\ z[1] > x) \/ (e = -1 /\ z[1] < x)
                        /\ Value(h, z) < 0 <=> (e = 1 /\ z[1] < x) \/ (e = -1 /\ z[1] > x)
  <2> SUFFICES ASSUME NEW z \in Points
               PROVE  /\ Value(h, z) \in Int
                      /\ Value(h, z) = 0 <=> z[1] = x
                      /\ Value(h, z) > 0 <=> (e = 1 /\ z[1] > x) \/ (e = -1 /\ z[1] < x)
                      /\ Value(h, z) < 0 <=> (e = 1 /\ z[1] < x) \/ (e = -1 /\ z[1] > x)
    OBVIOUS
  <2>1. PICK k \in Int : k = z[1]
    BY <1>2
  <2>2. Value(h, z) = e * (k - x)
    BY <1>3, <2>1
  <2>3. CASE e = 1
    <3>1. Value(h, z) = k - x
      BY <1>1, <2>2, <2>3
    <3> QED BY <1>1, <2>1, <2>3, <3>1
  <2>4. CASE e = -1
    <3>1. Value(h, z) = x - k
      BY <1>1, <2>2, <2>4
    <3> QED BY <1>1, <2>1, <2>4, <3>1
  <2> QED BY <2>3, <2>4
<1>5. Q \subseteq Points
  BY DEF Boxed
<1>6. LinksSide(h, Q, Links(T, m + 1, n))
  <2>1. ASSUME NEW a \in Q, NEW b \in Q, Value(h, a) = 0, Value(h, b) = 0
        PROVE  <<a, b>> \in Links(T, m + 1, n)
    <3>1. a[1] = x /\ b[1] = x
      BY <1>4, <1>5, <2>1
    <3>2. Bordered(a, b)
      BY <3>1 DEF Bordered
    <3> QED BY <1>5, <3>2, LinkIs
  <2> QED BY <1>4, <1>5, <2>1 DEF LinksSide
<1>7. ASSUME NEW a \in Q, NEW b \in Q, <<a, b>> \in Links(T, m, n)
      PROVE  CutsEdge(h, Q, Links(T, m + 1, n), a, b)
  <2>1. a \in Points /\ b \in Points
    BY <1>5
  <2>2. Bordered(a, b) \/ \E s, t \in Points : <<s, t>> \in T /\ Along(s, t, a, b, m, n)
    BY <1>7, <2>1, LinkIs
  <2>3. <<a, b>> \in Links(T, m + 1, n)
    <3>1. ASSUME NEW s \in Points, NEW t \in Points, <<s, t>> \in T, Along(s, t, a, b, m, n)
          PROVE  Along(s, t, a, b, m + 1, n)
      BY <2>1, <3>1, FurtherBeside DEF Along
    <3>2. Bordered(a, b) \/ \E s, t \in Points : <<s, t>> \in T /\ Along(s, t, a, b, m + 1, n)
      BY <2>2, <3>1
    <3> QED BY <2>1, <3>2, LinkIs
  <2>4. ASSUME (Value(h, a) > 0 /\ Value(h, b) < 0) \/ (Value(h, a) < 0 /\ Value(h, b) > 0)
        PROVE  /\ CrossingOf(h, a, b) \in Q /\ Value(h, CrossingOf(h, a, b)) = 0
               /\ <<a, CrossingOf(h, a, b)>> \in Links(T, m + 1, n)
               /\ <<CrossingOf(h, a, b), b>> \in Links(T, m + 1, n)
    <3>1. (a[1] < x /\ x < b[1]) \/ (b[1] < x /\ x < a[1])
      BY <1>1, <1>2, <1>4, <2>1, <2>4
    <3>2. a[1] # b[1] /\ ((a[1] <= x /\ x <= b[1]) \/ (b[1] <= x /\ x <= a[1]))
      BY <1>1, <1>2, <2>1, <3>1
    <3> DEFINE c == AtX(a, b, x)
    <3>3. CrossingOf(h, a, b) = c
      BY <1>3, <2>1, <3>2
    <3>4. c \in Points /\ c[1] = x /\ Amid(a, b, c)
      BY <1>1, <2>1, <3>1, CutIsAmid
    <3>5. ASSUME NEW s \in Points, NEW t \in Points, InOrder(s, t, a, b) PROVE CutInColumn(s, t, a, b, x, c)
      BY <1>1, <2>1, <3>2, <3>5, CutAtX
    <3> HIDE DEF c
    <3>6. c \in Q /\ Value(h, c) = 0
      BY <1>4, <3>4 DEF Boxed
    <3>7. CASE Bordered(a, b)
      <4>1. a[2] = b[2] /\ a[2] \in {0, GL_height - 1}
        BY <3>2, <3>7 DEF Bordered
      <4>2. (a[2] <= c[2] /\ c[2] <= b[2]) \/ (b[2] <= c[2] /\ c[2] <= a[2])
        BY <3>4 DEF Amid
      <4>3. c[2] = a[2]
        BY <1>2, <2>1, <3>4, <4>1, <4>2
      <4>4. Bordered(a, c) /\ Bordered(c, b)
        BY <4>1, <4>3 DEF Bordered
      <4> QED BY <2>1, <3>3, <3>4, <3>6, <4>4, LinkIs
    <3>8. ASSUME NEW s \in Points, NEW t \in Points, <<s, t>> \in T, Along(s, t, a, b, m, n)
          PROVE  <<a, c>> \in Links(T, m + 1, n) /\ <<c, b>> \in Links(T, m + 1, n)
      <4>1. InOrder(s, t, a, b) /\ LeansBy(s, t, a, m, n) /\ LeansBy(s, t, b, m, n)
        BY <3>8 DEF Along
      <4>2. CutInColumn(s, t, a, b, x, c)
        BY <3>5, <4>1
      <4>3. LeansBy(s, t, c, m + 1, n) /\ LeansBy(s, t, a, m + 1, n) /\ LeansBy(s, t, b, m + 1, n)
        BY <1>1, <2>1, <3>4, <4>1, <4>2, FurtherBeside
      <4>4. InOrder(s, t, a, c) /\ InOrder(s, t, c, b)
        BY <4>2 DEF CutInColumn
      <4>5. Along(s, t, a, c, m + 1, n) /\ Along(s, t, c, b, m + 1, n)
        BY <4>3, <4>4 DEF Along
      <4> QED BY <2>1, <3>4, <3>8, <4>5, LinkIs
    <3> QED BY <2>2, <3>3, <3>6, <3>7, <3>8
  <2> QED BY <2>3, <2>4 DEF CutsEdge
<1> QED BY <1>6, <1>7

\* The same at a row.
LEMMA RowCuts ==
  ASSUME NEW Q, Boxed(Q), NEW T, NEW m \in Nat, NEW n \in Nat,
         NEW e \in {-1, 1}, NEW y \in {0, GL_height - 1}, NEW h, h = RowSide(e, y)
  PROVE  /\ LinksSide(h, Q, Links(T, m, n + 1))
         /\ \A a, b \in Q : <<a, b>> \in Links(T, m, n) => CutsEdge(h, Q, Links(T, m, n + 1), a, b)
<1>1. y \in Int /\ GL_width \in Int /\ GL_height \in Int
  BY ScreenSizes
<1>2. \A z \in Points : z[2] \in Int /\ z[1] \in Int
  BY DEF Points
<1>3. /\ \A z \in Points : Value(h, z) = e * (z[2] - y)
      /\ \A p, q \in Points : p[2] # q[2] => CrossingOf(h, p, q) = AtY(p, q, y)
  BY <1>1, RowSideIs
<1>4. \A z \in Points : /\ Value(h, z) \in Int
                        /\ Value(h, z) = 0 <=> z[2] = y
                        /\ Value(h, z) > 0 <=> (e = 1 /\ z[2] > y) \/ (e = -1 /\ z[2] < y)
                        /\ Value(h, z) < 0 <=> (e = 1 /\ z[2] < y) \/ (e = -1 /\ z[2] > y)
  <2> SUFFICES ASSUME NEW z \in Points
               PROVE  /\ Value(h, z) \in Int
                      /\ Value(h, z) = 0 <=> z[2] = y
                      /\ Value(h, z) > 0 <=> (e = 1 /\ z[2] > y) \/ (e = -1 /\ z[2] < y)
                      /\ Value(h, z) < 0 <=> (e = 1 /\ z[2] < y) \/ (e = -1 /\ z[2] > y)
    OBVIOUS
  <2>1. PICK k \in Int : k = z[2]
    BY <1>2
  <2>2. Value(h, z) = e * (k - y)
    BY <1>3, <2>1
  <2>3. CASE e = 1
    <3>1. Value(h, z) = k - y
      BY <1>1, <2>2, <2>3
    <3> QED BY <1>1, <2>1, <2>3, <3>1
  <2>4. CASE e = -1
    <3>1. Value(h, z) = y - k
      BY <1>1, <2>2, <2>4
    <3> QED BY <1>1, <2>1, <2>4, <3>1
  <2> QED BY <2>3, <2>4
<1>5. Q \subseteq Points
  BY DEF Boxed
<1>6. LinksSide(h, Q, Links(T, m, n + 1))
  <2>1. ASSUME NEW a \in Q, NEW b \in Q, Value(h, a) = 0, Value(h, b) = 0
        PROVE  <<a, b>> \in Links(T, m, n + 1)
    <3>1. a[2] = y /\ b[2] = y
      BY <1>4, <1>5, <2>1
    <3>2. Bordered(a, b)
      BY <3>1 DEF Bordered
    <3> QED BY <1>5, <3>2, LinkIs
  <2> QED BY <1>4, <1>5, <2>1 DEF LinksSide
<1>7. ASSUME NEW a \in Q, NEW b \in Q, <<a, b>> \in Links(T, m, n)
      PROVE  CutsEdge(h, Q, Links(T, m, n + 1), a, b)
  <2>1. a \in Points /\ b \in Points
    BY <1>5
  <2>2. Bordered(a, b) \/ \E s, t \in Points : <<s, t>> \in T /\ Along(s, t, a, b, m, n)
    BY <1>7, <2>1, LinkIs
  <2>3. <<a, b>> \in Links(T, m, n + 1)
    <3>1. ASSUME NEW s \in Points, NEW t \in Points, <<s, t>> \in T, Along(s, t, a, b, m, n)
          PROVE  Along(s, t, a, b, m, n + 1)
      BY <2>1, <3>1, FurtherBeside DEF Along
    <3>2. Bordered(a, b) \/ \E s, t \in Points : <<s, t>> \in T /\ Along(s, t, a, b, m, n + 1)
      BY <2>2, <3>1
    <3> QED BY <2>1, <3>2, LinkIs
  <2>4. ASSUME (Value(h, a) > 0 /\ Value(h, b) < 0) \/ (Value(h, a) < 0 /\ Value(h, b) > 0)
        PROVE  /\ CrossingOf(h, a, b) \in Q /\ Value(h, CrossingOf(h, a, b)) = 0
               /\ <<a, CrossingOf(h, a, b)>> \in Links(T, m, n + 1)
               /\ <<CrossingOf(h, a, b), b>> \in Links(T, m, n + 1)
    <3>1. (a[2] < y /\ y < b[2]) \/ (b[2] < y /\ y < a[2])
      BY <1>1, <1>2, <1>4, <2>1, <2>4
    <3>2. a[2] # b[2] /\ ((a[2] <= y /\ y <= b[2]) \/ (b[2] <= y /\ y <= a[2]))
      BY <1>1, <1>2, <2>1, <3>1
    <3> DEFINE c == AtY(a, b, y)
    <3>3. CrossingOf(h, a, b) = c
      BY <1>3, <2>1, <3>2
    <3>4. c \in Points /\ c[2] = y /\ Amid(a, b, c)
      BY <1>1, <2>1, <3>1, CutIsAmid
    <3>5. ASSUME NEW s \in Points, NEW t \in Points, InOrder(s, t, a, b) PROVE CutInRow(s, t, a, b, y, c)
      BY <1>1, <2>1, <3>2, <3>5, CutAtY
    <3> HIDE DEF c
    <3>6. c \in Q /\ Value(h, c) = 0
      BY <1>4, <3>4 DEF Boxed
    <3>7. CASE Bordered(a, b)
      <4>1. a[1] = b[1] /\ a[1] \in {0, GL_width - 1}
        BY <3>2, <3>7 DEF Bordered
      <4>2. (a[1] <= c[1] /\ c[1] <= b[1]) \/ (b[1] <= c[1] /\ c[1] <= a[1])
        BY <3>4 DEF Amid
      <4>3. c[1] = a[1]
        BY <1>2, <2>1, <3>4, <4>1, <4>2
      <4>4. Bordered(a, c) /\ Bordered(c, b)
        BY <4>1, <4>3 DEF Bordered
      <4> QED BY <2>1, <3>3, <3>4, <3>6, <4>4, LinkIs
    <3>8. ASSUME NEW s \in Points, NEW t \in Points, <<s, t>> \in T, Along(s, t, a, b, m, n)
          PROVE  <<a, c>> \in Links(T, m, n + 1) /\ <<c, b>> \in Links(T, m, n + 1)
      <4>1. InOrder(s, t, a, b) /\ LeansBy(s, t, a, m, n) /\ LeansBy(s, t, b, m, n)
        BY <3>8 DEF Along
      <4>2. CutInRow(s, t, a, b, y, c)
        BY <3>5, <4>1
      <4>3. LeansBy(s, t, c, m, n + 1) /\ LeansBy(s, t, a, m, n + 1) /\ LeansBy(s, t, b, m, n + 1)
        BY <1>1, <2>1, <3>4, <4>1, <4>2, FurtherBeside
      <4>4. InOrder(s, t, a, c) /\ InOrder(s, t, c, b)
        BY <4>2 DEF CutInRow
      <4>5. Along(s, t, a, c, m, n + 1) /\ Along(s, t, c, b, m, n + 1)
        BY <4>3, <4>4 DEF Along
      <4> QED BY <2>1, <3>4, <3>8, <4>5, LinkIs
    <3> QED BY <2>2, <3>3, <3>6, <3>7, <3>8
  <2> QED BY <2>3, <2>4 DEF CutsEdge
<1> QED BY <1>6, <1>7

\* A polygon of points of Q whose edges are links.
Outlined(F, Q, L) == F \in Seq(Q) /\ \A j \in 1 .. Len(F) : <<F[j], Following(F, j)>> \in L

\* Cutting at one side.
LEMMA ClipOutlines ==
  ASSUME NEW Q, NEW L, NEW M, NEW h, LinksSide(h, Q, M),
         \A a, b \in Q : <<a, b>> \in L => CutsEdge(h, Q, M, a, b),
         NEW F, Outlined(F, Q, L)
  PROVE  Outlined(clip_H(F, h[1], h[2], h[3]), Within(Q, h), M)
<1>1. F \in Seq(Q) /\ Len(F) \in Nat /\ \A j \in 1 .. Len(F) : F[j] \in Q
  BY DEF Outlined
<1>2. \A j \in 1 .. Len(F) : <<F[j], Following(F, j)>> \in L
  BY DEF Outlined
<1>3. ASSUME NEW i \in 1 .. Len(F) PROVE CutsEdge(h, Q, M, Previous(F, i), F[i])
  <2>1. CASE i = 1
    <3>1. Len(F) \in 1 .. Len(F) /\ 1 \in 1 .. Len(F)
      BY <1>1, <2>1
    <3>2. Following(F, Len(F)) = F[1] /\ Previous(F, 1) = F[Len(F)]
      BY DEF Following, Previous
    <3> QED BY <1>1, <1>2, <2>1, <3>1, <3>2
  <2>2. CASE i # 1
    <3>1. i - 1 \in 1 .. Len(F) /\ i - 1 # Len(F) /\ (i - 1) + 1 = i
      BY <1>1, <2>2
    <3>2. Following(F, i - 1) = F[i] /\ Previous(F, i) = F[i - 1]
      BY <2>2, <3>1 DEF Following, Previous
    <3> QED BY <1>1, <1>2, <3>1, <3>2
  <2> QED BY <2>1, <2>2
<1> DEFINE G == clip_H(F, h[1], h[2], h[3])
<1>4. Ring(h, Q, M, G)
  BY <1>1, <1>3, ClipLinks
<1> HIDE DEF G
<1>5. G \in Seq(Q) /\ Len(G) \in Nat /\ \A j \in 1 .. Len(G) : G[j] \in Q /\ Value(h, G[j]) >= 0 /\ <<G[j], Following(G, j)>> \in M
  BY <1>4 DEF Ring
<1>6. G \in Seq(Within(Q, h))
  <2>1. \A j \in 1 .. Len(G) : G[j] \in Within(Q, h)
    BY <1>5 DEF Within
  <2>2. G = [j \in 1 .. Len(G) |-> G[j]]
    BY <1>5
  <2> QED BY <1>5, <2>1, <2>2
<1>7. Outlined(G, Within(Q, h), M)
  BY <1>5, <1>6 DEF Outlined
<1> QED BY <1>7 DEF G

\* What is beside a side has no gaps.
LEMMA WithinIsBoxed ==
  ASSUME NEW Q, Boxed(Q), NEW e \in {-1, 1}, NEW x \in Int
  PROVE  Boxed(Within(Q, ColumnSide(e, x))) /\ Boxed(Within(Q, RowSide(e, x)))
<1>1. Q \subseteq Points /\ \A z \in Points : z[1] \in Int /\ z[2] \in Int
  BY DEF Boxed, Points
<1>2. /\ \A z \in Points : Value(ColumnSide(e, x), z) = e * (z[1] - x)
      /\ \A z \in Points : Value(RowSide(e, x), z) = e * (z[2] - x)
  BY ColumnSideIs, RowSideIs
<1>3. ASSUME NEW u \in Int, NEW v \in Int, NEW w \in Int, (u <= w /\ w <= v) \/ (v <= w /\ w <= u),
             e * (u - x) >= 0, e * (v - x) >= 0
      PROVE  e * (w - x) >= 0
  <2>1. CASE e = 1
    BY <1>3, <2>1
  <2>2. CASE e = -1
    BY <1>3, <2>2
  <2> QED BY <2>1, <2>2
<1>4. ASSUME NEW a \in Q, NEW b \in Q, NEW z \in Points, Amid(a, b, z)
      PROVE  /\ Value(ColumnSide(e, x), a) >= 0 /\ Value(ColumnSide(e, x), b) >= 0
                => Value(ColumnSide(e, x), z) >= 0
             /\ Value(RowSide(e, x), a) >= 0 /\ Value(RowSide(e, x), b) >= 0
                => Value(RowSide(e, x), z) >= 0
  <2>1. /\ (a[1] <= z[1] /\ z[1] <= b[1]) \/ (b[1] <= z[1] /\ z[1] <= a[1])
        /\ (a[2] <= z[2] /\ z[2] <= b[2]) \/ (b[2] <= z[2] /\ z[2] <= a[2])
    BY <1>4 DEF Amid
  <2>2. /\ a[1] \in Int /\ a[2] \in Int /\ b[1] \in Int /\ b[2] \in Int /\ z[1] \in Int /\ z[2] \in Int
        /\ a \in Points /\ b \in Points
    BY <1>1
  <2>3. e * (a[1] - x) >= 0 /\ e * (b[1] - x) >= 0 => e * (z[1] - x) >= 0
    BY <1>3, <2>1, <2>2
  <2>4. e * (a[2] - x) >= 0 /\ e * (b[2] - x) >= 0 => e * (z[2] - x) >= 0
    BY <1>3, <2>1, <2>2
  <2> QED BY <1>2, <2>2, <2>3, <2>4
<1>5. \A a, b \in Q, z \in Points : Amid(a, b, z) => z \in Q
  BY DEF Boxed
<1> QED BY <1>1, <1>4, <1>5 DEF Boxed, Within


Edges(points) == {<<points[i], Following(points, i)>> : i \in 1 .. Len(points)}

Seen == {z \in Points : code(z) = {}}

\* The four sides of the screen, one after the other.
LEMMA ClipsAre ==
  ASSUME NEW points, NEW X \in Int, NEW Y \in Int,
         NEW h1, h1 = ColumnSide(1, 0), NEW h2, h2 = ColumnSide(-1, X),
         NEW h3, h3 = RowSide(1, 0), NEW h4, h4 = RowSide(-1, Y),
         NEW F1, F1 = clip_H(points, h1[1], h1[2], h1[3]), NEW F2, F2 = clip_H(F1, h2[1], h2[2], h2[3]),
         NEW F3, F3 = clip_H(F2, h3[1], h3[2], h3[3]), NEW F4, F4 = clip_H(F3, h4[1], h4[2], h4[3])
  PROVE  GL_clip(points, 0, 0, X, Y) = F4
<1>1. /\ h1[1] = 1 /\ h1[2] = 0 /\ h1[3] = 0
      /\ h2[1] = -1 /\ h2[2] = 0 /\ h2[3] = X
      /\ h3[1] = 0 /\ h3[2] = 1 /\ h3[3] = 0
      /\ h4[1] = 0 /\ h4[2] = -1 /\ h4[3] = Y
  <2>1. -(1 * 0) = 0
    <3>1. \A n \in Int : -(1 * n) = 0 - n
      OBVIOUS
    <3>2. 0 \in Int /\ 0 - 0 = 0
      OBVIOUS
    <3> QED BY <3>1, <3>2
  <2>2. -((-1) * X) = X /\ -((-1) * Y) = Y
    OBVIOUS
  <2> QED BY <2>1, <2>2 DEF ColumnSide, RowSide
<1>2. F1 = clip_H(points, 1, 0, 0) /\ F2 = clip_H(F1, -1, 0, X)
  BY <1>1, Zenon
<1>3. F3 = clip_H(F2, 0, 1, 0) /\ F4 = clip_H(F3, 0, -1, Y)
  BY <1>1, Zenon
<1> QED BY <1>2, <1>3, Zenon DEF GL_clip

\* An outline is cut to the screen along its edges.
LEMMA OutlineIsCut ==
  ASSUME NEW points \in Seq(Points)
  PROVE  Outlined(GL_clip(points, 0, 0, GL_width - 1, GL_height - 1), Seen, Links(Edges(points), 2, 2))
<1> DEFINE E == Edges(points)
           X == GL_width - 1
           Y == GL_height - 1
           h1 == ColumnSide(1, 0)
           h2 == ColumnSide(-1, X)
           h3 == RowSide(1, 0)
           h4 == RowSide(-1, Y)
           Q1 == Within(Points, h1)
           Q2 == Within(Q1, h2)
           Q3 == Within(Q2, h3)
           Q4 == Within(Q3, h4)
           F1 == clip_H(points, h1[1], h1[2], h1[3])
           F2 == clip_H(F1, h2[1], h2[2], h2[3])
           F3 == clip_H(F2, h3[1], h3[2], h3[3])
           F4 == clip_H(F3, h4[1], h4[2], h4[3])
<1>1. X \in Int /\ Y \in Int /\ 1 \in {-1, 1} /\ -1 \in {-1, 1} /\ 0 \in Int
  BY ScreenSizes
<1>2. h1 = ColumnSide(1, 0) /\ h2 = ColumnSide(-1, X) /\ h3 = RowSide(1, 0) /\ h4 = RowSide(-1, Y)
  OBVIOUS
<1>3. GL_clip(points, 0, 0, X, Y) = F4
  <2> HIDE DEF X, Y, h1, h2, h3, h4
  <2>1. F1 = clip_H(points, h1[1], h1[2], h1[3])
    OBVIOUS
  <2> HIDE DEF F1
  <2>2. F2 = clip_H(F1, h2[1], h2[2], h2[3])
    OBVIOUS
  <2> HIDE DEF F2
  <2>3. F3 = clip_H(F2, h3[1], h3[2], h3[3])
    OBVIOUS
  <2> HIDE DEF F3
  <2>4. F4 = clip_H(F3, h4[1], h4[2], h4[3])
    OBVIOUS
  <2> HIDE DEF F4
  <2> QED BY <1>1, <1>2, <2>1, <2>2, <2>3, <2>4, ClipsAre
<1> HIDE DEF E
<1>4. Outlined(points, Points, Links(E, 0, 0))
  <2>1. ASSUME NEW j \in 1 .. Len(points) PROVE <<points[j], Following(points, j)>> \in Links(E, 0, 0)
    <3>1. Len(points) \in Nat /\ \A i \in 1 .. Len(points) : points[i] \in Points
      OBVIOUS
    <3>2. PICK s \in Points, t \in Points : s = points[j] /\ t = Following(points, j)
      <4>1. 1 \in 1 .. Len(points) /\ (j # Len(points) => j + 1 \in 1 .. Len(points))
        BY <3>1
      <4> QED BY <3>1, <4>1 DEF Following
    <3>3. <<s, t>> \in E
      BY <3>2 DEF E, Edges
    <3>4. InOrder(s, t, s, t) /\ Tilt(s, t, s) = 0 /\ Tilt(s, t, t) = 0
      <4>1. Begun(s, t, s, 0, 0) /\ Tilt(s, t, t) = 0
        BY WholeLine
      <4>2. Tilt(s, t, s) \in Int
        BY AheadIs
      <4> QED BY <4>1, <4>2 DEF Begun
    <3>5. LeansBy(s, t, s, 0, 0) /\ LeansBy(s, t, t, 0, 0)
      <4>1. PICK A \in Nat, B \in Nat : A = Abs(t[1] - s[1]) /\ B = Abs(t[2] - s[2])
        BY AheadIs
      <4>2. -(0 * A) <= 0 /\ 0 <= 0 * B
        OBVIOUS
      <4> QED BY <3>4, <4>1, <4>2 DEF LeansBy
    <3>6. Along(s, t, s, t, 0, 0)
      BY <3>4, <3>5 DEF Along
    <3> QED BY <3>2, <3>3, <3>6, LinkIs
  <2> QED BY <2>1 DEF Outlined
<1>5. Boxed(Points) /\ Boxed(Q1) /\ Boxed(Q2) /\ Boxed(Q3)
  <2>1. Boxed(Points)
    BY DEF Boxed
  <2>2. Boxed(Q1)
    BY <1>1, <2>1, WithinIsBoxed
  <2> HIDE DEF Q1
  <2>3. Boxed(Q2)
    BY <1>1, <2>2, WithinIsBoxed
  <2> HIDE DEF Q2
  <2>4. Boxed(Q3)
    BY <1>1, <2>3, WithinIsBoxed
  <2> QED BY <2>1, <2>2, <2>3, <2>4
<1>6. 0 + 1 = 1 /\ 1 + 1 = 2 /\ 0 \in {0, X} /\ X \in {0, X} /\ 0 \in {0, Y} /\ Y \in {0, Y}
  OBVIOUS
<1>7. Outlined(F1, Q1, Links(E, 1, 0))
  <2>1. /\ LinksSide(h1, Points, Links(E, 0 + 1, 0))
        /\ \A a, b \in Points : <<a, b>> \in Links(E, 0, 0) => CutsEdge(h1, Points, Links(E, 0 + 1, 0), a, b)
    BY <1>1, <1>5, <1>6, ColumnCuts
  <2> HIDE DEF h1
  <2> QED BY <1>4, <1>6, <2>1, ClipOutlines
<1>8. Outlined(F2, Q2, Links(E, 2, 0))
  <2> HIDE DEF F1, Q1
  <2>1. /\ LinksSide(h2, Q1, Links(E, 1 + 1, 0))
        /\ \A a, b \in Q1 : <<a, b>> \in Links(E, 1, 0) => CutsEdge(h2, Q1, Links(E, 1 + 1, 0), a, b)
    BY <1>1, <1>5, <1>6, ColumnCuts
  <2> HIDE DEF h2
  <2> QED BY <1>6, <1>7, <2>1, ClipOutlines
<1>9. Outlined(F3, Q3, Links(E, 2, 1))
  <2> HIDE DEF F2, Q2
  <2>1. /\ LinksSide(h3, Q2, Links(E, 2, 0 + 1))
        /\ \A a, b \in Q2 : <<a, b>> \in Links(E, 2, 0) => CutsEdge(h3, Q2, Links(E, 2, 0 + 1), a, b)
    BY <1>1, <1>5, <1>6, RowCuts
  <2> HIDE DEF h3
  <2> QED BY <1>6, <1>8, <2>1, ClipOutlines
<1>10. Outlined(F4, Q4, Links(E, 2, 2))
  <2> HIDE DEF F3, Q3
  <2>1. /\ LinksSide(h4, Q3, Links(E, 2, 1 + 1))
        /\ \A a, b \in Q3 : <<a, b>> \in Links(E, 2, 1) => CutsEdge(h4, Q3, Links(E, 2, 1 + 1), a, b)
    BY <1>1, <1>5, <1>6, RowCuts
  <2> HIDE DEF h4
  <2> QED BY <1>6, <1>9, <2>1, ClipOutlines
<1>11. Q4 \subseteq Seen
  <2> SUFFICES ASSUME NEW z \in Q4 PROVE z \in Seen
    OBVIOUS
  <2>1. z \in Points /\ Value(h1, z) >= 0 /\ Value(h2, z) >= 0 /\ Value(h3, z) >= 0 /\ Value(h4, z) >= 0
    BY DEF Within
  <2>2. PICK i \in Int, j \in Int : z[1] = i /\ z[2] = j
    BY <2>1 DEF Points
  <2>3. /\ Value(h1, z) = 1 * (i - 0) /\ Value(h2, z) = (-1) * (i - X)
        /\ Value(h3, z) = 1 * (j - 0) /\ Value(h4, z) = (-1) * (j - Y)
    BY <1>1, <2>1, <2>2, ColumnSideIs, RowSideIs
  <2>4. i \in 0 .. X /\ j \in 0 .. Y
    BY <1>1, <2>1, <2>2, <2>3
  <2>5. code(z) = {}
    BY <2>1, <2>2, <2>4, SeenIs
  <2> QED BY <2>1, <2>5 DEF Seen
<1>12. Outlined(F4, Seen, Links(E, 2, 2))
  <2> HIDE DEF F4, Q4
  <2>1. F4 \in Seq(Q4)
    BY <1>10 DEF Outlined
  <2>2. F4 \in Seq(Seen)
    <3>1. Len(F4) \in Nat /\ F4 = [i \in 1 .. Len(F4) |-> F4[i]] /\ \A i \in 1 .. Len(F4) : F4[i] \in Q4
      BY <2>1
    <3>2. \A i \in 1 .. Len(F4) : F4[i] \in Seen
      BY <1>11, <3>1
    <3> QED BY <3>1, <3>2
  <2> QED BY <1>10, <2>2 DEF Outlined
<1> QED BY <1>3, <1>12 DEF E

\* What the drawing of an outline sends: what OutlineIsRight asks for, if it is cut.
OutlineFor(points, P) ==
    /\ P \subseteq Screen
    /\ \A r \in P : AtBorder(r) \/ \E e \in Edges(points) : NearLine(e[1], e[2], r, 3 + CUT)

LEMMA BorderedIs ==
  ASSUME NEW a \in Points, NEW b \in Points, Bordered(a, b), NEW r \in Segment(a, b)
  PROVE  AtBorder(r)
<1>1. r \in Int \X Int /\ Between(a, b, r)
  BY SegmentIsNear DEF Points, NearLine
<1>2. /\ r[1] \in Min({a[1], b[1]}) .. Max({a[1], b[1]})
      /\ r[2] \in Min({a[2], b[2]}) .. Max({a[2], b[2]})
  BY <1>1 DEF Between
<1>3. a[1] \in Int /\ a[2] \in Int /\ b[1] \in Int /\ b[2] \in Int /\ r[1] \in Int /\ r[2] \in Int
  BY <1>1 DEF Points
<1>4. \A x, z \in Int : z \in Min({x, x}) .. Max({x, x}) => z = x
  <2> SUFFICES ASSUME NEW x \in Int, NEW z \in Int, z \in Min({x, x}) .. Max({x, x}) PROVE z = x
    OBVIOUS
  <2>1. Min({x, x}) = x /\ Max({x, x}) = x
    BY OfTwo
  <2> QED BY <2>1
<1>5. CASE a[1] = b[1] /\ a[1] \in {0, GL_width - 1}
  <2>1. r[1] = a[1]
    BY <1>2, <1>3, <1>4, <1>5
  <2> QED BY <1>5, <2>1 DEF AtBorder
<1>6. CASE a[2] = b[2] /\ a[2] \in {0, GL_height - 1}
  <2>1. r[2] = a[2]
    BY <1>2, <1>3, <1>4, <1>6
  <2> QED BY <1>6, <2>1 DEF AtBorder
<1> QED BY <1>5, <1>6 DEF Bordered

LEMMA CutOutlineSent ==
  ASSUME NEW points \in Triangles, ~OnScreen(points), CUT >= 4, NEW culling, NEW garbage,
         ~Culled(culling, Clockwise(points))
  PROVE  OutlineFor(points, GL_fill_poly(points, "GL_POLY_LINES", culling, garbage))
<1> DEFINE F == GL_clip(points, 0, 0, GL_width - 1, GL_height - 1)
           P == Filled(points, "GL_POLY_LINES", culling, garbage)
           L == Links(Edges(points), 2, 2)
<1>1. GL_fill_poly(points, "GL_POLY_LINES", culling, garbage) = P
  BY DEF GL_fill_poly, FGA_fill_poly
<1>2. Visible(points) = F
  BY DEF Visible
<1>3. Outlined(F, Seen, L)
  <2>1. points \in Seq(Points)
    <3>1. PICK p \in Points, q \in Points, r \in Points : points = <<p, q, r>>
      BY DEF Triangles
    <3>2. <<p, q, r>> \in Seq(Points)
      OBVIOUS
    <3> QED BY <3>1, <3>2
  <2> QED BY <2>1, OutlineIsCut
<1> HIDE DEF F
<1>4. /\ F = <<>> => P = {}
      /\ F # <<>> => P = UNION {GL_line(F[i], Following(F, i)) : i \in 1 .. Len(F)}
  BY <1>2 DEF Filled
<1> HIDE DEF P, L
<1>5. /\ Len(F) \in Nat /\ \A i \in 1 .. Len(F) : F[i] \in Seen
      /\ \A i \in 1 .. Len(F) : <<F[i], Following(F, i)>> \in L
  BY <1>3 DEF Outlined
<1>6. ASSUME NEW a \in Points, NEW b \in Points, code(a) = {}, code(b) = {}, <<a, b>> \in L, NEW r \in GL_line(a, b)
      PROVE  r \in Screen /\ (AtBorder(r) \/ \E e \in Edges(points) : NearLine(e[1], e[2], r, 3 + CUT))
  <2>1. GL_line(a, b) = Segment(a, b)
    BY <1>6, LineOnScreen DEF Points
  <2>2. r \in Screen /\ r \in Segment(a, b) /\ r \in Points
    <3>1. Segment(a, b) \subseteq Screen
      BY <1>6, PointOnScreen, SegmentOnScreen
    <3>2. r \in Segment(a, b)
      BY <1>6, <2>1
    <3>3. r \in Points
      BY <3>2, SegmentIsNear DEF Points
    <3> QED BY <3>1, <3>2, <3>3
  <2>3. Bordered(a, b) \/ \E s, t \in Points : <<s, t>> \in Edges(points) /\ Along(s, t, a, b, 2, 2)
    <3>1. PICK T : T = Edges(points)
      OBVIOUS
    <3>2. <<a, b>> \in Links(T, 2, 2)
      BY <1>6, <3>1 DEF L
    <3>3. Bordered(a, b) \/ \E s, t \in Points : <<s, t>> \in T /\ Along(s, t, a, b, 2, 2)
      BY <3>2, LinkIs
    <3> QED BY <3>1, <3>3
  <2>4. CASE Bordered(a, b)
    BY <2>2, <2>4, BorderedIs
  <2>5. ASSUME NEW s \in Points, NEW t \in Points, <<s, t>> \in Edges(points), Along(s, t, a, b, 2, 2)
        PROVE  \E e \in Edges(points) : NearLine(e[1], e[2], r, 3 + CUT)
    <3>1. NearLine(s, t, r, 7)
      BY <2>2, <2>5, AlongIsNear
    <3>2. NearLine(s, t, r, 3 + CUT)
      BY <2>2, <3>1, NearWithCut
    <3>3. <<s, t>>[1] = s /\ <<s, t>>[2] = t
      OBVIOUS
    <3> QED BY <2>5, <3>2, <3>3
  <2> QED BY <2>2, <2>3, <2>4, <2>5
<1>7. ASSUME NEW r \in P
      PROVE  r \in Screen /\ (AtBorder(r) \/ \E e \in Edges(points) : NearLine(e[1], e[2], r, 3 + CUT))
  <2>1. PICK i \in 1 .. Len(F) : r \in GL_line(F[i], Following(F, i))
    BY <1>4, <1>7
  <2>2. PICK a, b : a = F[i] /\ b = Following(F, i)
    OBVIOUS
  <2>3. a \in Seen /\ b \in Seen
    <3>1. 1 \in 1 .. Len(F) /\ (i # Len(F) => i + 1 \in 1 .. Len(F))
      BY <1>5
    <3> QED BY <1>5, <2>2, <3>1 DEF Following
  <2>4. <<a, b>> \in L /\ r \in GL_line(a, b)
    BY <1>5, <2>1, <2>2
  <2> QED BY <1>6, <2>3, <2>4 DEF Seen
<1> QED BY <1>1, <1>7 DEF OutlineFor

-------------------------------------------------------------------------------
(* Figures: the outline on the screen.                                     *)

\* An outline that was cut is right.
OutlineInv ==
    CUT >= 4 /\ figure.shape = "GL_POLY_LINES" /\ ~DrawnWhole => OutlineIsRight(figure.points)

LEMMA OutlineSent ==
  ASSUME frame = Blank(FGA_mode), NEW points \in Triangles, NEW culling, CUT >= 4,
         DrawPolygon(points, "GL_POLY_LINES", culling), ~DrawnWhole'
  PROVE  OutlineIsRight(points)'
<1>1. PICK garbage \in Garbage : Draws(GL_fill_poly(points, "GL_POLY_LINES", culling, garbage))
  BY DEF DrawPolygon
<1> DEFINE P == GL_fill_poly(points, "GL_POLY_LINES", culling, garbage)
<1>2. FGA_mode' = FGA_mode /\ frame' = Painted(P, INK)
  BY <1>1 DEF Draws
<1> HIDE DEF P
<1>3. ~Culled(culling, Clockwise(points)) /\ ~OnScreen(points)'
  BY DEF DrawPolygon, DrawnWhole
<1>4. ~OnScreen(points) /\ \A r : AtBorder(r)' <=> AtBorder(r)
  BY <1>2, <1>3 DEF OnScreen, code, AtBorder, GL_width, GL_height
<1>5. OutlineFor(points, P)
  BY <1>3, <1>4, CutOutlineSent DEF P
<1>6. Inked' = P
  <2>1. P \subseteq Screen /\ \A r \in P : r = <<r[1], r[2]>>
    BY <1>5 DEF OutlineFor, Screen
  <2>2. Inked' = P \cap Screen
    BY <1>2, <2>1, PaintedOnBlank
  <2> QED BY <2>1, <2>2
<1>7. Slack(points)' = CUT
  BY <1>3 DEF Slack
<1>8. \A r \in P : AtBorder(r) \/ \E e \in Edges(points) : NearLine(e[1], e[2], r, 3 + CUT)
  BY <1>5 DEF OutlineFor
<1> QED BY <1>3, <1>4, <1>6, <1>7, <1>8 DEF OutlineIsRight, Edges

LEMMA OutlineStep ==
  ASSUME FigureInv, OutlineInv, [TerminalNext]_terminalVars
  PROVE  OutlineInv'
<1> SUFFICES ASSUME CUT >= 4, figure'.shape = "GL_POLY_LINES", ~DrawnWhole'
             PROVE  OutlineIsRight(figure.points)'
  BY DEF OutlineInv
<1>1. None.shape # "GL_POLY_LINES"
  BY DEF None
<1>2. ASSUME NEW p \in Corners, NEW q \in Corners, NEW r \in Corners, NEW polygon_mode, NEW culling,
             DrawPolygon(<<p, q, r>>, polygon_mode, culling), frame = Blank(FGA_mode)
      PROVE  OutlineIsRight(figure.points)'
  <2>1. <<p, q, r>> \in Triangles
    <3>1. Corners \subseteq Points
      <4>1. (\A c \in Columns : c - MARGIN \in Int) /\ (\A d \in Rows : d - MARGIN \in Int)
        BY FigureAssumption
      <4> QED BY <4>1 DEF Corners, Points
    <3> QED BY <3>1 DEF Triangles
  <2>2. figure'.points = <<p, q, r>> /\ polygon_mode = "GL_POLY_LINES"
    BY <1>2 DEF DrawPolygon
  <2>3. OutlineIsRight(<<p, q, r>>)'
    BY <1>2, <2>1, <2>2, OutlineSent
  <2> QED BY <2>2, <2>3
<1>3. CASE Draw
  <2>1. frame = Blank(FGA_mode)
    BY <1>3 DEF Draw, Fresh
  <2>2. ASSUME NEW p, NEW q, DrawLine(p, q) \/ DrawRectangle(p, q) \/ DrawPixel(p) PROVE FALSE
    BY <2>2 DEF DrawLine, DrawRectangle, DrawPixel
  <2> QED BY <1>2, <1>3, <2>1, <2>2 DEF Draw
<1>4. CASE \E mode \in {GL_MODE_OLED, GL_MODE_FGA} : GL_tty_init(mode)
  BY <1>1, <1>4 DEF GL_tty_init, GL_init, FGA_setmode
<1>5. CASE UNCHANGED terminalVars
  <2>1. FGA_mode' = FGA_mode /\ frame' = frame /\ figure' = figure
    BY <1>5 DEF terminalVars
  <2>2. Inked' = Inked /\ \A points : OnScreen(points)' <=> OnScreen(points)
    BY <2>1 DEF Inked, Screen, OnScreen, code, GL_width, GL_height
  <2>3. DrawnWhole' <=> DrawnWhole
    BY <2>1, <2>2 DEF DrawnWhole
  <2>4. OutlineIsRight(figure.points)
    BY <2>1, <2>3 DEF OutlineInv
  <2>5. OutlineIsRight(figure.points)' <=> OutlineIsRight(figure'.points)
    BY <2>1, <2>2 DEF OutlineIsRight, Slack, AtBorder, Screen, GL_width, GL_height
  <2> QED BY <2>1, <2>4, <2>5
<1>6. ASSUME \/ \E c \in Chars : GL_putchar(c)
             \/ NewLine \/ CarriageReturn \/ GL_clear
             \/ \E X \in 0 .. GL_width - 1, Y \in 0 .. GL_height - 1 :
                   X % FONT_WIDTH = 0 /\ Y % FONT_HEIGHT = 0 /\ GL_tty_goto_xy(X, Y)
      PROVE  FALSE
  <2>1. figure' = None
    BY <1>6 DEF TextMode, GL_putchar, NewLine, CarriageReturn, Written, GL_tty_goto_xy, GL_clear
  <2> QED BY <1>1, <2>1
<1> QED BY <1>3, <1>4, <1>5, <1>6 DEF TerminalNext

\* So is the outline of a triangle, with the same two half pixels more for each end of an edge that
\* is moved: every pixel of it is at the border or at most three and a half pixels beside one of the
\* edges asked for, although a cut at one side of the screen starts from the cuts at the others.
THEOREM OutlinesRight == TerminalSpec => [](CUT >= 4 /\ figure.shape = "GL_POLY_LINES" => FiguresAreRight)
<1>1. TerminalInit => FigureInv /\ OutlineInv
  <2>1. TerminalInit => OutlineInv
    BY DEF TerminalInit, OutlineInv, None
  <2> QED BY <2>1, NoFigureAtFirst
<1>2. TextInv /\ FigureInv /\ OutlineInv /\ [TerminalNext]_terminalVars => FigureInv' /\ OutlineInv'
  BY FigureStep, OutlineStep
<1>3. FigureInv /\ OutlineInv => (CUT >= 4 /\ figure.shape = "GL_POLY_LINES" => FiguresAreRight)
  <2> SUFFICES ASSUME FigureInv, OutlineInv, CUT >= 4, figure.shape = "GL_POLY_LINES" PROVE FiguresAreRight
    OBVIOUS
  <2>1. CASE DrawnWhole
    BY <2>1, WholeFigureIsRight
  <2>2. CASE ~DrawnWhole
    <3>1. OutlineIsRight(figure.points) /\ ~Culled(figure.culling, Clockwise(figure.points))
      BY <2>2 DEF OutlineInv, DrawnWhole
    <3> QED BY <3>1 DEF FiguresAreRight
  <2> QED BY <2>1, <2>2
<1> QED BY <1>1, <1>2, <1>3, TextInvariant, PTL DEF TerminalSpec

-------------------------------------------------------------------------------
(* Figures: the corners of a cut triangle.                                 *)

\* A number between two others but for an error is not far below them.
LEMMA NotFarBelow ==
  ASSUME NEW d \in Nat \ {0}, NEW k \in 0 .. d, NEW A \in Int, NEW B \in Int, NEW C \in Int,
         NEW g \in Int, NEW T \in Int, NEW N \in Nat, NEW G \in Nat, NEW w \in Nat,
         d * C = (d - k) * A + k * B + g * T,
         -N <= A, -N <= B, -G <= g, g <= G, -(w * d) <= 2 * T, 2 * T <= w * d
  PROVE  -(2 * N + w * G) <= 2 * C
<1>1. (d - k) * (A + N) >= 0 /\ k * (B + N) >= 0
  BY ProductSign
<1>2. -((w * d) * G) <= 2 * (g * T)
  <2>1. PICK m \in Nat : m = w * d
    BY ProductSign
  <2>2. -m <= 2 * T /\ 2 * T <= m
    BY <2>1
  <2>3. (G - g) * (m - 2 * T) >= 0 /\ (G + g) * (m + 2 * T) >= 0
    BY <2>1, <2>2, ProductSign
  <2>4. /\ (G - g) * (m - 2 * T) = m * G - 2 * (G * T) - g * m + 2 * (g * T)
        /\ (G + g) * (m + 2 * T) = m * G + 2 * (G * T) + g * m + 2 * (g * T)
        /\ m * G \in Int /\ G * T \in Int /\ g * m \in Int /\ g * T \in Int
    BY <2>1
  <2>5. -(m * G) <= 2 * (g * T)
    BY <2>3, <2>4
  <2> QED BY <2>1, <2>5
<1>3. d * (2 * C + (2 * N + w * G)) >= 0
  <2>1. d * (2 * C + (2 * N + w * G))
        = 2 * ((d - k) * (A + N)) + 2 * (k * (B + N)) + (2 * (g * T) + (w * d) * G)
    <3>1. d * (2 * C + (2 * N + w * G)) = 2 * (d * C) + 2 * (d * N) + (w * d) * G
      OBVIOUS
    <3>2. (d - k) * (A + N) = (d - k) * A + (d - k) * N /\ k * (B + N) = k * B + k * N
          /\ (d - k) * N = d * N - k * N
      OBVIOUS
    <3>3. /\ (d - k) * A \in Int /\ k * B \in Int /\ d * N \in Int /\ k * N \in Int /\ g * T \in Int
          /\ (w * d) * G \in Int /\ d * C \in Int
      OBVIOUS
    <3> QED BY <3>1, <3>2, <3>3
  <2>2. /\ (d - k) * (A + N) \in Int /\ k * (B + N) \in Int /\ g * T \in Int /\ (w * d) * G \in Int
    OBVIOUS
  <2> QED BY <1>1, <1>2, <2>1, <2>2
<1>4. PICK z \in Int : z = 2 * C + (2 * N + w * G)
  OBVIOUS
<1>5. z >= 0
  <2> SUFFICES ASSUME z < 0 PROVE FALSE
    BY <1>4
  <2>1. d * z < 0
    BY ProductSign
  <2> QED BY <1>3, <1>4, <2>1
<1>6. w * G \in Int
  OBVIOUS
<1> QED BY <1>4, <1>5, <1>6

\* The same when the error is at most half a pixel.
LEMMA NotFarBelowInRow ==
  ASSUME NEW d \in Nat \ {0}, NEW k \in 0 .. d, NEW A \in Int, NEW B \in Int, NEW C \in Int,
         NEW g \in Int, NEW T \in Int, NEW N \in Nat, NEW G \in Nat,
         d * C = (d - k) * A + k * B + g * T,
         -N <= A, -N <= B, -G <= g, g <= G, -d <= 2 * T, 2 * T <= d
  PROVE  -(2 * N + G) <= 2 * C
<1>1. -(1 * d) <= 2 * T /\ 2 * T <= 1 * d
  OBVIOUS
<1>2. -(2 * N + 1 * G) <= 2 * C
  <2>1. 1 \in Nat
    OBVIOUS
  <2>2. \A w \in Nat : -(w * d) <= 2 * T /\ 2 * T <= w * d => -(2 * N + w * G) <= 2 * C
    BY NotFarBelow
  <2> QED BY <1>1, <2>1, <2>2, Zenon
<1>3. 1 * G = G
  OBVIOUS
<1> QED BY <1>2, <1>3

\* On which side of an edge a point is that is near to the way from a to b, X columns and
\* Y rows further.
CrossesBetween(p, q, s, a, b, z, sx, sy, X, Y, i, j) ==
    /\ Y * (s * Cross(p, q, z)) = (Y - j) * (s * Cross(p, q, a)) + j * (s * Cross(p, q, b))
                                  + ((s * sx) * (q[2] - p[2])) * (X * j - Y * i)
    /\ X * (s * Cross(p, q, z)) = (X - i) * (s * Cross(p, q, a)) + i * (s * Cross(p, q, b))
                                  + ((s * sy) * (q[1] - p[1])) * (X * j - Y * i)

LEMMA CrossBetween ==
  ASSUME NEW p \in Points, NEW q \in Points, NEW s \in {-1, 1},
         NEW a \in Points, NEW b \in Points, NEW z \in Points, NEW sx \in {-1, 1}, NEW sy \in {-1, 1},
         NEW X, NEW Y, NEW i, NEW j, Reached(a, b, sx, sy, X, Y), Reached(a, z, sx, sy, i, j)
  PROVE  CrossesBetween(p, q, s, a, b, z, sx, sy, X, Y, i, j)
<1>1. PICK px \in Int, py \in Int, u \in Int, v \in Int, c \in Int, d \in Int :
         p[1] = px /\ p[2] = py /\ u = q[1] - px /\ v = q[2] - py /\ c = a[1] - px /\ d = a[2] - py
  <2>1. /\ p[1] \in Int /\ p[2] \in Int /\ q[1] - p[1] \in Int /\ q[2] - p[2] \in Int
        /\ a[1] - p[1] \in Int /\ a[2] - p[2] \in Int
    BY DEF Points
  <2> QED BY <2>1
<1>2. X \in Int /\ Y \in Int /\ i \in Int /\ j \in Int
  BY DEF Reached
<1>3. /\ a[1] - px = c /\ a[2] - py = d
      /\ b[1] - px = c + sx * X /\ b[2] - py = d + sy * Y
      /\ z[1] - px = c + sx * i /\ z[2] - py = d + sy * j
  <2>1. a[1] \in Int /\ a[2] \in Int
    BY DEF Points
  <2>2. sx * X \in Int /\ sy * Y \in Int /\ sx * i \in Int /\ sy * j \in Int
    BY <1>2
  <2>3. b[1] = a[1] + sx * X /\ b[2] = a[2] + sy * Y /\ z[1] = a[1] + sx * i /\ z[2] = a[2] + sy * j
    BY DEF Reached
  <2> QED BY <1>1, <2>1, <2>2, <2>3
<1>4. /\ Cross(p, q, a) = u * d - c * v
      /\ Cross(p, q, b) = u * (d + sy * Y) - (c + sx * X) * v
      /\ Cross(p, q, z) = u * (d + sy * j) - (c + sx * i) * v
  BY <1>1, <1>3 DEF Cross
<1>5. sx * sx = 1 /\ sy * sy = 1 /\ s * s = 1
  OBVIOUS
<1>6. PICK f \in Int, k \in Int, l \in Int : f = s * (u * d - c * v) /\ k = (s * sx) * v /\ l = (s * sy) * u
  <2>1. s * (u * d - c * v) \in Int /\ (s * sx) * v \in Int /\ (s * sy) * u \in Int
    OBVIOUS
  <2> QED BY <2>1
<1>7. /\ s * Cross(p, q, a) = f
      /\ s * Cross(p, q, b) = f + l * Y - k * X
      /\ s * Cross(p, q, z) = f + l * j - k * i
  <2>1. \A A, B \in Int : s * (u * (d + B) - (c + A) * v) = s * (u * d - c * v) + (s * u) * B - (s * v) * A
    OBVIOUS
  <2>2. \A A, B \in Int : (s * u) * (sy * B) = ((s * sy) * u) * B /\ (s * v) * (sx * A) = ((s * sx) * v) * A
    OBVIOUS
  <2>3. \A n \in Int : sx * n \in Int /\ sy * n \in Int
    OBVIOUS
  <2>4. \A A, B \in Int : s * (u * (d + sy * B) - (c + sx * A) * v) = f + l * B - k * A
    BY <1>6, <2>1, <2>2, <2>3
  <2>5. /\ s * (u * (d + sy * Y) - (c + sx * X) * v) = f + l * Y - k * X
        /\ s * (u * (d + sy * j) - (c + sx * i) * v) = f + l * j - k * i
    BY <1>2, <2>4
  <2> QED BY <1>4, <1>6, <2>5
<1>8. /\ Y * (f + l * j - k * i) = (Y - j) * f + j * (f + l * Y - k * X) + k * (X * j - Y * i)
      /\ X * (f + l * j - k * i) = (X - i) * f + i * (f + l * Y - k * X) + l * (X * j - Y * i)
  BY <1>2
<1>9. v = q[2] - p[2] /\ u = q[1] - p[1]
  BY <1>1
<1> QED BY <1>6, <1>7, <1>8, <1>9, Zenon DEF CrossesBetween

\* A point of a cut, as far as the way from a to b goes.
CutHere(a, b, z, X, Y, i, j) ==
    /\ X \in Nat /\ Y \in Nat /\ i \in 0 .. X /\ j \in 0 .. Y
    /\ \E sx, sy \in {-1, 1} : Reached(a, b, sx, sy, X, Y) /\ Reached(a, z, sx, sy, i, j)

LEMMA CutIsHere ==
  ASSUME NEW a \in Points, NEW b \in Points, NEW z \in Points, InOrder(a, b, a, z),
         NEW X, X = Abs(b[1] - a[1]), NEW Y, Y = Abs(b[2] - a[2])
  PROVE  \E i, j : CutHere(a, b, z, X, Y, i, j) /\ Tilt(a, b, z) = X * j - Y * i
<1> DEFINE sx == Sign(b[1] - a[1])
           sy == Sign(b[2] - a[2])
           i == Ahead(a, b, z)[1]
           j == Ahead(a, b, z)[2]
<1>1. a[1] \in Int /\ a[2] \in Int /\ b[1] \in Int /\ b[2] \in Int
  BY DEF Points
<1>2. sx \in {-1, 1} /\ sy \in {-1, 1} /\ X \in Nat /\ Y \in Nat
  BY <1>1 DEF Sign, Abs
<1>3. Reached(a, z, sx, sy, i, j)
  BY AheadIs
<1>4. i \in Int /\ j \in Int
  BY <1>3 DEF Reached
<1>5. 0 <= Ahead(a, b, a)[1] /\ Ahead(a, b, a)[1] <= i /\ i <= X
      /\ 0 <= Ahead(a, b, a)[2] /\ Ahead(a, b, a)[2] <= j /\ j <= Y
  BY DEF InOrder
<1>6. Ahead(a, b, a)[1] = 0 /\ Ahead(a, b, a)[2] = 0
  <2>1. a[1] - a[1] = 0 /\ a[2] - a[2] = 0
    BY <1>1
  <2>2. Ahead(a, b, a)[1] = sx * 0 /\ Ahead(a, b, a)[2] = sy * 0
    BY <2>1 DEF Ahead
  <2>3. \A n \in Int : n * 0 = 0
    OBVIOUS
  <2> HIDE DEF sx, sy
  <2>4. sx \in Int /\ sy \in Int
    BY <1>2
  <2> QED BY <2>2, <2>3, <2>4
<1>7. i \in 0 .. X /\ j \in 0 .. Y
  <2> HIDE DEF i, j
  <2> QED BY <1>2, <1>4, <1>5, <1>6
<1>8. Reached(a, b, sx, sy, X, Y)
  <2>1. b[1] = a[1] + sx * X /\ b[2] = a[2] + sy * Y
    BY <1>1, OnTheWay
  <2> QED BY <1>2, <2>1 DEF Reached
<1>9. Tilt(a, b, z) = X * j - Y * i
  BY DEF Tilt, Lean
<1> HIDE DEF sx, sy, i, j
<1>10. CutHere(a, b, z, X, Y, i, j)
  BY <1>2, <1>3, <1>7, <1>8 DEF CutHere
<1> QED BY <1>9, <1>10

\* The points that no edge of T has further outside than m of its widths and n of its heights.
Enclosed(T, s, m, n) ==
    {z \in Points : \A p, q \in Points : <<p, q>> \in T =>
        -(m * Abs(q[1] - p[1]) + n * Abs(q[2] - p[2])) <= s * Cross(p, q, z)}

\* Where the border cuts the way from one such point to another, it is not much further outside.
LEMMA CutIsEnclosed ==
  ASSUME NEW T, NEW s \in {-1, 1}, NEW m \in Nat, NEW n \in Nat,
         NEW a \in Enclosed(T, s, m, n), NEW b \in Enclosed(T, s, m, n)
  PROVE  /\ \A x \in Int : (a[1] < x /\ x < b[1]) \/ (b[1] < x /\ x < a[1])
               => AtX(a, b, x) \in Enclosed(T, s, m + 1, n)
         /\ \A y \in Int : (a[2] < y /\ y < b[2]) \/ (b[2] < y /\ y < a[2])
               => AtY(a, b, y) \in Enclosed(T, s, m, n + 1)
<1>1. a \in Points /\ b \in Points
  BY DEF Enclosed
<1>2. a[1] \in Int /\ a[2] \in Int /\ b[1] \in Int /\ b[2] \in Int
  BY <1>1 DEF Points
<1>3. InOrder(a, b, a, b) /\ Tilt(a, b, a) = 0 /\ Tilt(a, b, b) = 0
  <2>1. Begun(a, b, a, 0, 0) /\ Tilt(a, b, b) = 0
    BY <1>1, WholeLine
  <2>2. Tilt(a, b, a) \in Int
    BY <1>1, AheadIs
  <2> QED BY <2>1, <2>2 DEF Begun
<1>4. PICK X \in Nat, Y \in Nat : X = Abs(b[1] - a[1]) /\ Y = Abs(b[2] - a[2])
  BY <1>1, AheadIs
<1>5. ASSUME NEW p \in Points, NEW q \in Points, <<p, q>> \in T,
             NEW z \in Points, InOrder(a, b, a, z)
      PROVE  /\ X # 0 /\ -X <= Tilt(a, b, z) /\ Tilt(a, b, z) <= 0 =>
                   -((m + 1) * Abs(q[1] - p[1]) + n * Abs(q[2] - p[2])) <= s * Cross(p, q, z)
             /\ Y # 0 /\ 0 <= Tilt(a, b, z) /\ Tilt(a, b, z) <= Y =>
                   -(m * Abs(q[1] - p[1]) + (n + 1) * Abs(q[2] - p[2])) <= s * Cross(p, q, z)
  <2>1. PICK u \in Int, v \in Int : u = q[1] - p[1] /\ v = q[2] - p[2]
    <3>1. q[1] - p[1] \in Int /\ q[2] - p[2] \in Int
      BY DEF Points
    <3> QED BY <3>1
  <2>2. PICK U \in Nat, V \in Nat : U = Abs(u) /\ V = Abs(v)
    BY DEF Abs
  <2>3. PICK A \in Int, B \in Int, C \in Int :
           A = s * Cross(p, q, a) /\ B = s * Cross(p, q, b) /\ C = s * Cross(p, q, z)
    <3>1. s * Cross(p, q, a) \in Int /\ s * Cross(p, q, b) \in Int /\ s * Cross(p, q, z) \in Int
      BY <1>1, TwoEdgesSigned
    <3> QED BY <3>1
  <2>4. PICK N \in Nat : N = m * U + n * V
    BY ProductSign
  <2>5. -N <= A /\ -N <= B
    BY <1>5, <2>1, <2>2, <2>3, <2>4 DEF Enclosed
  <2>6. PICK i, j : CutHere(a, b, z, X, Y, i, j) /\ Tilt(a, b, z) = X * j - Y * i
    BY <1>1, <1>4, <1>5, CutIsHere
  <2>7. PICK sx \in {-1, 1}, sy \in {-1, 1} :
           /\ i \in 0 .. X /\ j \in 0 .. Y
           /\ Reached(a, b, sx, sy, X, Y) /\ Reached(a, z, sx, sy, i, j)
    BY <2>6 DEF CutHere
  <2>8. PICK t \in Int : t = X * j - Y * i /\ t = Tilt(a, b, z)
    <3>1. X * j - Y * i \in Int
      BY <2>7
    <3> QED BY <2>6, <3>1
  <2>9. /\ Y * C = (Y - j) * A + j * B + ((s * sx) * v) * t
        /\ X * C = (X - i) * A + i * B + ((s * sy) * u) * t
    <3>1. CrossesBetween(p, q, s, a, b, z, sx, sy, X, Y, i, j)
      BY <1>1, <2>7, CrossBetween
    <3> QED BY <2>1, <2>3, <2>8, <3>1, Zenon DEF CrossesBetween
  <2>10. PICK g \in Int, k \in Int : /\ g = (s * sx) * v /\ -V <= g /\ g <= V
                                     /\ k = (s * sy) * u /\ -U <= k /\ k <= U
    <3>1. \A e, f \in {-1, 1}, w \in Int : (e * f) * w = w \/ (e * f) * w = -w
      OBVIOUS
    <3>2. -V <= v /\ v <= V /\ -V <= -v /\ -v <= V /\ -U <= u /\ u <= U /\ -U <= -u /\ -u <= U
      BY <2>2 DEF Abs
    <3>3. ((s * sx) * v = v \/ (s * sx) * v = -v) /\ ((s * sy) * u = u \/ (s * sy) * u = -u)
      BY <3>1
    <3> QED BY <3>2, <3>3
  <2>11. ASSUME X # 0, -X <= t, t <= 0 PROVE -(N + U) <= C
    <3>1. X \in Nat \ {0} /\ -(2 * X) <= 2 * t /\ 2 * t <= 2 * X
      BY <2>11
    <3>2. -(2 * N + 2 * U) <= 2 * C
      BY <2>5, <2>7, <2>9, <2>10, <3>1, NotFarBelow
    <3> QED BY <3>2
  <2>12. ASSUME Y # 0, 0 <= t, t <= Y PROVE -(N + V) <= C
    <3>1. Y \in Nat \ {0} /\ -(2 * Y) <= 2 * t /\ 2 * t <= 2 * Y
      BY <2>12
    <3>2. -(2 * N + 2 * V) <= 2 * C
      BY <2>5, <2>7, <2>9, <2>10, <3>1, NotFarBelow
    <3> QED BY <3>2
  <2>13. (m + 1) * U + n * V = N + U /\ m * U + (n + 1) * V = N + V
    BY <2>4
  <2> QED BY <2>1, <2>2, <2>3, <2>8, <2>11, <2>12, <2>13
<1>6. ASSUME NEW x \in Int, (a[1] < x /\ x < b[1]) \/ (b[1] < x /\ x < a[1])
      PROVE  AtX(a, b, x) \in Enclosed(T, s, m + 1, n)
  <2> DEFINE c == AtX(a, b, x)
  <2>1. a[1] # b[1] /\ ((a[1] <= x /\ x <= b[1]) \/ (b[1] <= x /\ x <= a[1]))
    BY <1>2, <1>6
  <2>2. CutInColumn(a, b, a, b, x, c)
    BY <1>1, <1>3, <2>1, CutAtX
  <2> HIDE DEF c
  <2>3. c \in Points /\ InOrder(a, b, a, c)
    BY <2>2 DEF CutInColumn
  <2>4. 0 - X <= Tilt(a, b, c) /\ Tilt(a, b, c) <= 0
    BY <1>3, <1>4, <2>2 DEF CutInColumn
  <2>5. X # 0 /\ -X = 0 - X
    <3>1. X # 0
      BY <1>2, <1>4, <2>1 DEF Abs
    <3> QED BY <3>1
  <2> QED BY <1>5, <2>3, <2>4, <2>5 DEF c, Enclosed
<1>7. ASSUME NEW y \in Int, (a[2] < y /\ y < b[2]) \/ (b[2] < y /\ y < a[2])
      PROVE  AtY(a, b, y) \in Enclosed(T, s, m, n + 1)
  <2> DEFINE c == AtY(a, b, y)
  <2>1. a[2] # b[2] /\ ((a[2] <= y /\ y <= b[2]) \/ (b[2] <= y /\ y <= a[2]))
    BY <1>2, <1>7
  <2>2. CutInRow(a, b, a, b, y, c)
    BY <1>1, <1>3, <2>1, CutAtY
  <2> HIDE DEF c
  <2>3. c \in Points /\ InOrder(a, b, a, c)
    BY <2>2 DEF CutInRow
  <2>4. 0 <= Tilt(a, b, c) /\ Tilt(a, b, c) <= 0 + Y
    BY <1>3, <1>4, <2>2 DEF CutInRow
  <2>5. Y # 0 /\ 0 + Y = Y
    BY <1>2, <1>4, <2>1 DEF Abs
  <2> QED BY <1>5, <2>3, <2>4, <2>5 DEF c, Enclosed
<1> QED BY <1>6, <1>7

\* A polygon of points of S, cut at one side.
LEMMA CutKeeps ==
  ASSUME NEW Q, NEW S, S \subseteq Q, NEW h, \A z \in Q : Value(h, z) \in Int,
         \A a, b \in S : (Value(h, a) > 0 /\ Value(h, b) < 0) \/ (Value(h, a) < 0 /\ Value(h, b) > 0)
            => CrossingOf(h, a, b) \in Q /\ Value(h, CrossingOf(h, a, b)) = 0,
         NEW F \in Seq(S)
  PROVE  clip_H(F, h[1], h[2], h[3]) \in Seq(Q)
<1> DEFINE L == S \X S
           M == Q \X Q
           G == clip_H(F, h[1], h[2], h[3])
<1>1. LinksSide(h, Q, M)
  BY DEF LinksSide
<1>2. \A a, b \in Q : <<a, b>> \in L => CutsEdge(h, Q, M, a, b)
  BY DEF CutsEdge
<1>3. Len(F) \in Nat /\ (\A j \in 1 .. Len(F) : F[j] \in S) /\ F \in Seq(Q)
  <2>1. Len(F) \in Nat /\ F = [j \in 1 .. Len(F) |-> F[j]] /\ \A j \in 1 .. Len(F) : F[j] \in S
    OBVIOUS
  <2>2. \A j \in 1 .. Len(F) : F[j] \in Q
    BY <2>1
  <2> QED BY <2>1, <2>2
<1>4. Outlined(F, Q, L)
  <2>1. ASSUME NEW j \in 1 .. Len(F) PROVE <<F[j], Following(F, j)>> \in L
    <3>1. 1 \in 1 .. Len(F) /\ (j # Len(F) => j + 1 \in 1 .. Len(F))
      BY <1>3
    <3> QED BY <1>3, <3>1 DEF Following
  <2> QED BY <1>3, <2>1 DEF Outlined
<1> HIDE DEF L, M
<1>5. Outlined(G, Within(Q, h), M)
  BY <1>1, <1>2, <1>4, ClipOutlines
<1> HIDE DEF G
<1>6. G \in Seq(Within(Q, h))
  BY <1>5 DEF Outlined
<1>7. Len(G) \in Nat /\ G = [j \in 1 .. Len(G) |-> G[j]] /\ \A j \in 1 .. Len(G) : G[j] \in Within(Q, h)
  BY <1>6
<1>8. \A j \in 1 .. Len(G) : G[j] \in Q
  BY <1>7 DEF Within
<1>9. G \in Seq(Q)
  BY <1>7, <1>8
<1> QED BY <1>9 DEF G

LEMMA EnclosedMore ==
  ASSUME NEW T, NEW s \in {-1, 1}, NEW m \in Nat, NEW n \in Nat
  PROVE  /\ Enclosed(T, s, m, n) \subseteq Enclosed(T, s, m + 1, n)
         /\ Enclosed(T, s, m, n) \subseteq Enclosed(T, s, m, n + 1)
<1> SUFFICES ASSUME NEW z \in Enclosed(T, s, m, n), NEW p \in Points, NEW q \in Points, <<p, q>> \in T
             PROVE  /\ -((m + 1) * Abs(q[1] - p[1]) + n * Abs(q[2] - p[2])) <= s * Cross(p, q, z)
                    /\ -(m * Abs(q[1] - p[1]) + (n + 1) * Abs(q[2] - p[2])) <= s * Cross(p, q, z)
  BY DEF Enclosed
<1>1. PICK U \in Nat, V \in Nat : U = Abs(q[1] - p[1]) /\ V = Abs(q[2] - p[2])
  BY AheadIs
<1>2. z \in Points /\ -(m * U + n * V) <= s * Cross(p, q, z)
  BY <1>1 DEF Enclosed
<1>3. PICK N \in Nat, C \in Int : N = m * U + n * V /\ C = s * Cross(p, q, z)
  <2>1. m * U + n * V \in Nat /\ s * Cross(p, q, z) \in Int
    BY <1>2, ProductSign, TwoEdgesSigned
  <2> QED BY <2>1
<1>4. (m + 1) * U + n * V = N + U /\ m * U + (n + 1) * V = N + V
  BY <1>3
<1>5. -(N + U) <= C /\ -(N + V) <= C
  BY <1>2, <1>3
<1> QED BY <1>1, <1>3, <1>4, <1>5

\* A polygon of points that are not far outside, cut at a side of the screen.
LEMMA CutEncloses ==
  ASSUME NEW T, NEW s \in {-1, 1}, NEW m \in Nat, NEW n \in Nat, NEW F \in Seq(Enclosed(T, s, m, n)),
         NEW e \in {-1, 1}, NEW x \in Int, NEW h
  PROVE  /\ h = ColumnSide(e, x) => clip_H(F, h[1], h[2], h[3]) \in Seq(Enclosed(T, s, m + 1, n))
         /\ h = RowSide(e, x) => clip_H(F, h[1], h[2], h[3]) \in Seq(Enclosed(T, s, m, n + 1))
<1> DEFINE S == Enclosed(T, s, m, n)
<1>1. \A u \in Int : /\ e * (u - x) \in Int
                     /\ e * (u - x) = 0 <=> u = x
                     /\ e * (u - x) > 0 <=> (e = 1 /\ u > x) \/ (e = -1 /\ u < x)
                     /\ e * (u - x) < 0 <=> (e = 1 /\ u < x) \/ (e = -1 /\ u > x)
  <2> SUFFICES ASSUME NEW u \in Int
               PROVE  /\ e * (u - x) \in Int
                      /\ e * (u - x) = 0 <=> u = x
                      /\ e * (u - x) > 0 <=> (e = 1 /\ u > x) \/ (e = -1 /\ u < x)
                      /\ e * (u - x) < 0 <=> (e = 1 /\ u < x) \/ (e = -1 /\ u > x)
    OBVIOUS
  <2>1. CASE e = 1
    BY <2>1
  <2>2. CASE e = -1
    BY <2>2
  <2> QED BY <2>1, <2>2
<1>2. \A u, v \in Int : (e * (u - x) > 0 /\ e * (v - x) < 0) \/ (e * (u - x) < 0 /\ e * (v - x) > 0)
                        => u # v /\ ((u < x /\ x < v) \/ (v < x /\ x < u))
  BY <1>1
<1>3. \A z \in Points : z[1] \in Int /\ z[2] \in Int
  BY DEF Points
<1>4. S \subseteq Points /\ Enclosed(T, s, m + 1, n) \subseteq Points /\ Enclosed(T, s, m, n + 1) \subseteq Points
  BY DEF Enclosed
<1>5. ASSUME h = ColumnSide(e, x)
      PROVE  clip_H(F, h[1], h[2], h[3]) \in Seq(Enclosed(T, s, m + 1, n))
  <2> DEFINE Q == Enclosed(T, s, m + 1, n)
  <2>1. /\ \A z \in Points : Value(h, z) = e * (z[1] - x)
        /\ \A p, q \in Points : p[1] # q[1] => CrossingOf(h, p, q) = AtX(p, q, x)
    BY <1>5, ColumnSideIs
  <2>2. ASSUME NEW a \in S, NEW b \in S,
               (Value(h, a) > 0 /\ Value(h, b) < 0) \/ (Value(h, a) < 0 /\ Value(h, b) > 0)
        PROVE  CrossingOf(h, a, b) \in Q /\ Value(h, CrossingOf(h, a, b)) = 0
    <3>1. a \in Points /\ b \in Points
      BY <1>4
    <3>2. a[1] # b[1] /\ ((a[1] < x /\ x < b[1]) \/ (b[1] < x /\ x < a[1]))
      BY <1>2, <1>3, <2>1, <2>2, <3>1
    <3> DEFINE c == AtX(a, b, x)
    <3>3. c \in Q
      BY <3>2, CutIsEnclosed
    <3>4. c[1] = x
      BY DEF AtX
    <3>5. CrossingOf(h, a, b) = c
      BY <2>1, <3>1, <3>2
    <3> HIDE DEF c, Q
    <3> QED BY <1>1, <1>4, <2>1, <3>3, <3>4, <3>5 DEF Q
  <2>3. S \subseteq Q
    BY EnclosedMore
  <2>4. \A z \in Q : Value(h, z) \in Int
    BY <1>1, <1>3, <1>4, <2>1
  <2> HIDE DEF S, Q
  <2>5. clip_H(F, h[1], h[2], h[3]) \in Seq(Q)
    BY <2>2, <2>3, <2>4, CutKeeps DEF S
  <2> QED BY <2>5 DEF Q
<1>6. ASSUME h = RowSide(e, x)
      PROVE  clip_H(F, h[1], h[2], h[3]) \in Seq(Enclosed(T, s, m, n + 1))
  <2> DEFINE Q == Enclosed(T, s, m, n + 1)
  <2>1. /\ \A z \in Points : Value(h, z) = e * (z[2] - x)
        /\ \A p, q \in Points : p[2] # q[2] => CrossingOf(h, p, q) = AtY(p, q, x)
    BY <1>6, RowSideIs
  <2>2. ASSUME NEW a \in S, NEW b \in S,
               (Value(h, a) > 0 /\ Value(h, b) < 0) \/ (Value(h, a) < 0 /\ Value(h, b) > 0)
        PROVE  CrossingOf(h, a, b) \in Q /\ Value(h, CrossingOf(h, a, b)) = 0
    <3>1. a \in Points /\ b \in Points
      BY <1>4
    <3>2. a[2] # b[2] /\ ((a[2] < x /\ x < b[2]) \/ (b[2] < x /\ x < a[2]))
      BY <1>2, <1>3, <2>1, <2>2, <3>1
    <3> DEFINE c == AtY(a, b, x)
    <3>3. c \in Q
      BY <3>2, CutIsEnclosed
    <3>4. c[2] = x
      BY DEF AtY
    <3>5. CrossingOf(h, a, b) = c
      BY <2>1, <3>1, <3>2
    <3> HIDE DEF c, Q
    <3> QED BY <1>1, <1>4, <2>1, <3>3, <3>4, <3>5 DEF Q
  <2>3. S \subseteq Q
    BY EnclosedMore
  <2>4. \A z \in Q : Value(h, z) \in Int
    BY <1>1, <1>3, <1>4, <2>1
  <2> HIDE DEF S, Q
  <2>5. clip_H(F, h[1], h[2], h[3]) \in Seq(Q)
    BY <2>2, <2>3, <2>4, CutKeeps DEF S
  <2> QED BY <2>5 DEF Q
<1> QED BY <1>5, <1>6

\* No corner of a triangle that is cut to the screen is further outside of an edge than twice its
\* width and twice its height make.
LEMMA ClipEncloses ==
  ASSUME NEW T, NEW s \in {-1, 1}, NEW points \in Seq(Enclosed(T, s, 0, 0))
  PROVE  GL_clip(points, 0, 0, GL_width - 1, GL_height - 1) \in Seq(Enclosed(T, s, 2, 2))
<1> DEFINE X == GL_width - 1
           Y == GL_height - 1
           h1 == ColumnSide(1, 0)
           h2 == ColumnSide(-1, X)
           h3 == RowSide(1, 0)
           h4 == RowSide(-1, Y)
           F1 == clip_H(points, h1[1], h1[2], h1[3])
           F2 == clip_H(F1, h2[1], h2[2], h2[3])
           F3 == clip_H(F2, h3[1], h3[2], h3[3])
           F4 == clip_H(F3, h4[1], h4[2], h4[3])
<1>1. X \in Int /\ Y \in Int /\ 1 \in {-1, 1} /\ -1 \in {-1, 1} /\ 0 \in Int /\ 0 + 1 = 1 /\ 1 + 1 = 2
  BY ScreenSizes
<1>2. GL_clip(points, 0, 0, X, Y) = F4
  <2>1. h1 = ColumnSide(1, 0) /\ h2 = ColumnSide(-1, X) /\ h3 = RowSide(1, 0) /\ h4 = RowSide(-1, Y)
    OBVIOUS
  <2> HIDE DEF X, Y, h1, h2, h3, h4
  <2>2. F1 = clip_H(points, h1[1], h1[2], h1[3])
    OBVIOUS
  <2> HIDE DEF F1
  <2>3. F2 = clip_H(F1, h2[1], h2[2], h2[3])
    OBVIOUS
  <2> HIDE DEF F2
  <2>4. F3 = clip_H(F2, h3[1], h3[2], h3[3])
    OBVIOUS
  <2> HIDE DEF F3
  <2>5. F4 = clip_H(F3, h4[1], h4[2], h4[3])
    OBVIOUS
  <2> HIDE DEF F4
  <2> QED BY <1>1, <2>1, <2>2, <2>3, <2>4, <2>5, ClipsAre
<1> HIDE DEF h1, h2, h3, h4, X, Y
<1>3. F1 \in Seq(Enclosed(T, s, 1, 0))
  BY <1>1, CutEncloses DEF h1
<1> HIDE DEF F1
<1>4. F2 \in Seq(Enclosed(T, s, 2, 0))
  BY <1>1, <1>3, CutEncloses DEF h2
<1> HIDE DEF F2
<1>5. F3 \in Seq(Enclosed(T, s, 2, 1))
  BY <1>1, <1>4, CutEncloses DEF h3
<1> HIDE DEF F3
<1>6. F4 \in Seq(Enclosed(T, s, 2, 2))
  BY <1>1, <1>5, CutEncloses DEF h4
<1> HIDE DEF F4
<1> QED BY <1>2, <1>6 DEF X, Y

-------------------------------------------------------------------------------
(* Figures: the spans of a polygon.                                        *)

LEMMA ExtremesExist ==
  ASSUME NEW m \in Nat, NEW S \in SUBSET (0 .. m), S # {}
  PROVE  /\ Max(S) \in S /\ \A y \in S : Max(S) >= y
         /\ Min(S) \in S /\ \A y \in S : Min(S) <= y
<1> DEFINE ends(A) == (\E x \in A : \A y \in A : x >= y) /\ (\E x \in A : \A y \in A : x <= y)
           T == {k \in Nat : \A A \in SUBSET (0 .. k) : A # {} => ends(A)}
<1>1. 0 \in T
  <2>1. ASSUME NEW A \in SUBSET (0 .. 0), A # {} PROVE ends(A)
    <3>1. \A y \in 0 .. 0 : y = 0
      OBVIOUS
    <3>2. \A y \in A : y \in 0 .. 0
      OBVIOUS
    <3>3. \A x, y \in A : x >= y /\ x <= y
      BY <3>1, <3>2
    <3>4. \E x \in A : TRUE
      BY <2>1
    <3> QED BY <3>3, <3>4
  <2> QED BY <2>1
<1>2. ASSUME NEW k \in Nat, k \in T PROVE k + 1 \in T
  <2>1. ASSUME NEW A \in SUBSET (0 .. k + 1), A # {} PROVE ends(A)
    <3> DEFINE B == A \ {k + 1}
    <3>1. B \in SUBSET (0 .. k) /\ \A y \in A : y \in Int /\ y <= k + 1
      OBVIOUS
    <3>2. CASE B = {}
      <4>1. k + 1 \in A /\ \A y \in A : y = k + 1
        BY <2>1, <3>2
      <4> QED BY <4>1
    <3>3. CASE B # {}
      <4>1. ends(B)
        BY <1>2, <3>1, <3>3
      <4>2. PICK x \in B : \A y \in B : x >= y
        BY <4>1
      <4>3. PICK z \in B : \A y \in B : z <= y
        BY <4>1
      <4>4. \E w \in A : \A y \in A : w >= y
        <5>1. CASE k + 1 \in A
          BY <3>1, <5>1
        <5>2. CASE k + 1 \notin A
          BY <4>2, <5>2
        <5> QED BY <5>1, <5>2
      <4>5. \A y \in A : z <= y
        BY <3>1, <4>3
      <4> QED BY <4>3, <4>4, <4>5
    <3> QED BY <3>2, <3>3
  <2> HIDE DEF ends
  <2> QED BY <2>1
<1>3. m \in T
  <2> HIDE DEF T
  <2> QED BY <1>1, <1>2, SetInduction
<1>4. (\E x \in S : \A y \in S : x >= y) /\ (\E x \in S : \A y \in S : x <= y)
  BY <1>3
<1> QED BY <1>4 DEF Max, Min

\* The spans after each edge.
SpansAfter(f, n, points, clockwise, garbage) ==
    LET any == [y \in 0 .. GL_height - 1 |-> garbage]
    IN /\ f[0] = [left |-> any, right |-> any]
       /\ \A i \in 1 .. n : f[i] = WithEdge(f[i - 1], points[i], Following(points, i), clockwise)

LEMMA SpansAreFolded ==
  ASSUME NEW n \in Nat, NEW points, Len(points) = n, NEW clockwise, NEW garbage
  PROVE  \E f : Spans(points, clockwise, garbage) = f[n] /\ SpansAfter(f, n, points, clockwise, garbage)
<1> DEFINE any == [y \in 0 .. GL_height - 1 |-> garbage]
           base == [left |-> any, right |-> any]
           seq == [i \in 1 .. Len(points) |-> i]
           D == DOMAIN seq
           op(x, i) == WithEdge(x, points[i], Following(points, i), clockwise)
           body(g) == [s \in SUBSET D |-> IF s = {} THEN base ELSE op(g[s \ {Max(s)}], seq[Max(s)])]
           fold == CHOOSE g : g = body(g)
           good(g, m) == /\ g = [s \in SUBSET (1 .. m) |-> g[s]]
                         /\ g[{}] = base
                         /\ \A s \in SUBSET (1 .. m) : s # {} => g[s] = op(g[s \ {Max(s)}], Max(s))
           T == {m \in Nat : \E g : good(g, m)}
<1>1. Spans(points, clockwise, garbage) = fold[D]
  BY DEF Spans, FoldLeft, MapThenFoldSet
<1>2. D = 1 .. n /\ \A i \in D : seq[i] = i
  OBVIOUS
<1> HIDE DEF base, op, seq, D
<1>3. ASSUME NEW m \in Nat, NEW s \in SUBSET (1 .. m), s # {}
      PROVE  Max(s) \in s /\ \A y \in s : Max(s) >= y
  <2>1. s \in SUBSET (0 .. m)
    OBVIOUS
  <2> QED BY <1>3, <2>1, ExtremesExist
<1>4. 0 \in T
  <2> DEFINE e == [s \in SUBSET (1 .. 0) |-> base]
  <2>1. good(e, 0)
    <3>1. \A s \in SUBSET (1 .. 0) : s = {}
      OBVIOUS
    <3>2. e = [s \in SUBSET (1 .. 0) |-> e[s]] /\ e[{}] = base
      OBVIOUS
    <3> HIDE DEF e
    <3> QED BY <3>1, <3>2
  <2> HIDE DEF good, e
  <2> QED BY <2>1
<1>5. ASSUME NEW m \in Nat, m \in T PROVE m + 1 \in T
  <2>1. PICK g : good(g, m)
    BY <1>5
  <2> DEFINE h == [s \in SUBSET (1 .. m + 1) |-> IF s = {} THEN base ELSE op(g[s \ {Max(s)}], Max(s))]
  <2>2. h = [s \in SUBSET (1 .. m + 1) |-> h[s]] /\ h[{}] = base
    OBVIOUS
  <2>3. ASSUME NEW s \in SUBSET (1 .. m) PROVE h[s] = g[s]
    <3>1. s \in SUBSET (1 .. m + 1)
      OBVIOUS
    <3>2. h[s] = IF s = {} THEN base ELSE op(g[s \ {Max(s)}], Max(s))
      BY <3>1
    <3>3. g[{}] = base /\ (s # {} => g[s] = op(g[s \ {Max(s)}], Max(s)))
      BY <2>1
    <3> HIDE DEF h
    <3>4. CASE s = {}
      BY <3>2, <3>3, <3>4
    <3>5. CASE s # {}
      BY <3>2, <3>3, <3>5, Zenon
    <3> QED BY <3>4, <3>5
  <2>4. ASSUME NEW s \in SUBSET (1 .. m + 1), s # {} PROVE h[s] = op(h[s \ {Max(s)}], Max(s))
    <3>1. Max(s) \in s /\ \A y \in s : Max(s) >= y
      <4>1. m + 1 \in Nat
        OBVIOUS
      <4> QED BY <1>3, <2>4, <4>1
    <3>2. s \ {Max(s)} \in SUBSET (1 .. m)
      <4>1. PICK x : x = Max(s)
        OBVIOUS
      <4>2. x \in 1 .. m + 1 /\ \A y \in s : y \in 1 .. m + 1 /\ x >= y
        BY <3>1, <4>1
      <4>3. \A y \in s : y # x => y \in 1 .. m
        BY <4>2
      <4> QED BY <4>1, <4>3
    <3>3. h[s] = op(g[s \ {Max(s)}], Max(s))
      BY <2>4
    <3> HIDE DEF h
    <3> QED BY <2>3, <3>2, <3>3
  <2>5. good(h, m + 1)
    <3> HIDE DEF h
    <3> QED BY <2>2, <2>4
  <2> HIDE DEF good, h
  <2> QED BY <2>5
<1>6. n \in T
  <2> HIDE DEF T
  <2>1. Nat \subseteq T
    BY <1>4, <1>5, SetInduction
  <2> QED BY <2>1
<1>7. fold = body(fold)
  <2>1. PICK g : good(g, n)
    BY <1>6
  <2>2. g = body(g)
    <3> DEFINE b == body(g)
    <3>1. b = [s \in SUBSET D |-> b[s]]
      OBVIOUS
    <3>2. g = [s \in SUBSET D |-> g[s]]
      BY <1>2, <2>1
    <3>3. ASSUME NEW s \in SUBSET D PROVE g[s] = b[s]
      <4>1. b[s] = IF s = {} THEN base ELSE op(g[s \ {Max(s)}], seq[Max(s)])
        OBVIOUS
      <4>2. g[{}] = base /\ (s # {} => g[s] = op(g[s \ {Max(s)}], Max(s)))
        BY <1>2, <2>1
      <4>3. s # {} => seq[Max(s)] = Max(s)
        BY <1>2, <1>3
      <4> HIDE DEF b
      <4>4. CASE s = {}
        BY <4>1, <4>2, <4>4
      <4>5. CASE s # {}
        BY <4>1, <4>2, <4>3, <4>5, Zenon
      <4> QED BY <4>4, <4>5
    <3> HIDE DEF b
    <3>4. g = b
      BY <3>1, <3>2, <3>3
    <3> QED BY <3>4 DEF b
  <2> HIDE DEF body
  <2> QED BY <2>2
<1> HIDE DEF fold, good, T
<1>8. \A s \in SUBSET D : fold[s] = IF s = {} THEN base ELSE op(fold[s \ {Max(s)}], seq[Max(s)])
  BY <1>7
<1> DEFINE f == [i \in 0 .. n |-> fold[1 .. i]]
<1>9. f[0] = base
  <2>1. 1 .. 0 = {} /\ {} \in SUBSET D /\ 0 \in 0 .. n
    OBVIOUS
  <2> QED BY <1>8, <2>1
<1>10. ASSUME NEW i \in 1 .. n PROVE f[i] = op(f[i - 1], i)
  <2>1. 1 .. i \in SUBSET (1 .. n) /\ 1 .. i # {} /\ i \in 1 .. i /\ i \in 0 .. n /\ i - 1 \in 0 .. n /\ i \in Int
    <3>1. i \in 1 .. i /\ i \in 0 .. n /\ i - 1 \in 0 .. n /\ i \in Int
      OBVIOUS
    <3>2. 1 .. i \in SUBSET (1 .. n)
      OBVIOUS
    <3> QED BY <3>1, <3>2
  <2>2. Max(1 .. i) = i
    <3>1. Max(1 .. i) \in 1 .. i /\ Max(1 .. i) >= i
      BY <1>3, <2>1
    <3> QED BY <2>1, <3>1
  <2>3. (1 .. i) \ {i} = 1 .. i - 1
    OBVIOUS
  <2>4. fold[1 .. i] = op(fold[1 .. i - 1], i)
    <3>1. 1 .. i \in SUBSET D /\ i \in D
      BY <1>2, <2>1
    <3>2. fold[1 .. i] = op(fold[(1 .. i) \ {Max(1 .. i)}], seq[Max(1 .. i)])
      BY <1>8, <2>1, <3>1, Zenon
    <3>3. seq[i] = i
      BY <1>2, <3>1
    <3> QED BY <2>2, <2>3, <3>2, <3>3, Zenon
  <2>5. f[i] = fold[1 .. i] /\ f[i - 1] = fold[1 .. i - 1]
    BY <2>1
  <2> QED BY <2>4, <2>5
<1>11. f[n] = fold[D]
  BY <1>2
<1> HIDE DEF f
<1>12. SpansAfter(f, n, points, clockwise, garbage)
  BY <1>9, <1>10 DEF SpansAfter, op, base
<1> QED BY <1>1, <1>11, <1>12

\* An edge of a polygon stores a side of row y.
LeftStored(points, i, clockwise, y) ==
    OnTheLeft(points[i], Following(points, i), clockwise) /\ Stores(points[i], Following(points, i), y)

RightStored(points, i, clockwise, y) ==
    OnTheRight(points[i], Following(points, i), clockwise) /\ Stores(points[i], Following(points, i), y)

\* The first k edges have left places of O at both sides of the rows that they store.
HoldsPlaces(O, points, k, clockwise, spans) ==
    \E l, r :
        /\ spans = [left |-> l, right |-> r]
        /\ l = [y \in 0 .. GL_height - 1 |-> l[y]] /\ r = [y \in 0 .. GL_height - 1 |-> r[y]]
        /\ \A y \in 0 .. GL_height - 1 :
              /\ (\E i \in 1 .. k : LeftStored(points, i, clockwise, y)) => <<l[y], y>> \in O
              /\ (\E i \in 1 .. k : RightStored(points, i, clockwise, y)) => <<r[y], y>> \in O

\* What a polygon stores, one edge after the other, is in O if what each of its edges stores is.
LEMMA SpansHold ==
  ASSUME NEW n \in Nat, NEW points, Len(points) = n, NEW clockwise, NEW garbage, NEW O,
         \A i \in 1 .. n, y \in 0 .. GL_height - 1 :
            Stores(points[i], Following(points, i), y) =>
               /\ <<FirstColumn(points[i], Following(points, i), y), y>> \in O
               /\ <<LastColumn(points[i], Following(points, i), y), y>> \in O
  PROVE  HoldsPlaces(O, points, n, clockwise, Spans(points, clockwise, garbage))
<1> DEFINE any == [y \in 0 .. GL_height - 1 |-> garbage]
           rows == 0 .. GL_height - 1
<1>1. PICK f : /\ Spans(points, clockwise, garbage) = f[n]
               /\ SpansAfter(f, n, points, clockwise, garbage)
  BY SpansAreFolded
<1> DEFINE T == {k \in Nat : k \in 0 .. n => HoldsPlaces(O, points, k, clockwise, f[k])}
<1>2. 0 \in T
  <2>1. f[0] = [left |-> any, right |-> any]
    BY <1>1 DEF SpansAfter
  <2>2. any = [y \in rows |-> any[y]]
    OBVIOUS
  <2>3. \A i : i \notin 1 .. 0
    OBVIOUS
  <2> HIDE DEF any
  <2>4. HoldsPlaces(O, points, 0, clockwise, f[0])
    BY <2>1, <2>2, <2>3 DEF HoldsPlaces
  <2> QED BY <2>4
<1>3. ASSUME NEW k \in Nat, k \in T PROVE k + 1 \in T
  <2> SUFFICES ASSUME k + 1 \in 0 .. n PROVE HoldsPlaces(O, points, k + 1, clockwise, f[k + 1])
    OBVIOUS
  <2>1. k \in 0 .. n /\ k + 1 \in 1 .. n /\ (k + 1) - 1 = k
    OBVIOUS
  <2>2. HoldsPlaces(O, points, k, clockwise, f[k])
    BY <1>3, <2>1
  <2>3. PICK l, r :
           /\ f[k] = [left |-> l, right |-> r]
           /\ l = [y \in rows |-> l[y]] /\ r = [y \in rows |-> r[y]]
           /\ \A y \in rows :
                 /\ (\E i \in 1 .. k : LeftStored(points, i, clockwise, y)) => <<l[y], y>> \in O
                 /\ (\E i \in 1 .. k : RightStored(points, i, clockwise, y)) => <<r[y], y>> \in O
    BY <2>2 DEF HoldsPlaces
  <2>4. PICK p, q : p = points[k + 1] /\ q = Following(points, k + 1)
    OBVIOUS
  <2>5. f[k + 1] = WithEdge([left |-> l, right |-> r], p, q, clockwise)
    BY <1>1, <2>1, <2>3, <2>4 DEF SpansAfter
  <2>6. DOMAIN l = rows /\ DOMAIN r = rows
    BY <2>3
  <2> DEFINE L == LeftAfter(l, p, q, clockwise)
             R == RightAfter(r, p, q, clockwise)
  <2>7. f[k + 1] = [left |-> L, right |-> R]
    <3>1. l = [y \in DOMAIN l |-> l[y]] /\ r = [y \in DOMAIN r |-> r[y]]
      BY <2>3, <2>6, Zenon
    <3> QED BY <2>5, <3>1, EdgeStores
  <2>8. /\ L = [y \in rows |-> L[y]] /\ R = [y \in rows |-> R[y]]
        /\ \A y \in rows :
              /\ L[y] = IF OnTheLeft(p, q, clockwise) /\ Stores(p, q, y) THEN FirstColumn(p, q, y) ELSE l[y]
              /\ R[y] = IF OnTheRight(p, q, clockwise) /\ Stores(p, q, y) THEN LastColumn(p, q, y) ELSE r[y]
    BY <2>6 DEF LeftAfter, RightAfter
  <2> HIDE DEF L, R
  <2>9. ASSUME NEW y \in rows
        PROVE  /\ (\E i \in 1 .. k + 1 : LeftStored(points, i, clockwise, y)) => <<L[y], y>> \in O
               /\ (\E i \in 1 .. k + 1 : RightStored(points, i, clockwise, y)) => <<R[y], y>> \in O
    <3>1. Stores(p, q, y) => <<FirstColumn(p, q, y), y>> \in O /\ <<LastColumn(p, q, y), y>> \in O
      BY <2>1, <2>4
    <3>2. \A i \in 1 .. k + 1 : i = k + 1 \/ i \in 1 .. k
      OBVIOUS
    <3>3. ASSUME NEW i \in 1 .. k + 1, LeftStored(points, i, clockwise, y) PROVE <<L[y], y>> \in O
      <4>1. CASE OnTheLeft(p, q, clockwise) /\ Stores(p, q, y)
        BY <2>8, <3>1, <4>1
      <4>2. CASE ~(OnTheLeft(p, q, clockwise) /\ Stores(p, q, y))
        <5>1. i \in 1 .. k
          BY <2>4, <3>2, <3>3, <4>2 DEF LeftStored
        <5>2. L[y] = l[y]
          BY <2>8, <4>2
        <5> QED BY <2>3, <3>3, <5>1, <5>2
      <4> QED BY <4>1, <4>2
    <3>4. ASSUME NEW i \in 1 .. k + 1, RightStored(points, i, clockwise, y) PROVE <<R[y], y>> \in O
      <4>1. CASE OnTheRight(p, q, clockwise) /\ Stores(p, q, y)
        BY <2>8, <3>1, <4>1
      <4>2. CASE ~(OnTheRight(p, q, clockwise) /\ Stores(p, q, y))
        <5>1. i \in 1 .. k
          BY <2>4, <3>2, <3>4, <4>2 DEF RightStored
        <5>2. R[y] = r[y]
          BY <2>8, <4>2
        <5> QED BY <2>3, <3>4, <5>1, <5>2
      <4> QED BY <4>1, <4>2
    <3> QED BY <3>3, <3>4
  <2> QED BY <2>7, <2>8, <2>9 DEF HoldsPlaces
<1>4. n \in T
  <2> HIDE DEF T
  <2>1. Nat \subseteq T
    BY <1>2, <1>3, SetInduction
  <2> QED BY <2>1
<1> QED BY <1>1, <1>4

\* Round a polygon, from a corner of S to one that is not in S: some edge leaves S.
LEMMA SomeEdgeLeaves ==
  ASSUME NEW n \in Nat, NEW points, Len(points) = n, NEW S, NEW i \in 1 .. n, points[i] \in S,
         NEW j \in 1 .. n, points[j] \notin S
  PROVE  \E k \in 1 .. n : points[k] \in S /\ Following(points, k) \notin S
<1> SUFFICES ASSUME \A k \in 1 .. n : points[k] \in S => Following(points, k) \in S
             PROVE  FALSE
  OBVIOUS
<1>1. ASSUME NEW a \in 1 .. n, points[a] \in S
      PROVE  \A b \in a .. n : points[b] \in S
  <2> DEFINE T == {m \in Nat : a + m \in 1 .. n => points[a + m] \in S}
  <2>1. 0 \in T
    <3>1. a + 0 = a
      OBVIOUS
    <3> QED BY <1>1, <3>1
  <2>2. ASSUME NEW m \in Nat, m \in T PROVE m + 1 \in T
    <3> SUFFICES ASSUME a + (m + 1) \in 1 .. n PROVE points[a + (m + 1)] \in S
      OBVIOUS
    <3>1. a + m \in 1 .. n /\ a + m # n /\ (a + m) + 1 = a + (m + 1)
      OBVIOUS
    <3>2. points[a + m] \in S
      BY <2>2, <3>1
    <3>3. Following(points, a + m) = points[a + (m + 1)]
      BY <3>1 DEF Following
    <3> QED BY <3>1, <3>2, <3>3
  <2>3. Nat \subseteq T
    <3> HIDE DEF T
    <3> QED BY <2>1, <2>2, SetInduction
  <2>4. ASSUME NEW b \in a .. n PROVE points[b] \in S
    <3>1. b - a \in Nat /\ a + (b - a) = b /\ b \in 1 .. n
      OBVIOUS
    <3> QED BY <2>3, <3>1
  <2> QED BY <2>4
<1>2. n \in 1 .. n /\ 1 \in 1 .. n /\ n \in i .. n /\ j \in 1 .. n
  OBVIOUS
<1>3. points[n] \in S
  BY <1>1, <1>2
<1>4. points[1] \in S
  <2>1. Following(points, n) = points[1]
    BY DEF Following
  <2> QED BY <1>2, <1>3, <2>1
<1> QED BY <1>1, <1>2, <1>4

\* An edge across a row stores one side, and one back across it the other.
LEMMA EdgeAcross ==
  ASSUME NEW u \in Points, NEW v \in Points, NEW clockwise, NEW y \in Int, v[2] <= y, y <= u[2],
         FGA_mode = GL_MODE_OLED => y # 0
  PROVE  /\ Stores(u, v, y) /\ Stores(v, u, y)
         /\ IF clockwise > 0 THEN OnTheLeft(u, v, clockwise) /\ OnTheRight(v, u, clockwise)
            ELSE OnTheRight(u, v, clockwise) /\ OnTheLeft(v, u, clockwise)
<1>1. u[2] \in Int /\ v[2] \in Int
  BY DEF Points
<1>2. y \in RowsOf(u, v) /\ y \in RowsOf(v, u)
  BY InRows
<1>3. Stores(u, v, y) /\ Stores(v, u, y)
  BY <1>1, <1>2 DEF Stores
<1>4. u[2] = v[2] \/ (u[2] > v[2] /\ ~(v[2] > u[2]))
  BY <1>1
<1>5. /\ clockwise > 0 => OnTheLeft(u, v, clockwise) /\ OnTheRight(v, u, clockwise)
      /\ ~(clockwise > 0) => OnTheRight(u, v, clockwise) /\ OnTheLeft(v, u, clockwise)
  BY <1>4 DEF OnTheLeft, OnTheRight
<1> QED BY <1>3, <1>5

\* In every row between the highest and the lowest corner a polygon stores both sides.
LEMMA RingStoresBothSides ==
  ASSUME NEW n \in Nat, NEW points, Len(points) = n, \A i \in 1 .. n : points[i] \in Points,
         NEW clockwise, NEW y \in Int, FGA_mode = GL_MODE_OLED => y # 0,
         NEW a \in 1 .. n, points[a][2] <= y, NEW b \in 1 .. n, y <= points[b][2]
  PROVE  /\ \E i \in 1 .. n : LeftStored(points, i, clockwise, y)
         /\ \E i \in 1 .. n : RightStored(points, i, clockwise, y)
<1> DEFINE next(i) == Following(points, i)
<1>1. \A i \in 1 .. n : points[i] \in Points /\ points[i][2] \in Int /\ next(i) \in Points /\ next(i)[2] \in Int
  <2> SUFFICES ASSUME NEW i \in 1 .. n PROVE next(i) \in Points
    BY DEF Points
  <2>1. 1 \in 1 .. n /\ (i # n => i + 1 \in 1 .. n)
    OBVIOUS
  <2> QED BY <2>1 DEF Following
<1>2. \E i \in 1 .. n : points[i][2] <= y /\ y <= next(i)[2]
  <2> DEFINE S == {z \in Points : z[2] < y}
  <2>1. CASE \E i \in 1 .. n : points[i] \in S
    <3>1. PICK i \in 1 .. n : points[i] \in S
      BY <2>1
    <3>2. points[b] \notin S
      BY <1>1
    <3> HIDE DEF S
    <3>3. PICK k \in 1 .. n : points[k] \in S /\ next(k) \notin S
      BY <3>1, <3>2, SomeEdgeLeaves
    <3> QED BY <1>1, <3>3 DEF S
  <2>2. CASE \A i \in 1 .. n : points[i] \notin S
    <3>1. points[a][2] = y
      BY <1>1, <2>2
    <3>2. y <= next(a)[2]
      <4>1. 1 \in 1 .. n /\ (a # n => a + 1 \in 1 .. n)
        OBVIOUS
      <4>2. next(a) \notin S
        BY <2>2, <4>1 DEF Following
      <4> QED BY <1>1, <4>2
    <3> QED BY <3>1, <3>2
  <2> QED BY <2>1, <2>2
<1>3. \E i \in 1 .. n : next(i)[2] <= y /\ y <= points[i][2]
  <2> DEFINE S == {z \in Points : z[2] > y}
  <2>1. CASE \E i \in 1 .. n : points[i] \in S
    <3>1. PICK i \in 1 .. n : points[i] \in S
      BY <2>1
    <3>2. points[a] \notin S
      BY <1>1
    <3> HIDE DEF S
    <3>3. PICK k \in 1 .. n : points[k] \in S /\ next(k) \notin S
      BY <3>1, <3>2, SomeEdgeLeaves
    <3> QED BY <1>1, <3>3 DEF S
  <2>2. CASE \A i \in 1 .. n : points[i] \notin S
    <3>1. points[b][2] = y
      BY <1>1, <2>2
    <3>2. next(b)[2] <= y
      <4>1. 1 \in 1 .. n /\ (b # n => b + 1 \in 1 .. n)
        OBVIOUS
      <4>2. next(b) \notin S
        BY <2>2, <4>1 DEF Following
      <4> QED BY <1>1, <4>2
    <3> QED BY <3>1, <3>2
  <2> QED BY <2>1, <2>2
<1>4. ASSUME NEW u \in Points, NEW v \in Points, v[2] <= y, y <= u[2]
      PROVE  /\ Stores(u, v, y) /\ Stores(v, u, y)
             /\ IF clockwise > 0 THEN OnTheLeft(u, v, clockwise) /\ OnTheRight(v, u, clockwise)
                ELSE OnTheRight(u, v, clockwise) /\ OnTheLeft(v, u, clockwise)
  BY <1>4, EdgeAcross
<1> QED BY <1>1, <1>2, <1>3, <1>4 DEF LeftStored, RightStored

\* The points between such corners, half a pixel aside in their row.
AlmostEnclosed(T, s) ==
    {z \in Points : \A p, q \in Points : <<p, q>> \in T =>
        -(4 * Abs(q[1] - p[1]) + 5 * Abs(q[2] - p[2])) <= 2 * (s * Cross(p, q, z))}

LEMMA EnclosedAlmost ==
  ASSUME NEW T, NEW s \in {-1, 1}, NEW z \in Enclosed(T, s, 2, 2)
  PROVE  z \in AlmostEnclosed(T, s)
<1>1. z \in Points
  BY DEF Enclosed
<1>2. ASSUME NEW p \in Points, NEW q \in Points, <<p, q>> \in T
      PROVE  -(4 * Abs(q[1] - p[1]) + 5 * Abs(q[2] - p[2])) <= 2 * (s * Cross(p, q, z))
  <2>1. PICK U \in Nat, V \in Nat : U = Abs(q[1] - p[1]) /\ V = Abs(q[2] - p[2])
    BY AheadIs
  <2>2. PICK C \in Int : C = s * Cross(p, q, z)
    <3>1. s * Cross(p, q, z) \in Int
      BY <1>1, TwoEdgesSigned
    <3> QED BY <3>1
  <2>3. -(2 * U + 2 * V) <= C
    BY <1>2, <2>1, <2>2 DEF Enclosed
  <2>4. -(4 * U + 5 * V) <= 2 * C
    BY <2>3
  <2> QED BY <2>1, <2>2, <2>4
<1> QED BY <1>1, <1>2 DEF AlmostEnclosed

\* The columns that an edge stores.
LEMMA StoredAlmostEnclosed ==
  ASSUME NEW T, NEW s \in {-1, 1}, NEW a \in Enclosed(T, s, 2, 2), NEW b \in Enclosed(T, s, 2, 2),
         NEW y \in Int, Stores(a, b, y)
  PROVE  /\ <<FirstColumn(a, b, y), y>> \in AlmostEnclosed(T, s)
         /\ <<LastColumn(a, b, y), y>> \in AlmostEnclosed(T, s)
<1>1. a \in Points /\ b \in Points
  BY DEF Enclosed
<1>2. a = <<a[1], a[2]>> /\ b = <<b[1], b[2]>> /\ a[1] \in Int /\ b[1] \in Int /\ a[2] \in Int /\ b[2] \in Int
  BY <1>1 DEF Points
<1>3. CASE a[2] = b[2]
  <2>1. y = a[2]
    BY <1>3 DEF Stores
  <2>2. FirstColumn(a, b, y) \in {a[1], b[1]} /\ LastColumn(a, b, y) \in {a[1], b[1]}
    BY <1>2, <1>3, OfTwo DEF FirstColumn, LastColumn
  <2>3. <<a[1], y>> = a /\ <<b[1], y>> = b
    BY <1>2, <1>3, <2>1
  <2>4. a \in AlmostEnclosed(T, s) /\ b \in AlmostEnclosed(T, s)
    BY EnclosedAlmost
  <2> QED BY <2>2, <2>3, <2>4
<1>4. CASE a[2] # b[2]
  <2>1. PICK c : c = EdgeColumn(a, b, y) /\ FirstColumn(a, b, y) = c /\ LastColumn(a, b, y) = c
    BY <1>4 DEF FirstColumn, LastColumn
  <2>2. y \in RowsOf(a, b)
    BY <1>4 DEF Stores
  <2>3. PICK m, d, u, v, sx, sy : EdgeWalks(a, b, y, c, m, d, u, v, sx, sy)
    BY <1>1, <1>4, <2>1, <2>2, EdgeWalk
  <2>4. /\ m \in Nat /\ d \in Nat \ {0} /\ u \in 0 .. d /\ v \in 0 .. m
        /\ sx \in {-1, 1} /\ sy \in {-1, 1}
        /\ b[1] = a[1] + sx * m /\ b[2] = a[2] + sy * d
        /\ c = a[1] + sx * v /\ y = a[2] + sy * u
        /\ d * v \in Int /\ m * u \in Int
        /\ 1 - d <= 2 * (d * v) - 2 * (m * u) /\ 2 * (d * v) - 2 * (m * u) <= d
    BY <2>3 DEF EdgeWalks
  <2>5. PICK z : z = <<c, y>>
    OBVIOUS
  <2>6. z \in Points
    <3>1. c \in Int
      BY <1>2, <2>4
    <3> QED BY <2>5, <3>1 DEF Points
  <2>7. Reached(a, b, sx, sy, m, d) /\ Reached(a, z, sx, sy, v, u)
    BY <2>4, <2>5 DEF Reached
  <2>8. PICK t \in Int : t = m * u - d * v /\ -d <= 2 * t /\ 2 * t <= d
    BY <2>4
  <2>9. ASSUME NEW p \in Points, NEW q \in Points, <<p, q>> \in T
        PROVE  -(4 * Abs(q[1] - p[1]) + 5 * Abs(q[2] - p[2])) <= 2 * (s * Cross(p, q, z))
    <3>1. PICK U \in Nat, V \in Nat : U = Abs(q[1] - p[1]) /\ V = Abs(q[2] - p[2])
      BY AheadIs
    <3>2. PICK A \in Int, B \in Int, C \in Int :
             A = s * Cross(p, q, a) /\ B = s * Cross(p, q, b) /\ C = s * Cross(p, q, z)
      <4>1. s * Cross(p, q, a) \in Int /\ s * Cross(p, q, b) \in Int /\ s * Cross(p, q, z) \in Int
        BY <1>1, <2>6, TwoEdgesSigned
      <4> QED BY <4>1
    <3>3. PICK N \in Nat : N = 2 * U + 2 * V
      OBVIOUS
    <3>4. -N <= A /\ -N <= B
      BY <2>9, <3>1, <3>2, <3>3 DEF Enclosed
    <3>5. PICK g \in Int : g = (s * sx) * (q[2] - p[2]) /\ -V <= g /\ g <= V
      <4>1. PICK w \in Int : w = q[2] - p[2]
        <5>1. q[2] - p[2] \in Int
          BY DEF Points
        <5> QED BY <5>1
      <4>2. \A e, f \in {-1, 1}, k \in Int : (e * f) * k = k \/ (e * f) * k = -k
        OBVIOUS
      <4>3. (s * sx) * w = w \/ (s * sx) * w = -w
        BY <2>4, <4>2
      <4>4. -V <= w /\ w <= V /\ -V <= -w /\ -w <= V
        BY <3>1, <4>1 DEF Abs
      <4> QED BY <4>1, <4>3, <4>4
    <3>6. CrossesBetween(p, q, s, a, b, z, sx, sy, m, d, v, u)
      BY <1>1, <2>4, <2>6, <2>7, CrossBetween
    <3>7. d * C = (d - u) * A + u * B + g * t
      BY <2>8, <3>2, <3>5, <3>6, Zenon DEF CrossesBetween
    <3>8. -(2 * N + V) <= 2 * C
      <4>1. A \in Int /\ B \in Int /\ C \in Int /\ V \in Nat /\ N \in Nat /\ g \in Int /\ t \in Int
        BY <2>8, <3>1, <3>2, <3>3, <3>5
      <4>2. d \in Nat \ {0} /\ u \in 0 .. d
        BY <2>4
      <4>3. -V <= g /\ g <= V /\ -d <= 2 * t /\ 2 * t <= d
        BY <2>8, <3>5
      <4> QED BY <3>4, <3>7, <4>1, <4>2, <4>3, NotFarBelowInRow
    <3>9. -(4 * U + 5 * V) <= 2 * C
      BY <3>3, <3>8
    <3> QED BY <3>1, <3>2, <3>9
  <2>10. z \in AlmostEnclosed(T, s)
    BY <2>6, <2>9 DEF AlmostEnclosed
  <2> QED BY <2>1, <2>5, <2>10
<1> QED BY <1>3, <1>4

\* And what is between two columns in a row.
LEMMA BetweenAlmostEnclosed ==
  ASSUME NEW T, NEW s \in {-1, 1}, NEW l, NEW r, NEW y,
         <<l, y>> \in AlmostEnclosed(T, s), <<r, y>> \in AlmostEnclosed(T, s), NEW x \in l .. r
  PROVE  <<x, y>> \in AlmostEnclosed(T, s)
<1>1. <<l, y>> \in Points /\ <<r, y>> \in Points
  BY DEF AlmostEnclosed
<1>2. l \in Int /\ r \in Int /\ y \in Int /\ x \in Int /\ l <= x /\ x <= r
  BY <1>1 DEF Points
<1>3. <<x, y>> \in Points
  BY <1>2 DEF Points
<1>4. ASSUME NEW p \in Points, NEW q \in Points, <<p, q>> \in T
      PROVE  -(4 * Abs(q[1] - p[1]) + 5 * Abs(q[2] - p[2])) <= 2 * (s * Cross(p, q, <<x, y>>))
  <2>1. PICK A \in Int, B \in Int, C \in Int :
           A = Cross(p, q, <<l, y>>) /\ B = Cross(p, q, <<r, y>>) /\ C = Cross(p, q, <<x, y>>)
    <3>1. Cross(p, q, <<l, y>>) \in Int /\ Cross(p, q, <<r, y>>) \in Int /\ Cross(p, q, <<x, y>>) \in Int
      BY <1>2, CrossInRow
    <3> QED BY <3>1
  <2>2. PICK w \in Int : w = q[2] - p[2]
    <3>1. q[2] - p[2] \in Int
      BY DEF Points
    <3> QED BY <3>1
  <2>3. C = A - (x - l) * w /\ C = B - (x - r) * w
    <3>1. /\ Cross(p, q, <<x, y>>) = Cross(p, q, <<l, y>>) - (x - l) * (q[2] - p[2])
          /\ Cross(p, q, <<x, y>>) = Cross(p, q, <<r, y>>) - (x - r) * (q[2] - p[2])
      BY <1>2, CrossInRow
    <3> QED BY <2>1, <2>2, <3>1, Zenon
  <2>4. s * C = s * A - (x - l) * (s * w) /\ s * C = s * B + (r - x) * (s * w)
    BY <1>2, <2>3
  <2>5. PICK N \in Int : N = 4 * Abs(q[1] - p[1]) + 5 * Abs(q[2] - p[2])
    <3>1. Abs(q[1] - p[1]) \in Int /\ Abs(q[2] - p[2]) \in Int
      BY AheadIs
    <3> QED BY <3>1
  <2>6. -N <= 2 * (s * A) /\ -N <= 2 * (s * B)
    BY <1>4, <2>1, <2>5 DEF AlmostEnclosed
  <2>7. PICK a \in Int, b \in Int, c \in Int, k \in Int : a = s * A /\ b = s * B /\ c = s * C /\ k = s * w
    <3>1. s * A \in Int /\ s * B \in Int /\ s * C \in Int /\ s * w \in Int
      OBVIOUS
    <3> QED BY <3>1
  <2>8. CASE k <= 0
    <3>1. (x - l) * k <= 0 /\ (x - l) * k \in Int
      BY <1>2, <2>8, ProductSign
    <3>2. c = a - (x - l) * k
      BY <2>4, <2>7
    <3> QED BY <2>1, <2>5, <2>6, <2>7, <3>1, <3>2
  <2>9. CASE k >= 0
    <3>1. (r - x) * k >= 0 /\ (r - x) * k \in Int
      BY <1>2, <2>9, ProductSign
    <3>2. c = b + (r - x) * k
      BY <2>4, <2>7
    <3> QED BY <2>1, <2>5, <2>6, <2>7, <3>1, <3>2
  <2> QED BY <2>8, <2>9
<1> QED BY <1>3, <1>4 DEF AlmostEnclosed

\* The columns that an edge between points of the screen stores are on the screen.
LEMMA StoredOnScreen ==
  ASSUME NEW a \in Seen, NEW b \in Seen, NEW y \in Int, Stores(a, b, y)
  PROVE  /\ FirstColumn(a, b, y) \in 0 .. GL_width - 1
         /\ LastColumn(a, b, y) \in 0 .. GL_width - 1
<1>1. a \in Points /\ b \in Points /\ a \in Screen /\ b \in Screen
  BY PointOnScreen DEF Seen
<1>2. a[1] \in 0 .. GL_width - 1 /\ b[1] \in 0 .. GL_width - 1
  BY <1>1 DEF Screen
<1>3. CASE a[2] = b[2]
  <2>1. FirstColumn(a, b, y) \in {a[1], b[1]} /\ LastColumn(a, b, y) \in {a[1], b[1]}
    <3>1. a[1] \in Int /\ b[1] \in Int
      BY <1>1 DEF Points
    <3> QED BY <1>3, <3>1, OfTwo DEF FirstColumn, LastColumn
  <2> QED BY <1>2, <2>1
<1>4. CASE a[2] # b[2]
  <2>1. PICK c : c = EdgeColumn(a, b, y) /\ FirstColumn(a, b, y) = c /\ LastColumn(a, b, y) = c
    BY <1>4 DEF FirstColumn, LastColumn
  <2>2. y \in RowsOf(a, b)
    BY <1>4 DEF Stores
  <2>3. PICK m, d, u, v, sx, sy : EdgeWalks(a, b, y, c, m, d, u, v, sx, sy)
    BY <1>1, <1>4, <2>1, <2>2, EdgeWalk
  <2>4. m \in Nat /\ v \in 0 .. m /\ sx \in {-1, 1} /\ b[1] = a[1] + sx * m /\ c = a[1] + sx * v
    BY <2>3 DEF EdgeWalks
  <2>5. c \in 0 .. GL_width - 1
    BY <1>2, <2>4, ScreenSizes
  <2> QED BY <2>1, <2>5
<1> QED BY <1>3, <1>4

\* The corners of a triangle are on the inner side of its edges.
LEMMA CornersAreEnclosed ==
  ASSUME NEW points \in Triangles, Clockwise(points) # 0
  PROVE  \E s \in {-1, 1} : SGN(Clockwise(points)) = s /\ points \in Seq(Enclosed(Edges(points), s, 0, 0))
<1>1. PICK a \in Points, b \in Points, c \in Points : points = <<a, b, c>>
  BY DEF Triangles
<1>2. /\ Len(points) = 3 /\ points[1] = a /\ points[2] = b /\ points[3] = c
      /\ Following(points, 1) = b /\ Following(points, 2) = c /\ Following(points, 3) = a
  BY <1>1, TriangleIs
<1>3. PICK k \in Int : k = Cross(a, b, c) /\ Clockwise(points) = 3 * k
  BY <1>2, ClockwiseIs
<1>4. PICK s \in {-1, 1} : SGN(Clockwise(points)) = s /\ s * k >= 0
  <2>1. PICK n \in Int : n = Clockwise(points) /\ n = 3 * k
    BY <1>3
  <2>2. (n > 0 /\ SGN(n) = 1 /\ 1 * k >= 0) \/ (n < 0 /\ SGN(n) = -1 /\ (-1) * k >= 0)
    BY <2>1 DEF SGN
  <2> QED BY <2>1, <2>2
<1>5. \A p, q \in Points : <<p, q>> \in Edges(points) => <<p, q>> \in {<<a, b>>, <<b, c>>, <<c, a>>}
  <2>1. \A i \in 1 .. 3 : i = 1 \/ i = 2 \/ i = 3
    OBVIOUS
  <2>2. ASSUME NEW e \in Edges(points) PROVE e \in {<<a, b>>, <<b, c>>, <<c, a>>}
    <3>1. PICK i \in 1 .. 3 : e = <<points[i], Following(points, i)>>
      BY <1>2 DEF Edges
    <3> QED BY <1>2, <2>1, <3>1
  <2> QED BY <2>2
<1>6. ASSUME NEW p \in Points, NEW q \in Points
      PROVE  Cross(p, q, p) = 0 /\ Cross(p, q, q) = 0
  <2>1. PICK px \in Int, py \in Int, qx \in Int, qy \in Int :
           p[1] = px /\ p[2] = py /\ q[1] = qx /\ q[2] = qy
    BY DEF Points
  <2>2. /\ Cross(p, q, p) = (qx - px) * (py - py) - (px - px) * (qy - py)
        /\ Cross(p, q, q) = (qx - px) * (qy - py) - (qx - px) * (qy - py)
    BY <2>1 DEF Cross
  <2> QED BY <2>2
<1>7. ASSUME NEW z \in {a, b, c} PROVE z \in Enclosed(Edges(points), s, 0, 0)
  <2>1. z \in Points
    OBVIOUS
  <2>2. ASSUME NEW p \in Points, NEW q \in Points, <<p, q>> \in Edges(points)
        PROVE  -(0 * Abs(q[1] - p[1]) + 0 * Abs(q[2] - p[2])) <= s * Cross(p, q, z)
    <3>1. -(0 * Abs(q[1] - p[1]) + 0 * Abs(q[2] - p[2])) = 0
      <4>1. Abs(q[1] - p[1]) \in Nat /\ Abs(q[2] - p[2]) \in Nat
        BY AheadIs
      <4> QED BY <4>1
    <3>2. Cross(p, q, z) \in {0, k}
      <4>1. Cross(a, b, c) = k /\ Cross(b, c, a) = k /\ Cross(c, a, b) = k
        BY <1>3, CrossTurns
      <4>2. (p = a /\ q = b) \/ (p = b /\ q = c) \/ (p = c /\ q = a)
        BY <1>5, <2>2
      <4>3. z = p \/ z = q \/ Cross(p, q, z) = k
        BY <4>1, <4>2
      <4> QED BY <1>6, <4>3
    <3>3. PICK C \in Int : C = Cross(p, q, z) /\ C \in {0, k}
      BY <3>2
    <3>4. s * C >= 0
      BY <1>4, <3>3
    <3> QED BY <3>1, <3>3, <3>4
  <2> QED BY <2>1, <2>2 DEF Enclosed
<1>8. points \in Seq(Enclosed(Edges(points), s, 0, 0))
  <2>1. PICK E : E = Enclosed(Edges(points), s, 0, 0)
    OBVIOUS
  <2>2. a \in E /\ b \in E /\ c \in E
    BY <1>7, <2>1
  <2>3. <<a, b, c>> \in Seq(E)
    BY <2>2
  <2> QED BY <1>1, <2>1, <2>3
<1> QED BY <1>4, <1>8

\* The rows that the filling of a cut triangle sends, and the columns in them.
LEMMA CutFillingIs ==
  ASSUME NEW points \in Triangles, ~OnScreen(points), NEW culling, NEW garbage,
         ~Culled(culling, Clockwise(points)),
         NEW F, F = GL_clip(points, 0, 0, GL_width - 1, GL_height - 1), F \in Seq(Seen),
         NEW l, NEW r, Spans(F, Clockwise(points), garbage) = [left |-> l, right |-> r]
  PROVE  \A z \in GL_fill_poly(points, "GL_POLY_FILL", culling, garbage) :
            /\ z = <<z[1], z[2]>> /\ z[2] \in 0 .. GL_height - 1 /\ z[1] \in l[z[2]] .. r[z[2]]
            /\ \E i \in 1 .. Len(F) : F[i][2] <= z[2]
            /\ \E i \in 1 .. Len(F) : z[2] <= F[i][2]
<1> DEFINE P == Filled(points, "GL_POLY_FILL", culling, garbage)
           heights == {F[i][2] : i \in 1 .. Len(F)}
           sides == Spans(F, Clockwise(points), garbage)
<1>1. GL_fill_poly(points, "GL_POLY_FILL", culling, garbage) = P
  BY DEF GL_fill_poly, FGA_fill_poly
<1>2. Visible(points) = F
  BY DEF Visible
<1>3. /\ F = <<>> => P = {}
      /\ F # <<>> => P = UNION {Window(sides.left[y], y, sides.right[y], y) : y \in Min(heights) .. Max(heights)}
  BY <1>2 DEF Filled
<1>4. sides.left = l /\ sides.right = r
  OBVIOUS
<1> HIDE DEF P, sides
<1>5. CASE F = <<>>
  BY <1>1, <1>3, <1>5
<1>6. CASE F # <<>>
  <2>1. Len(F) \in Nat \ {0} /\ \A i \in 1 .. Len(F) : F[i] \in Seen
    BY <1>6
  <2>2. PICK m \in Nat : m = GL_height - 1
    BY ScreenSizes
  <2>3. \A i \in 1 .. Len(F) : F[i][2] \in 0 .. m
    <3>1. Seen \subseteq Screen
      BY PointOnScreen DEF Seen
    <3> QED BY <2>1, <2>2, <3>1 DEF Screen
  <2>4. heights \in SUBSET (0 .. m) /\ heights # {}
    <3>1. 1 \in 1 .. Len(F)
      BY <2>1
    <3> QED BY <2>3, <3>1
  <2>5. PICK top \in heights, bottom \in heights : top = Min(heights) /\ bottom = Max(heights)
    BY <2>4, ExtremesExist
  <2>6. ASSUME NEW z \in P
        PROVE  /\ z = <<z[1], z[2]>> /\ z[2] \in 0 .. m /\ z[1] \in l[z[2]] .. r[z[2]]
               /\ \E i \in 1 .. Len(F) : F[i][2] <= z[2]
               /\ \E i \in 1 .. Len(F) : z[2] <= F[i][2]
    <3>1. PICK y \in top .. bottom : z \in Window(l[y], y, r[y], y)
      <4> HIDE DEF heights
      <4>1. P = UNION {Window(sides.left[y], y, sides.right[y], y) : y \in top .. bottom}
        BY <1>3, <1>6, <2>5
      <4>2. PICK y \in top .. bottom : z \in Window(sides.left[y], y, sides.right[y], y)
        BY <4>1
      <4> QED BY <1>4, <4>2
    <3>2. top \in 0 .. m /\ bottom \in 0 .. m
      BY <2>4
    <3>3. y \in Int /\ top <= y /\ y <= bottom /\ y \in 0 .. m
      BY <3>2
    <3>4. z = <<z[1], z[2]>> /\ z[2] = y /\ z[1] \in l[y] .. r[y]
      <4>1. z \in (l[y] .. r[y]) \X (y .. y)
        BY <3>1 DEF Window
      <4>2. z = <<z[1], z[2]>> /\ z[2] \in y .. y /\ z[1] \in l[y] .. r[y]
        BY <4>1
      <4>3. \A n \in y .. y : n = y
        BY <3>3
      <4> QED BY <4>2, <4>3
    <3>5. PICK i \in 1 .. Len(F), j \in 1 .. Len(F) : top = F[i][2] /\ bottom = F[j][2]
      OBVIOUS
    <3> QED BY <3>3, <3>4, <3>5
  <2> QED BY <1>1, <2>2, <2>6
<1> QED BY <1>5, <1>6

\* What the filling of a cut triangle sends is on the screen and not far outside.
LEMMA CutFillingStays ==
  ASSUME NEW points \in Triangles, ~OnScreen(points), NEW culling, NEW garbage,
         ~Culled(culling, Clockwise(points)),
         NEW s \in {-1, 1}, points \in Seq(Enclosed(Edges(points), s, 0, 0)),
         NEW z \in GL_fill_poly(points, "GL_POLY_FILL", culling, garbage)
  PROVE  /\ z = <<z[1], z[2]>>
         /\ (FGA_mode = GL_MODE_OLED => z[2] # 0) => z \in Screen /\ z \in AlmostEnclosed(Edges(points), s)
<1> DEFINE F == GL_clip(points, 0, 0, GL_width - 1, GL_height - 1)
           T == Edges(points)
           clockwise == Clockwise(points)
           O == {p \in AlmostEnclosed(T, s) : p[1] \in 0 .. GL_width - 1}
<1>1. F \in Seq(Seen)
  <2>1. points \in Seq(Points)
    <3>1. PICK p \in Points, q \in Points, r \in Points : points = <<p, q, r>>
      BY DEF Triangles
    <3>2. <<p, q, r>> \in Seq(Points)
      OBVIOUS
    <3> QED BY <3>1, <3>2
  <2>2. Outlined(F, Seen, Links(T, 2, 2))
    BY <2>1, OutlineIsCut
  <2> HIDE DEF F
  <2> QED BY <2>2 DEF Outlined
<1>2. F \in Seq(Enclosed(T, s, 2, 2))
  BY ClipEncloses
<1>3. PICK G : G = F
  OBVIOUS
<1> HIDE DEF F, T
<1>4. PICK n \in Nat : Len(G) = n
  BY <1>1, <1>3
<1>5. \A i \in 1 .. n : G[i] \in Seen /\ G[i] \in Enclosed(T, s, 2, 2) /\ G[i] \in Points
  BY <1>1, <1>2, <1>3, <1>4 DEF Seen
<1>6. ASSUME NEW i \in 1 .. n
      PROVE  Following(G, i) \in Seen /\ Following(G, i) \in Enclosed(T, s, 2, 2)
  <2>1. 1 \in 1 .. n /\ (i # n => i + 1 \in 1 .. n)
    OBVIOUS
  <2> QED BY <1>4, <1>5, <2>1 DEF Following
<1>7. ASSUME NEW i \in 1 .. n, NEW y \in 0 .. GL_height - 1, Stores(G[i], Following(G, i), y)
      PROVE  /\ <<FirstColumn(G[i], Following(G, i), y), y>> \in O
             /\ <<LastColumn(G[i], Following(G, i), y), y>> \in O
  <2>1. y \in Int
    OBVIOUS
  <2>2. /\ <<FirstColumn(G[i], Following(G, i), y), y>> \in AlmostEnclosed(T, s)
        /\ <<LastColumn(G[i], Following(G, i), y), y>> \in AlmostEnclosed(T, s)
    BY <1>5, <1>6, <1>7, <2>1, StoredAlmostEnclosed
  <2>3. /\ FirstColumn(G[i], Following(G, i), y) \in 0 .. GL_width - 1
        /\ LastColumn(G[i], Following(G, i), y) \in 0 .. GL_width - 1
    BY <1>5, <1>6, <1>7, <2>1, StoredOnScreen
  <2> QED BY <2>2, <2>3
<1> HIDE DEF O
<1>8. HoldsPlaces(O, G, n, clockwise, Spans(G, clockwise, garbage))
  BY <1>4, <1>7, SpansHold
<1>9. PICK l, r :
         /\ Spans(G, clockwise, garbage) = [left |-> l, right |-> r]
         /\ \A y \in 0 .. GL_height - 1 :
              /\ (\E i \in 1 .. n : LeftStored(G, i, clockwise, y)) => <<l[y], y>> \in O
              /\ (\E i \in 1 .. n : RightStored(G, i, clockwise, y)) => <<r[y], y>> \in O
  BY <1>8 DEF HoldsPlaces
<1>10. /\ z = <<z[1], z[2]>> /\ z[2] \in 0 .. GL_height - 1 /\ z[1] \in l[z[2]] .. r[z[2]]
       /\ \E i \in 1 .. n : G[i][2] <= z[2]
       /\ \E i \in 1 .. n : z[2] <= G[i][2]
  BY <1>1, <1>3, <1>4, <1>9, CutFillingIs DEF F
<1>11. ASSUME FGA_mode = GL_MODE_OLED => z[2] # 0
       PROVE  z \in Screen /\ z \in AlmostEnclosed(T, s)
  <2>1. PICK x, y : x = z[1] /\ y = z[2] /\ z = <<x, y>>
    BY <1>10
  <2>2. PICK a \in 1 .. n : G[a][2] <= y
    BY <1>10, <2>1
  <2>3. PICK b \in 1 .. n : y <= G[b][2]
    BY <1>10, <2>1
  <2>4. /\ \E i \in 1 .. n : LeftStored(G, i, clockwise, y)
        /\ \E i \in 1 .. n : RightStored(G, i, clockwise, y)
    <3>1. y \in Int /\ (FGA_mode = GL_MODE_OLED => y # 0)
      BY <1>10, <1>11, <2>1
    <3> HIDE DEF clockwise
    <3> QED BY <1>4, <1>5, <2>2, <2>3, <3>1, RingStoresBothSides
  <2>5. y \in 0 .. GL_height - 1 /\ x \in l[y] .. r[y]
    BY <1>10, <2>1
  <2>6. <<l[y], y>> \in O /\ <<r[y], y>> \in O
    BY <1>9, <2>4, <2>5
  <2>7. PICK c \in Int, d \in Int : /\ c = l[y] /\ d = r[y]
                                   /\ c \in 0 .. GL_width - 1 /\ d \in 0 .. GL_width - 1
                                   /\ <<c, y>> \in AlmostEnclosed(T, s) /\ <<d, y>> \in AlmostEnclosed(T, s)
    <3>1. PICK c, d : c = l[y] /\ d = r[y]
      OBVIOUS
    <3>2. <<c, y>> \in O /\ <<d, y>> \in O /\ <<c, y>>[1] = c /\ <<d, y>>[1] = d
      BY <2>6, <3>1
    <3>3. /\ <<c, y>> \in AlmostEnclosed(T, s) /\ <<d, y>> \in AlmostEnclosed(T, s)
          /\ c \in 0 .. GL_width - 1 /\ d \in 0 .. GL_width - 1
      BY <3>2, Zenon DEF O
    <3>4. c \in Int /\ d \in Int
      BY <3>3
    <3> QED BY <3>1, <3>3, <3>4, Zenon
  <2>8. x \in c .. d
    BY <2>5, <2>7
  <2>9. <<x, y>> \in AlmostEnclosed(T, s)
    BY <2>7, <2>8, BetweenAlmostEnclosed
  <2>10. x \in 0 .. GL_width - 1
    BY <2>7, <2>8, ScreenSizes
  <2> QED BY <2>1, <2>5, <2>9, <2>10 DEF Screen
<1> QED BY <1>10, <1>11 DEF T

\* Not further outside than four widths and five heights in half pixels: inside but for five pixels.
LEMMA AlmostInside ==
  ASSUME NEW points \in Triangles, Clockwise(points) # 0, CUT >= 7,
         NEW s \in {-1, 1}, SGN(Clockwise(points)) = s, NEW z \in AlmostEnclosed(Edges(points), s)
  PROVE  InsideBy(points, z, -3 - CUT)
<1>1. PICK a \in Points, b \in Points, c \in Points : a = points[1] /\ b = points[2] /\ c = points[3]
  BY TriangleIs
<1>2. /\ Len(points) = 3
      /\ Following(points, 1) = b /\ Following(points, 2) = c /\ Following(points, 3) = a
  BY <1>1, TriangleIs
<1>3. PICK k \in Int : k = Cross(a, b, c) /\ k # 0
  <2>1. PICK k \in Int : k = Cross(a, b, c) /\ Clockwise(points) = 3 * k
    BY <1>1, ClockwiseIs
  <2> QED BY <2>1
<1>4. z \in Points
  BY DEF AlmostEnclosed
<1>5. PICK n \in Int : n = -3 - CUT /\ n <= -10
  BY FigureAssumption
<1>6. ASSUME NEW p \in Points, NEW q \in Points, <<p, q>> \in Edges(points), NEW o \in Points, Cross(p, q, o) # 0
      PROVE  2 * (s * Cross(p, q, z)) > n * Steps(p, q)
  <2>1. PICK U \in Nat, V \in Nat : U = Abs(q[1] - p[1]) /\ V = Abs(q[2] - p[2])
    BY AheadIs
  <2>2. PICK S \in Nat : S = Steps(p, q) /\ U <= S /\ V <= S
    <3>1. Steps(p, q) = IF U > V THEN U ELSE V
      BY <2>1 DEF Steps
    <3> QED BY <2>1, <3>1
  <2>3. S > 0
    <3> SUFFICES ASSUME U = 0, V = 0 PROVE FALSE
      BY <2>2
    <3>1. PICK px \in Int, py \in Int, qx \in Int, qy \in Int, x \in Int, y \in Int :
             p[1] = px /\ p[2] = py /\ q[1] = qx /\ q[2] = qy /\ o[1] = x /\ o[2] = y
      BY DEF Points
    <3>2. qx - px = 0 /\ qy - py = 0
      BY <2>1, <3>1 DEF Abs
    <3>3. Cross(p, q, o) = 0 * (y - py) - (x - px) * 0
      BY <3>1, <3>2 DEF Cross
    <3>4. Cross(p, q, o) = 0
      BY <3>1, <3>3
    <3> QED BY <1>6, <3>4
  <2>4. PICK C \in Int : C = s * Cross(p, q, z)
    <3>1. s * Cross(p, q, z) \in Int
      BY <1>4, TwoEdgesSigned
    <3> QED BY <3>1
  <2>5. -(4 * U + 5 * V) <= 2 * C
    BY <1>6, <2>1, <2>4 DEF AlmostEnclosed
  <2>6. n * S <= -(10 * S)
    <3>1. PICK g \in Nat : n = -10 - g
      <4>1. -10 - n \in Nat /\ n = -10 - (-10 - n)
        BY <1>5
      <4> QED BY <4>1
    <3>2. n * S = -(10 * S) - g * S /\ g * S \in Int /\ g * S >= 0
      BY <3>1, ProductSign
    <3> QED BY <3>2
  <2>7. n * S \in Int
    OBVIOUS
  <2> QED BY <2>2, <2>3, <2>4, <2>5, <2>6, <2>7
<1>7. <<a, b>> \in Edges(points) /\ <<b, c>> \in Edges(points) /\ <<c, a>> \in Edges(points)
  <2>1. 1 \in 1 .. 3 /\ 2 \in 1 .. 3 /\ 3 \in 1 .. 3
    OBVIOUS
  <2> QED BY <1>1, <1>2, <2>1 DEF Edges
<1>8. Cross(a, b, c) # 0 /\ Cross(b, c, a) # 0 /\ Cross(c, a, b) # 0
  BY <1>3, CrossTurns
<1>9. /\ 2 * (s * Cross(a, b, z)) > n * Steps(a, b)
      /\ 2 * (s * Cross(b, c, z)) > n * Steps(b, c)
      /\ 2 * (s * Cross(c, a, z)) > n * Steps(c, a)
  BY <1>6, <1>7, <1>8
<1>10. InsideBy(points, z, n)
  BY <1>1, <1>4, <1>9, InsideIs
<1> QED BY <1>5, <1>10

-------------------------------------------------------------------------------
(* Figures: the cut triangle on the screen.                                *)

\* A triangle that was cut and filled is not filled far outside.
FillingInv ==
    CUT >= 7 /\ figure.shape = "GL_POLY_FILL" /\ ~DrawnWhole => StaysInside(figure.points)

LEMMA FillingSent ==
  ASSUME frame = Blank(FGA_mode), FGA_mode \in {GL_MODE_OLED, GL_MODE_FGA},
         NEW points \in Triangles, NEW culling, CUT >= 7,
         DrawPolygon(points, "GL_POLY_FILL", culling), ~DrawnWhole'
  PROVE  StaysInside(points)'
<1>1. PICK garbage \in Garbage : Draws(GL_fill_poly(points, "GL_POLY_FILL", culling, garbage))
  BY DEF DrawPolygon
<1> DEFINE P == GL_fill_poly(points, "GL_POLY_FILL", culling, garbage)
<1>2. FGA_mode' = FGA_mode /\ frame' = Painted(P, INK)
  BY <1>1 DEF Draws
<1>3. ~Culled(culling, Clockwise(points)) /\ ~OnScreen(points)'
  BY DEF DrawPolygon, DrawnWhole
<1>4. ~OnScreen(points)
  BY <1>2, <1>3 DEF OnScreen, code, GL_width, GL_height
<1>5. Slack(points)' = CUT /\ StoredRows' = StoredRows
      /\ \A r, n : InsideBy(points, r, n)' <=> InsideBy(points, r, n)
  BY <1>2, <1>3 DEF Slack, StoredRows, InsideBy, Steps, GL_height
<1>6. ASSUME Clockwise(points) # 0
      PROVE  \A r \in Inked' : r[2] \in StoredRows => InsideBy(points, r, -3 - CUT)
  <2>1. PICK s \in {-1, 1} : SGN(Clockwise(points)) = s /\ points \in Seq(Enclosed(Edges(points), s, 0, 0))
    BY <1>6, CornersAreEnclosed
  <2>2. ASSUME NEW z \in P
        PROVE  /\ z = <<z[1], z[2]>>
               /\ (FGA_mode = GL_MODE_OLED => z[2] # 0) =>
                     z \in Screen /\ z \in AlmostEnclosed(Edges(points), s)
    BY <1>3, <1>4, <2>1, <2>2, CutFillingStays
  <2> HIDE DEF P
  <2>3. Inked' = P \cap Screen
    <3>1. FGA_mode = GL_MODE_OLED \/ P \subseteq Screen
      BY <2>2
    <3> QED BY <1>2, <2>2, <3>1, PaintedOnBlank
  <2>4. ASSUME NEW r \in Inked', r[2] \in StoredRows PROVE InsideBy(points, r, -3 - CUT)
    <3>1. FGA_mode = GL_MODE_OLED => r[2] # 0
      BY <2>4 DEF StoredRows
    <3>2. r \in AlmostEnclosed(Edges(points), s)
      BY <2>2, <2>3, <3>1
    <3> QED BY <1>6, <2>1, <3>2, AlmostInside
  <2> QED BY <2>4
<1> HIDE DEF P
<1> QED BY <1>5, <1>6 DEF StaysInside

LEMMA FillingStep ==
  ASSUME FigureInv, FillingInv, [TerminalNext]_terminalVars
  PROVE  FillingInv'
<1> SUFFICES ASSUME CUT >= 7, figure'.shape = "GL_POLY_FILL", ~DrawnWhole'
             PROVE  StaysInside(figure.points)'
  BY DEF FillingInv
<1>1. None.shape # "GL_POLY_FILL"
  BY DEF None
<1>2. ASSUME NEW p \in Corners, NEW q \in Corners, NEW r \in Corners, NEW polygon_mode, NEW culling,
             DrawPolygon(<<p, q, r>>, polygon_mode, culling), frame = Blank(FGA_mode)
      PROVE  StaysInside(figure.points)'
  <2>1. <<p, q, r>> \in Triangles
    <3>1. Corners \subseteq Points
      <4>1. (\A c \in Columns : c - MARGIN \in Int) /\ (\A d \in Rows : d - MARGIN \in Int)
        BY FigureAssumption
      <4> QED BY <4>1 DEF Corners, Points
    <3> QED BY <3>1 DEF Triangles
  <2>2. figure'.points = <<p, q, r>> /\ polygon_mode = "GL_POLY_FILL"
    BY <1>2 DEF DrawPolygon
  <2>3. StaysInside(<<p, q, r>>)'
    BY <1>2, <2>1, <2>2, FillingSent DEF FigureInv
  <2> QED BY <2>2, <2>3
<1>3. CASE Draw
  <2>1. frame = Blank(FGA_mode)
    BY <1>3 DEF Draw, Fresh
  <2>2. ASSUME NEW p, NEW q, DrawLine(p, q) \/ DrawRectangle(p, q) \/ DrawPixel(p) PROVE FALSE
    BY <2>2 DEF DrawLine, DrawRectangle, DrawPixel
  <2> QED BY <1>2, <1>3, <2>1, <2>2 DEF Draw
<1>4. CASE \E mode \in {GL_MODE_OLED, GL_MODE_FGA} : GL_tty_init(mode)
  BY <1>1, <1>4 DEF GL_tty_init, GL_init, FGA_setmode
<1>5. CASE UNCHANGED terminalVars
  <2>1. FGA_mode' = FGA_mode /\ frame' = frame /\ figure' = figure
    BY <1>5 DEF terminalVars
  <2>2. Inked' = Inked /\ \A points : OnScreen(points)' <=> OnScreen(points)
    BY <2>1 DEF Inked, Screen, OnScreen, code, GL_width, GL_height
  <2>3. DrawnWhole' <=> DrawnWhole
    BY <2>1, <2>2 DEF DrawnWhole
  <2>4. StaysInside(figure.points)
    BY <2>1, <2>3 DEF FillingInv
  <2>5. StaysInside(figure.points)' <=> StaysInside(figure'.points)
    BY <2>1, <2>2 DEF StaysInside, StoredRows, Slack, GL_height
  <2> QED BY <2>1, <2>4, <2>5
<1>6. ASSUME \/ \E c \in Chars : GL_putchar(c)
             \/ NewLine \/ CarriageReturn \/ GL_clear
             \/ \E X \in 0 .. GL_width - 1, Y \in 0 .. GL_height - 1 :
                   X % FONT_WIDTH = 0 /\ Y % FONT_HEIGHT = 0 /\ GL_tty_goto_xy(X, Y)
      PROVE  FALSE
  <2>1. figure' = None
    BY <1>6 DEF TextMode, GL_putchar, NewLine, CarriageReturn, Written, GL_tty_goto_xy, GL_clear
  <2> QED BY <1>1, <2>1
<1> QED BY <1>3, <1>4, <1>5, <1>6 DEF TerminalNext

\* Nor does the filling of a triangle that is cut at the border run over its edges, whatever the
\* sizes of the screen and the corners: its corners that are moved are at most two pixels' worth
\* outside in either direction, what is stored between them another half a pixel, so no pixel is
\* filled five pixels outside of an edge.
THEOREM FillingsStayInside ==
  TerminalSpec => [](CUT >= 7 /\ figure.shape = "GL_POLY_FILL" => StaysInside(figure.points))
<1>1. TerminalInit => FigureInv /\ FillingInv
  <2>1. TerminalInit => FillingInv
    BY DEF TerminalInit, FillingInv, None
  <2> QED BY <2>1, NoFigureAtFirst
<1>2. TextInv /\ FigureInv /\ FillingInv /\ [TerminalNext]_terminalVars => FigureInv' /\ FillingInv'
  BY FigureStep, FillingStep
<1>3. FigureInv /\ FillingInv => (CUT >= 7 /\ figure.shape = "GL_POLY_FILL" => StaysInside(figure.points))
  <2> SUFFICES ASSUME FigureInv, FillingInv, CUT >= 7, figure.shape = "GL_POLY_FILL"
               PROVE  StaysInside(figure.points)
    OBVIOUS
  <2>1. figure # None
    BY DEF None
  <2>2. CASE DrawnWhole /\ IsFilled(figure)
    BY <2>2 DEF FigureInv, TriangleIsRight
  <2>3. CASE DrawnWhole /\ ~IsFilled(figure)
    <3>1. Inked = {}
      BY <2>1, <2>3 DEF FigureInv, Pixels, IsFilled
    <3> QED BY <3>1 DEF StaysInside
  <2>4. CASE ~DrawnWhole
    BY <2>4 DEF FillingInv
  <2> QED BY <2>2, <2>3, <2>4
<1> QED BY <1>1, <1>2, <1>3, TextInvariant, PTL DEF TerminalSpec

===============================================================================
