------------------------------- MODULE Graphics --------------------------------
(***************************************************************************)
(* The drawing functions of LIBFEMTOGL, on the OLED panel and on the frame *)
(* buffer of the graphic adapter FGA.                                      *)
(*                                                                         *)
(* A screen is a function from rows and columns to colours, a point is a   *)
(* pair of coordinates, and what a function draws is the set of pixels it  *)
(* sends.                                                                  *)
(***************************************************************************)
EXTENDS Integers, Sequences, SequencesExt

CONSTANTS OLED_WIDTH, OLED_HEIGHT,
          FGA_width, FGA_height,
          Garbage               \* what an array on the stack may hold

ASSUME ScreenAssumption ==
    /\ OLED_WIDTH \in Nat \ {0} /\ OLED_HEIGHT \in Nat \ {0}
    /\ FGA_width \in Nat \ {0} /\ FGA_height \in Nat \ {0}

VARIABLES FGA_mode,             \* GL_MODE_OLED, or GL_MODE_FGA for any mode of the adapter
          frame,                \* the pixels of the screen in use
          start_line            \* the row that the panel shows on top

GL_MODE_OLED == -1
GL_MODE_FGA  == 0

GL_BG == <<>>
INK   == <<"ink">>

WidthOf(mode)  == IF mode = GL_MODE_OLED THEN OLED_WIDTH ELSE FGA_width
HeightOf(mode) == IF mode = GL_MODE_OLED THEN OLED_HEIGHT ELSE FGA_height
GL_width  == WidthOf(FGA_mode)
GL_height == HeightOf(FGA_mode)

Blank(mode) == [y \in 0 .. HeightOf(mode) - 1 |-> [x \in 0 .. WidthOf(mode) - 1 |-> GL_BG]]

\* The memory of the adapter is cleared for every mode; without colours, a mode
\* is a resolution.
FGA_setmode(mode) ==
    /\ FGA_mode' = mode
    /\ frame' = Blank(mode)

\* The panel keeps its pixels until GL_clear, which always follows.
GL_init(mode) == FGA_setmode(mode)

-------------------------------------------------------------------------------
(* The screens. *)

\* Where a pixel goes: the panel drops it outside of its columns and rows, the
\* adapter counts addresses through its rows.
Place(x, y) ==
    IF FGA_mode = GL_MODE_OLED THEN <<x, y>>
    ELSE LET address == y * GL_width + x IN <<address % GL_width, address \div GL_width>>

Window(x1, y1, x2, y2) == (x1 .. x2) \X (y1 .. y2)

\* The frame after pixels of one colour.
Painted(pixels, color) ==
    LET hit == {Place(p[1], p[2]) : p \in pixels}
    IN [y \in 0 .. GL_height - 1 |->
            [x \in 0 .. GL_width - 1 |-> IF <<x, y>> \in hit THEN color ELSE frame[y][x]]]

\* What the panel shows in row r.
ShownRow(r) == frame[(start_line + r) % GL_height]

-------------------------------------------------------------------------------
(* Lines. *)

Abs(n)  == IF n < 0 THEN -n ELSE n
Sign(n) == IF n < 0 THEN -1 ELSE 1

Quotient(a, b) ==    \* of C: towards zero
    LET q == Abs(a) \div Abs(b) IN IF (a < 0) = (b < 0) THEN q ELSE -q

code(p) ==
    {s \in {"LEFT", "RIGHT", "BOTTOM", "TOP"} :
        \/ s = "LEFT"   /\ p[1] < 0
        \/ s = "RIGHT"  /\ p[1] > GL_width - 1
        \/ s = "BOTTOM" /\ p[2] < 0
        \/ s = "TOP"    /\ p[2] > GL_height - 1}

\* Where the line through p and q meets the first of the sides.
AtY(p, q, y) == <<p[1] + Quotient((q[1] - p[1]) * (y - p[2]), q[2] - p[2]), y>>
AtX(p, q, x) == <<x, p[2] + Quotient((q[2] - p[2]) * (x - p[1]), q[1] - p[1])>>

Intersection(p, q, sides) ==
    IF "TOP" \in sides THEN AtY(p, q, GL_height - 1)
    ELSE IF "BOTTOM" \in sides THEN AtY(p, q, 0)
    ELSE IF "RIGHT" \in sides THEN AtX(p, q, GL_width - 1)
    ELSE AtX(p, q, 0)

\* The ends of the line on the screen, none when it misses it.
Clipped[ends \in (Int \X Int) \X (Int \X Int)] ==
    LET p == ends[1]
        q == ends[2]
    IN IF code(p) = {} /\ code(q) = {} THEN ends
       ELSE IF code(p) \cap code(q) # {} THEN <<>>
       ELSE IF code(p) # {} THEN Clipped[<<Intersection(p, q, code(p)), q>>]
       ELSE Clipped[<<p, Intersection(p, q, code(q))>>]

\* Mutant: the error starts with a whole step.
BresenhamEager(d, m) ==
    LET walk[u \in 0 .. d] ==
            IF u = 0 THEN [n |-> 0, e |-> 2 * m]
            ELSE LET w == walk[u - 1]
                     k == IF w.e < 0 THEN 0 ELSE w.e \div (2 * d) + 1
                 IN [n |-> w.n + k, e |-> w.e - 2 * d * k + 2 * m]
    IN [u \in 0 .. d |-> walk[u].n]

\* How far the other coordinate has gone at step u, of d steps for a distance of
\* m: the error e is brought below zero before each step.
Bresenham(d, m) ==
    LET walk[u \in 0 .. d] ==
            IF u = 0 THEN [n |-> 0, e |-> 2 * m - d]
            ELSE LET w == walk[u - 1]
                     k == IF w.e < 0 THEN 0 ELSE w.e \div (2 * d) + 1
                 IN [n |-> w.n + k, e |-> w.e - 2 * d * k + 2 * m]
    IN [u \in 0 .. d |-> walk[u].n]

\* A pixel at each step, and one more before the other coordinate changes.  The
\* last point is not drawn.
Stairs(d, m) ==
    LET walk == Bresenham(d, m)
    IN {<<u, walk[u]>> : u \in 0 .. d - 1}
       \cup {<<u + 1, walk[u]>> : u \in {v \in 0 .. d - 1 : walk[v + 1] > walk[v]}}

Segment(p, q) ==
    LET dx == Abs(q[1] - p[1])
        dy == Abs(q[2] - p[2])
        sx == Sign(q[1] - p[1])
        sy == Sign(q[2] - p[2])
    IN IF dy > dx THEN {<<p[1] + sx * s[2], p[2] + sy * s[1]>> : s \in Stairs(dy, dx)}
       ELSE {<<p[1] + sx * s[1], p[2] + sy * s[2]>> : s \in Stairs(dx, dy)}

FGA_line(p, q) ==
    LET ends == Clipped[<<p, q>>] IN IF ends = <<>> THEN {} ELSE Segment(ends[1], ends[2])

GL_line(p, q) ==
    IF FGA_mode # GL_MODE_OLED THEN FGA_line(p, q)
    ELSE LET ends == Clipped[<<p, q>>] IN IF ends = <<>> THEN {} ELSE Segment(ends[1], ends[2])

-------------------------------------------------------------------------------
(* Rectangles. *)

FGA_fill_rect(x1, y1, x2, y2) == IF x2 < x1 THEN {} ELSE Window(x1, y1, x2, y2)

GL_fill_rect(x1, y1, x2, y2) ==
    IF FGA_mode = GL_MODE_OLED THEN Window(x1, y1, x2, y2) ELSE FGA_fill_rect(x1, y1, x2, y2)

GL_setpixel(x, y) == Window(x, y, x, y)

-------------------------------------------------------------------------------
(* Polygons: sequences of points. *)

SGN(n) == IF n > 0 THEN 1 ELSE IF n < 0 THEN -1 ELSE 0

Previous(points, i) == IF i = 1 THEN points[Len(points)] ELSE points[i - 1]
Following(points, i) == IF i = Len(points) THEN points[1] ELSE points[i + 1]

\* Where the edge from p to q meets the line a * x + b * y + c = 0.
crossing(p, q, a, b, c) ==
    LET t_num   == -(a * p[1] + b * p[2] + c)
        t_denom == a * (q[1] - p[1]) + b * (q[2] - p[2])
    IN <<p[1] + Quotient(t_num * (q[1] - p[1]), t_denom),
         p[2] + Quotient(t_num * (q[2] - p[2]), t_denom)>>

\* The part of a polygon where a * x + b * y + c >= 0.
clip_H(points, a, b, c) ==
    LET status(p) == SGN(a * p[1] + b * p[2] + c)
        kept(p, q) ==
            (IF status(p) * status(q) = -1 THEN <<crossing(p, q, a, b, c)>> ELSE <<>>)
            \o (IF status(q) >= 0 THEN <<q>> ELSE <<>>)
    IN FlattenSeq([i \in 1 .. Len(points) |-> kept(Previous(points, i), points[i])])

GL_clip(points, xmin, ymin, xmax, ymax) ==
    clip_H(clip_H(clip_H(clip_H(points, 1, 0, xmin), -1, 0, xmax), 0, 1, ymin), 0, -1, ymax)

Cross(p, q, r) == (q[1] - p[1]) * (r[2] - p[2]) - (r[1] - p[1]) * (q[2] - p[2])

\* Positive when the points turn clockwise on the screen, whose rows go down.
Clockwise(points) ==
    FoldFunction(+, 0, [i \in 1 .. Len(points) |->
        Cross(points[i], Following(points, i), Following(points, IF i = Len(points) THEN 1 ELSE i + 1))])

OnScreen(points) == \A i \in 1 .. Len(points) : code(points[i]) = {}

Visible(points) ==
    IF OnScreen(points) THEN points ELSE GL_clip(points, 0, 0, GL_width - 1, GL_height - 1)

\* The column of an edge in each of its rows.
EdgeColumn(p, q, y) == p[1] + Sign(q[1] - p[1]) * Bresenham(Abs(q[2] - p[2]), Abs(q[1] - p[1]))[Abs(y - p[2])]

RowsOf(p, q) == Min({p[2], q[2]}) .. Max({p[2], q[2]})

\* The spans after one more edge.  On the panel the first row is not stored.
WithEdge(spans, p, q, clockwise) ==
    IF p[2] = q[2]
    THEN [spans EXCEPT !.left[p[2]]  = Min({p[1], q[1]}),
                       !.right[p[2]] = Max({p[1], q[1]})]
    ELSE LET rows == IF FGA_mode = GL_MODE_OLED THEN RowsOf(p, q) \ {0} ELSE RowsOf(p, q)
             stored(side) == [y \in DOMAIN side |-> IF y \in rows THEN EdgeColumn(p, q, y) ELSE side[y]]
         IN IF (clockwise > 0) # (q[2] > p[2]) THEN [spans EXCEPT !.left = stored(@)]
            ELSE [spans EXCEPT !.right = stored(@)]

\* The first and the last column of each row, from what the arrays hold.
Spans(points, clockwise, garbage) ==
    LET any == [y \in 0 .. GL_height - 1 |-> garbage]
    IN FoldLeft(LAMBDA spans, i : WithEdge(spans, points[i], Following(points, i), clockwise),
                [left |-> any, right |-> any], [i \in 1 .. Len(points) |-> i])

Culled(culling, clockwise) ==
    \/ culling = "GL_FRONT_FACE" /\ clockwise < 0
    \/ culling = "GL_BACK_FACE"  /\ clockwise > 0

\* What a polygon draws; the first span of a row is the last one stored.
Filled(points, polygon_mode, culling, garbage) ==
    LET clockwise == Clockwise(points)
        visible   == Visible(points)
        spans     == Spans(visible, clockwise, garbage)
        heights   == {visible[i][2] : i \in 1 .. Len(visible)}
    IN IF Culled(culling, clockwise) \/ visible = <<>> THEN {}
       ELSE IF polygon_mode = "GL_POLY_LINES"
       THEN UNION {GL_line(visible[i], Following(visible, i)) : i \in 1 .. Len(visible)}
       ELSE UNION {Window(spans.left[y], y, spans.right[y], y) : y \in Min(heights) .. Max(heights)}

FGA_fill_poly(points, polygon_mode, culling, garbage) == Filled(points, polygon_mode, culling, garbage)

GL_fill_poly(points, polygon_mode, culling, garbage) ==
    IF FGA_mode # GL_MODE_OLED THEN FGA_fill_poly(points, polygon_mode, culling, garbage)
    ELSE Filled(points, polygon_mode, culling, garbage)

===============================================================================
