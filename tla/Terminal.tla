------------------------------- MODULE Terminal --------------------------------
(***************************************************************************)
(* A program that uses LIBFEMTOGL: a terminal on the OLED panel, and       *)
(* figures on the panel or on the graphic adapter.                         *)
(***************************************************************************)
EXTENDS Graphics

CONSTANTS Chars,
          FONT_WIDTH, FONT_HEIGHT,
          MARGIN,               \* the points of figures are that far off the screen at most
          Columns, Rows,        \* the coordinates of polygons, from -MARGIN on
          CUT                   \* half pixels that a figure may be off once it is cut at the border

\* The rows of text fill the panel; its columns need not.
ASSUME FontAssumption ==
    /\ FONT_WIDTH \in Nat \ {0} /\ FONT_HEIGHT \in Nat \ {0}
    /\ OLED_HEIGHT % FONT_HEIGHT = 0

ASSUME FigureAssumption ==
    /\ MARGIN \in Nat /\ Columns \subseteq Nat /\ Rows \subseteq Nat
    /\ CUT \in Nat

VARIABLES cursor_X, cursor_Y, scrolling, display_start_line, last_char_was_CR,
          figure                \* the figure on the screen, or None

ttyVars == <<cursor_X, cursor_Y, scrolling, display_start_line, last_char_was_CR>>
terminalVars == <<FGA_mode, frame, start_line, ttyVars, figure>>

None == [shape |-> "none"]

-------------------------------------------------------------------------------
(* Text. *)

SPACE == " "

\* A pixel of a character is named after its place in the character.
Glyph(c, i, j) == IF c = SPACE THEN GL_BG ELSE <<c, i, j>>

\* The frame with a character whose first pixel is at X, Y.
GL_putchar_xy(screen, X, Y, c) ==
    [y \in DOMAIN screen |->
        [x \in DOMAIN screen[y] |->
            IF x \in X .. X + FONT_WIDTH - 1 /\ y \in Y .. Y + FONT_HEIGHT - 1
            THEN Glyph(c, x - X, y - Y) ELSE screen[y][x]]]

Cleared(screen, y1, y2) ==
    [y \in DOMAIN screen |-> [x \in DOMAIN screen[y] |-> IF y \in y1 .. y2 THEN GL_BG ELSE screen[y][x]]]

\* Mutant: the start line is reset one line late.
ScrolledLate ==
    LET top   == cursor_Y >= GL_height
        Y     == IF top THEN 0 ELSE cursor_Y
        start == display_start_line + FONT_HEIGHT
    IN IF scrolling \/ top
       THEN [Y |-> Y, scrolling |-> TRUE,
             frame |-> Cleared(frame, Y, Y + FONT_HEIGHT - 1),
             start |-> IF start > GL_height THEN 0 ELSE start]
       ELSE [Y |-> Y, scrolling |-> FALSE, frame |-> frame, start |-> display_start_line]

\* GL_tty_scroll: the line below the last one takes the place of the first one.
Scrolled ==
    LET top   == cursor_Y >= GL_height
        Y     == IF top THEN 0 ELSE cursor_Y
        start == display_start_line + FONT_HEIGHT
    IN IF scrolling \/ top
       THEN [Y |-> Y, scrolling |-> TRUE,
             frame |-> Cleared(frame, Y, Y + FONT_HEIGHT - 1),
             start |-> IF start >= GL_height THEN 0 ELSE start]
       ELSE [Y |-> Y, scrolling |-> FALSE, frame |-> frame, start |-> display_start_line]

\* What GL_putchar starts from: a new line takes effect with the next character.
AtCursor ==
    IF last_char_was_CR THEN Scrolled
    ELSE [Y |-> cursor_Y, scrolling |-> scrolling, frame |-> frame, start |-> display_start_line]

\* The state after at most one scroll, with the cursor at X, Y.
Written(at, screen, X, Y, ended) ==
    /\ FGA_mode = GL_MODE_OLED
    /\ figure = None
    /\ frame' = screen
    /\ cursor_X' = X
    /\ cursor_Y' = Y
    /\ last_char_was_CR' = ended
    /\ scrolling' = at.scrolling
    /\ display_start_line' = at.start
    /\ start_line' = at.start
    /\ UNCHANGED <<FGA_mode, figure>>

GL_putchar(c) ==
    LET at   == AtCursor
        full == cursor_X + FONT_WIDTH >= GL_width
    IN Written(at, GL_putchar_xy(at.frame, cursor_X, at.Y, c),
               IF full THEN 0 ELSE cursor_X + FONT_WIDTH,
               IF full THEN at.Y + FONT_HEIGHT ELSE at.Y,
               full)

NewLine == LET at == AtCursor IN Written(at, at.frame, 0, at.Y + FONT_HEIGHT, TRUE)

\* A carriage return goes one character back.
CarriageReturn ==
    LET at == AtCursor
    IN Written(at, at.frame, IF cursor_X >= FONT_WIDTH THEN cursor_X - FONT_WIDTH ELSE cursor_X,
               at.Y, FALSE)

\* Programs go back to a place of a screen that has not moved.
GL_tty_goto_xy(X, Y) ==
    /\ FGA_mode = GL_MODE_OLED /\ figure = None
    /\ ~scrolling
    /\ cursor_X' = X
    /\ cursor_Y' = Y
    /\ UNCHANGED <<FGA_mode, frame, start_line, scrolling, display_start_line, last_char_was_CR, figure>>

GL_clear ==
    /\ FGA_mode = GL_MODE_OLED /\ figure = None
    /\ frame' = Painted(GL_fill_rect(0, 0, GL_width - 1, GL_height - 1), GL_BG)
    /\ UNCHANGED <<FGA_mode, start_line, ttyVars, figure>>

\* It leaves last_char_was_CR alone.
GL_tty_init(mode) ==
    /\ GL_init(mode)
    /\ start_line' = 0
    /\ cursor_X' = 0
    /\ cursor_Y' = 0
    /\ scrolling' = FALSE
    /\ display_start_line' = 0
    /\ figure' = None
    /\ UNCHANGED last_char_was_CR

-------------------------------------------------------------------------------
(* Figures. *)

\* Bound: a figure is drawn on a screen just cleared.
Fresh ==
    /\ figure = None
    /\ cursor_X = 0 /\ cursor_Y = 0 /\ ~scrolling /\ ~last_char_was_CR
    /\ frame = Blank(FGA_mode)

Draws(pixels) ==
    /\ frame' = Painted(pixels, INK)
    /\ UNCHANGED <<FGA_mode, start_line, ttyVars>>

PointsNear == (-MARGIN .. GL_width - 1 + MARGIN) \X (-MARGIN .. GL_height - 1 + MARGIN)
Corners    == {c - MARGIN : c \in Columns} \X {r - MARGIN : r \in Rows}

DrawLine(p, q) ==
    /\ Draws(GL_line(p, q))
    /\ figure' = [shape |-> "line", points |-> <<p, q>>]

DrawPolygon(points, polygon_mode, culling) ==
    /\ \E garbage \in Garbage : Draws(GL_fill_poly(points, polygon_mode, culling, garbage))
    /\ figure' = [shape |-> polygon_mode, points |-> points, culling |-> culling]

DrawRectangle(p, q) ==
    /\ OnScreen(<<p, q>>)
    /\ p[1] <= q[1] /\ p[2] <= q[2]
    /\ Draws(GL_fill_rect(p[1], p[2], q[1], q[2]))
    /\ figure' = [shape |-> "rectangle", points |-> <<p, q>>]

DrawPixel(p) ==
    /\ OnScreen(<<p>>)
    /\ Draws(GL_setpixel(p[1], p[2]))
    /\ figure' = [shape |-> "rectangle", points |-> <<p, p>>]

Draw ==
    /\ Fresh
    /\ \/ \E p, q \in PointsNear : DrawLine(p, q)
       \/ \E p, q, r \in Corners, polygon_mode \in {"GL_POLY_LINES", "GL_POLY_FILL"},
               culling \in {"GL_FRONT_FACE", "GL_BACK_FACE", "GL_FRONT_AND_BACK"} :
               DrawPolygon(<<p, q, r>>, polygon_mode, culling)
       \/ \E p, q \in PointsNear : DrawRectangle(p, q)
       \/ \E p \in PointsNear : DrawPixel(p)

-------------------------------------------------------------------------------
TerminalNext ==
    \/ \E c \in Chars : GL_putchar(c)
    \/ NewLine
    \/ CarriageReturn
    \/ \E X \in 0 .. GL_width - 1, Y \in 0 .. GL_height - 1 :
            X % FONT_WIDTH = 0 /\ Y % FONT_HEIGHT = 0 /\ GL_tty_goto_xy(X, Y)
    \/ GL_clear
    \/ \E mode \in {GL_MODE_OLED, GL_MODE_FGA} : GL_tty_init(mode)
    \/ Draw

TerminalInit ==
    /\ FGA_mode = GL_MODE_OLED
    /\ frame = Blank(GL_MODE_OLED)
    /\ start_line = 0
    /\ cursor_X = 0 /\ cursor_Y = 0
    /\ scrolling = FALSE
    /\ display_start_line = 0
    /\ last_char_was_CR = FALSE
    /\ figure = None

TerminalSpec == TerminalInit /\ [][TerminalNext]_terminalVars

-------------------------------------------------------------------------------
(* What is on the screen. *)

COLUMNS == (OLED_WIDTH + FONT_WIDTH - 1) \div FONT_WIDTH
LINES   == OLED_HEIGHT \div FONT_HEIGHT

\* The character in a cell, as far as the panel shows it.
CellIs(l, c, char) ==
    \A i \in 0 .. FONT_WIDTH - 1, j \in 0 .. FONT_HEIGHT - 1 :
        c * FONT_WIDTH + i < OLED_WIDTH =>
            ShownRow(l * FONT_HEIGHT + j)[c * FONT_WIDTH + i] = Glyph(char, i, j)

CharAt(l, c) ==
    IF \E char \in Chars \cup {SPACE} : CellIs(l, c, char)
    THEN CHOOSE char \in Chars \cup {SPACE} : CellIs(l, c, char)
    ELSE "garbled"

\* The line of the cursor, counted from the one on top; LINES is below the last one.
LineOfCursor ==
    IF cursor_Y = OLED_HEIGHT \/ (scrolling /\ last_char_was_CR) THEN LINES
    ELSE ((cursor_Y - start_line) % OLED_HEIGHT) \div FONT_HEIGHT

\* Without text on the screen the paper is empty.
TextMode == FGA_mode = GL_MODE_OLED /\ figure = None

TextShown ==
    [l \in 0 .. LINES - 1 |-> [c \in 0 .. COLUMNS - 1 |-> IF TextMode THEN CharAt(l, c) ELSE SPACE]]

RowShown    == IF TextMode THEN LineOfCursor ELSE 0
ColumnShown == IF TextMode THEN cursor_X \div FONT_WIDTH ELSE 0

Teletype ==
    INSTANCE Teletype WITH
        Space <- SPACE, text <- TextShown, row <- RowShown, column <- ColumnShown

\* The panel shows the last lines of what was printed, in order, although the
\* program remembers none of them: the row that it clears is the one that its
\* start line brings to the bottom.
ShowsTheText == Teletype!Spec

\* The inductive invariant: while the panel scrolls, the cursor is in the line above the one
\* that the panel shows on top, or past it, where a new line waits for its first character.
TextInv ==
    /\ last_char_was_CR \in BOOLEAN
    /\ TextMode =>
        /\ DOMAIN frame = 0 .. OLED_HEIGHT - 1
        /\ \A y \in 0 .. OLED_HEIGHT - 1 : DOMAIN frame[y] = 0 .. OLED_WIDTH - 1
        /\ start_line = display_start_line
        /\ \E top \in 0 .. LINES - 1, line \in 0 .. LINES, column \in 0 .. COLUMNS - 1 :
              /\ start_line = top * FONT_HEIGHT
              /\ cursor_Y = line * FONT_HEIGHT
              /\ cursor_X = column * FONT_WIDTH
              /\ IF scrolling
                 THEN IF last_char_was_CR THEN line = top \/ (line = LINES /\ top = 0)
                      ELSE line = (IF top = 0 THEN LINES ELSE top) - 1
                 ELSE top = 0 /\ (line = LINES => last_char_was_CR)

-------------------------------------------------------------------------------
(* The figures on the screen. *)

Screen == (0 .. GL_width - 1) \X (0 .. GL_height - 1)
Inked  == {p \in Screen : frame[p[2]][p[1]] = INK}

\* Steps from p to q, along the columns or the rows.
Steps(p, q) ==
    LET dx == Abs(q[1] - p[1])
        dy == Abs(q[2] - p[2])
    IN IF dx > dy THEN dx ELSE dy

\* At most n half pixels to the wrong side of the line from p to q.
Off(p, q, r, n) == 2 * Cross(p, q, r) <= n * Steps(p, q)

Between(p, q, r) == \A k \in {1, 2} : r[k] \in Min({p[k], q[k]}) .. Max({p[k], q[k]})

NearLine(p, q, r, n) == Between(p, q, r) /\ Off(p, q, r, n) /\ Off(q, p, r, n)

AtBorder(r) == r[1] \in {0, GL_width - 1} \/ r[2] \in {0, GL_height - 1}

\* Half pixels that a figure may be off.
Slack(points) == IF OnScreen(points) THEN 0 ELSE CUT

\* A line runs at most one and a half pixels beside the true one and through
\* every pixel, but the last one, that the true line runs right through.  Where
\* its ends are moved to the border it may be further off, but it passes near
\* every such pixel that is not at the border.
LineIsRight(p, q) ==
    /\ \A r \in Inked : NearLine(p, q, r, 3 + Slack(<<p, q>>))
    /\ \A r \in Screen \ {q} :
            Between(p, q, r) /\ Cross(p, q, r) = 0 =>
                IF OnScreen(<<p, q>>) THEN r \in Inked
                ELSE AtBorder(r) \/ \E s \in Inked : Abs(s[1] - r[1]) + Abs(s[2] - r[2]) <= CUT

\* More than n half pixels inside of every edge; outside if n is negative.
InsideBy(points, r, n) ==
    \A i \in 1 .. Len(points) :
        LET p == points[i]
            q == Following(points, i)
        IN 2 * SGN(Clockwise(points)) * Cross(p, q, r) > n * Steps(p, q)

\* A row whose span may be cut short: a corner lies in it, and the part of an edge
\* that is left from there to the side of the screen may be level, in which case
\* it is stored as both ends of the row.
LevelWithACorner(points, y) ==
    \E p, q \in Range(points) : code(p) = {} /\ p[2] = y /\ code(q) \cap {"LEFT", "RIGHT"} # {}

\* The rows whose spans a filling stores.  The first row of the panel is filled
\* from uninitialized memory unless an edge lies in it.
StoredRows == IF FGA_mode = GL_MODE_OLED THEN 1 .. GL_height - 1 ELSE 0 .. GL_height - 1

\* Every pixel inside of a triangle is filled; with some slack if it is cut off at
\* the border, but for rows that may be cut short.
FillsTheInside(points) ==
    \A r \in Screen : r[2] \in StoredRows /\ InsideBy(points, r, 2 * Slack(points)) =>
        r \in Inked \/ LevelWithACorner(points, r[2])

\* And none that is one and a half pixels outside, with some slack as well.
StaysInside(points) ==
    Clockwise(points) # 0 =>
        \A r \in Inked : r[2] \in StoredRows => InsideBy(points, r, -3 - Slack(points))

TriangleIsRight(points) == FillsTheInside(points) /\ StaysInside(points)

\* The outline follows the edges and, where the triangle is cut off, the border.
OutlineIsRight(points) ==
    LET edges == {<<points[i], Following(points, i)>> : i \in 1 .. Len(points)}
    IN /\ \A r \in Inked : (AtBorder(r) /\ ~OnScreen(points)) \/ \E e \in edges : NearLine(e[1], e[2], r, 3 + Slack(points))
       /\ OnScreen(points) =>
            \A r \in Screen, e \in edges :
                e[1] # e[2] /\ Between(e[1], e[2], r) /\ Cross(e[1], e[2], r) = 0 => r \in Inked

\* What is drawn is the figure asked for, whatever part of it is off the screen:
\* the pixels of a line, of the filled or outlined triangle that faces the
\* viewer, or of a rectangle, and no pixel that the adapter finds in another row.
\* Of a filled triangle it says nothing about the first row of the panel, nor that a
\* row with a level rest of an edge at a corner is filled: see FillsEveryScanline.
FiguresAreRight ==
    CASE figure.shape = "line" -> LineIsRight(figure.points[1], figure.points[2])
      [] figure.shape = "rectangle" ->
            Inked = {r \in Screen : Between(figure.points[1], figure.points[2], r)}
      [] figure.shape \in {"GL_POLY_FILL", "GL_POLY_LINES"} ->
            IF Culled(figure.culling, Clockwise(figure.points)) THEN Inked = {}
            ELSE IF figure.shape = "GL_POLY_FILL" THEN TriangleIsRight(figure.points)
            ELSE OutlineIsRight(figure.points)
      [] OTHER -> Inked = {}

\* The spans are found for each scan line, as the comment in gl_fill_poly has it: every
\* pixel inside of a filled triangle is filled and none that is one and a half pixels
\* outside, with the slack of a triangle that is cut off, in every row.
FillsEveryScanline ==
    LET points == figure.points
    IN  figure.shape = "GL_POLY_FILL" /\ ~Culled(figure.culling, Clockwise(points)) =>
            \A r \in Screen :
                /\ InsideBy(points, r, 2 * Slack(points)) => r \in Inked
                /\ r \in Inked /\ Clockwise(points) # 0 => InsideBy(points, r, -3 - Slack(points))

===============================================================================
