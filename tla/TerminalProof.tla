---------------------------- MODULE TerminalProof -----------------------------
(***************************************************************************)
(* The terminal shows the text, whatever the sizes of the panel and of the *)
(* font.  It is an argument about lines of the panel: line l of the text   *)
(* is Block(top, l), and a new line below the last one moves top by one    *)
(* and clears the block that comes to the bottom.                          *)
(*                                                                         *)
(* And the pixels of a segment, between any two points: the loop of        *)
(* GL_line is solved.  At step u of d steps over m columns it is at        *)
(* Column(d, m, u), the nearest whole number to m * u / d, and so half a   *)
(* pixel from the true line.                                               *)
(***************************************************************************)
EXTENDS Terminal, WellFoundedInduction, TLAPS

-------------------------------------------------------------------------------
(* The text: numbers. *)

\* A number is one multiple and one remainder.
LEMMA OneMultiple ==
  ASSUME NEW n \in Nat \ {0}, NEW q \in Int, NEW p \in Int,
         NEW r \in 0 .. n - 1, NEW s \in 0 .. n - 1, q * n + r = p * n + s
  PROVE  q = p /\ r = s
<1>1. CASE q > p
  <2>1. PICK d \in Nat \ {0} : q = p + d
    <3>1. q - p \in Nat \ {0} /\ q = p + (q - p)
      BY <1>1
    <3> QED BY <3>1
  <2>2. (p + d) * n = p * n + d * n /\ d * n >= n /\ p * n \in Int
    OBVIOUS
  <2> QED BY <2>1, <2>2
<1>2. CASE p > q
  <2>1. PICK d \in Nat \ {0} : p = q + d
    <3>1. p - q \in Nat \ {0} /\ p = q + (p - q)
      BY <1>2
    <3> QED BY <3>1
  <2>2. (q + d) * n = q * n + d * n /\ d * n >= n /\ q * n \in Int
    OBVIOUS
  <2> QED BY <2>1, <2>2
<1>3. CASE q = p
  <2>1. q * n \in Int
    OBVIOUS
  <2> QED BY <2>1, <1>3
<1> QED BY <1>1, <1>2, <1>3

\* Quotient and remainder.
LEMMA Divided ==
  ASSUME NEW n \in Nat \ {0}, NEW a \in Int
  PROVE  \E q \in Int, r \in 0 .. n - 1 : a = q * n + r /\ a \div n = q /\ a % n = r
<1>1. PICK q \in Int : q = a \div n
  OBVIOUS
<1>2. PICK r \in 0 .. n - 1 : r = a % n
  OBVIOUS
<1>3. a = n * q + r
  BY <1>1, <1>2, Z3
<1>4. n * q = q * n
  OBVIOUS
<1> QED
  BY <1>1, <1>2, <1>3, <1>4

\* What is divided is one quotient and one remainder.
LEMMA DividedBy ==
  ASSUME NEW n \in Nat \ {0}, NEW q \in Int, NEW r \in 0 .. n - 1, NEW a, a = q * n + r
  PROVE  a \div n = q /\ a % n = r
<1>1. a \in Int
  <2>1. q * n \in Int
    OBVIOUS
  <2> QED BY <2>1
<1>2. PICK p \in Int, s \in 0 .. n - 1 : a = p * n + s /\ a \div n = p /\ a % n = s
  BY <1>1, Divided
<1> QED
  BY <1>2, OneMultiple

\* A smaller multiple is smaller by one at least.
LEMMA Multiples ==
  ASSUME NEW n \in Nat \ {0}, NEW i \in Int, NEW j \in Int
  PROVE  /\ i * n \in Int /\ (i + 1) * n = i * n + n /\ (i + j) * n = i * n + j * n
         /\ (i - j) * n = i * n - j * n
         /\ i < j => i * n + n <= j * n
         /\ i <= j => i * n <= j * n
         /\ i >= 0 => i * n >= 0
<1>1. i * n \in Int /\ (i + 1) * n = i * n + n /\ (i + j) * n = i * n + j * n
      /\ (i - j) * n = i * n - j * n
  OBVIOUS
<1>2. ASSUME NEW k \in Nat
      PROVE  k * n >= 0 /\ k * n \in Int
  BY <1>2
<1>3. i >= 0 => i * n >= 0
  BY <1>2
<1>4. ASSUME i <= j PROVE i * n <= j * n
  <2>1. PICK k \in Nat : j = i + k
    <3>1. j - i \in Nat /\ j = i + (j - i)
      BY <1>4
    <3> QED BY <3>1
  <2>2. (i + k) * n = i * n + k * n
    OBVIOUS
  <2> QED BY <1>1, <1>2, <2>1, <2>2
<1>5. ASSUME i < j PROVE i * n + n <= j * n
  <2>1. PICK k \in Nat : j = (i + 1) + k
    <3>1. j - (i + 1) \in Nat /\ j = (i + 1) + (j - (i + 1))
      BY <1>5
    <3> QED BY <3>1
  <2>2. ((i + 1) + k) * n = (i + 1) * n + k * n
    OBVIOUS
  <2> QED BY <1>1, <1>2, <2>1, <2>2
<1> QED BY <1>1, <1>3, <1>4, <1>5

\* The panel is LINES lines high, and the last column of COLUMNS begins on it.
LEMMA Cells ==
  /\ FONT_WIDTH \in Nat \ {0} /\ FONT_HEIGHT \in Nat \ {0}
  /\ OLED_WIDTH \in Nat \ {0} /\ OLED_HEIGHT \in Nat \ {0}
  /\ LINES \in Nat \ {0} /\ OLED_HEIGHT = LINES * FONT_HEIGHT
  /\ COLUMNS \in Nat \ {0}
  /\ (COLUMNS - 1) * FONT_WIDTH < OLED_WIDTH /\ OLED_WIDTH <= COLUMNS * FONT_WIDTH
<1>1. /\ FONT_WIDTH \in Nat \ {0} /\ FONT_HEIGHT \in Nat \ {0}
      /\ OLED_WIDTH \in Nat \ {0} /\ OLED_HEIGHT \in Nat \ {0}
  BY FontAssumption, ScreenAssumption
<1>2. LINES \in Int /\ OLED_HEIGHT = LINES * FONT_HEIGHT
  <2>1. PICK q \in Int, r \in 0 .. FONT_HEIGHT - 1 :
          /\ OLED_HEIGHT = q * FONT_HEIGHT + r
          /\ OLED_HEIGHT \div FONT_HEIGHT = q /\ OLED_HEIGHT % FONT_HEIGHT = r
    BY <1>1, Divided
  <2>2. r = 0 /\ q * FONT_HEIGHT \in Int
    BY <1>1, <2>1, FontAssumption
  <2> QED BY <2>1, <2>2 DEF LINES
<1>3. LINES \in Nat \ {0}
  <2>1. LINES <= 0 => LINES * FONT_HEIGHT <= 0 * FONT_HEIGHT
    BY <1>1, <1>2, Multiples
  <2>2. 0 * FONT_HEIGHT = 0
    BY <1>1
  <2> QED BY <1>1, <1>2, <2>1, <2>2
<1>4. PICK q \in Int, r \in 0 .. FONT_WIDTH - 1 :
        OLED_WIDTH + FONT_WIDTH - 1 = q * FONT_WIDTH + r /\ COLUMNS = q
  <2>1. OLED_WIDTH + FONT_WIDTH - 1 \in Int
    BY <1>1
  <2> QED BY <1>1, <2>1, Divided DEF COLUMNS
<1>5. /\ q * FONT_WIDTH \in Int /\ (q - 1) * FONT_WIDTH = q * FONT_WIDTH - 1 * FONT_WIDTH
      /\ 1 * FONT_WIDTH = FONT_WIDTH
  BY <1>1, Multiples
<1>6. (q - 1) * FONT_WIDTH < OLED_WIDTH /\ OLED_WIDTH <= q * FONT_WIDTH
  BY <1>1, <1>4, <1>5
<1>7. q \in Nat \ {0}
  <2>1. q <= 0 => q * FONT_WIDTH <= 0 * FONT_WIDTH
    BY <1>1, Multiples
  <2>2. 0 * FONT_WIDTH = 0
    BY <1>1
  <2> QED BY <1>1, <1>6, <2>1, <2>2
<1> QED
  BY <1>1, <1>2, <1>3, <1>4, <1>6, <1>7

\* Pixels of a cell: those of line b and column c of the panel, whatever line is on top.
Cell(f, b, c, char) ==
    \A i \in 0 .. FONT_WIDTH - 1, j \in 0 .. FONT_HEIGHT - 1 :
        c * FONT_WIDTH + i < OLED_WIDTH =>
            f[b * FONT_HEIGHT + j][c * FONT_WIDTH + i] = Glyph(char, i, j)

Panel(f) ==
    /\ DOMAIN f = 0 .. OLED_HEIGHT - 1
    /\ \A y \in 0 .. OLED_HEIGHT - 1 : DOMAIN f[y] = 0 .. OLED_WIDTH - 1

Signs == Chars \cup {SPACE}

\* What is read in a cell.
ReadAs(f, b, c, v) ==
    \/ v \in Signs /\ Cell(f, b, c, v)
    \/ v = "garbled" /\ \A char \in Signs : ~Cell(f, b, c, char)

\* A cell shows one character: every one has a pixel of its own in the corner.
LEMMA OneSign ==
  ASSUME NEW f, NEW b, NEW c \in 0 .. COLUMNS - 1, NEW s, NEW t, Cell(f, b, c, s), Cell(f, b, c, t)
  PROVE  s = t
<1>1. c * FONT_WIDTH + 0 < OLED_WIDTH
  <2>1. c \in Int /\ COLUMNS - 1 \in Int /\ c <= COLUMNS - 1
    BY Cells
  <2>2. c * FONT_WIDTH <= (COLUMNS - 1) * FONT_WIDTH /\ c * FONT_WIDTH \in Int
        /\ (COLUMNS - 1) * FONT_WIDTH \in Int
    BY <2>1, Cells, Multiples
  <2> QED
    BY <2>2, Cells
<1>2. 0 \in 0 .. FONT_WIDTH - 1 /\ 0 \in 0 .. FONT_HEIGHT - 1
  BY Cells
<1>3. Glyph(s, 0, 0) = Glyph(t, 0, 0)
  BY <1>1, <1>2 DEF Cell
<1> QED
  BY <1>3 DEF Glyph, GL_BG

\* A cell of the same pixels reads the same.
LEMMA SameReading ==
  ASSUME NEW f, NEW g, NEW b, NEW d, NEW c, NEW v,
         \A char : Cell(g, d, c, char) <=> Cell(f, b, c, char)
  PROVE  ReadAs(g, d, c, v) <=> ReadAs(f, b, c, v)
BY DEF ReadAs

\* Where a pixel of a cell is.
LEMMA PixelOf ==
  ASSUME NEW b \in 0 .. LINES - 1, NEW c \in 0 .. COLUMNS - 1,
         NEW i \in 0 .. FONT_WIDTH - 1, NEW j \in 0 .. FONT_HEIGHT - 1,
         c * FONT_WIDTH + i < OLED_WIDTH
  PROVE  /\ b * FONT_HEIGHT + j \in 0 .. OLED_HEIGHT - 1
         /\ c * FONT_WIDTH + i \in 0 .. OLED_WIDTH - 1
         /\ \A k \in 0 .. LINES - 1 :
               b * FONT_HEIGHT + j \in k * FONT_HEIGHT .. k * FONT_HEIGHT + FONT_HEIGHT - 1 <=> b = k
         /\ \A m \in 0 .. COLUMNS - 1 :
               c * FONT_WIDTH + i \in m * FONT_WIDTH .. m * FONT_WIDTH + FONT_WIDTH - 1 <=> c = m
         /\ (c * FONT_WIDTH + i) - c * FONT_WIDTH = i
         /\ (b * FONT_HEIGHT + j) - b * FONT_HEIGHT = j
<1>1. /\ FONT_WIDTH \in Nat \ {0} /\ FONT_HEIGHT \in Nat \ {0}
      /\ OLED_WIDTH \in Nat \ {0} /\ OLED_HEIGHT \in Nat \ {0}
      /\ LINES \in Nat \ {0} /\ COLUMNS \in Nat \ {0} /\ OLED_HEIGHT = LINES * FONT_HEIGHT
  BY Cells
<1>2. b \in Int /\ c \in Int /\ 0 <= b /\ b < LINES /\ 0 <= c
  BY <1>1
<1>3. /\ b * FONT_HEIGHT \in Int /\ b * FONT_HEIGHT >= 0
      /\ b * FONT_HEIGHT + FONT_HEIGHT <= LINES * FONT_HEIGHT
  BY <1>1, <1>2, Multiples
<1>4. c * FONT_WIDTH \in Int /\ c * FONT_WIDTH >= 0
  BY <1>1, <1>2, Multiples
<1>5. ASSUME NEW n \in Nat \ {0}, NEW p \in Int, NEW q \in Int, NEW r \in 0 .. n - 1
      PROVE  p * n + r \in q * n .. q * n + n - 1 <=> p = q
  <2>1. p * n \in Int /\ q * n \in Int
    BY Multiples
  <2>2. p < q => p * n + n <= q * n
    BY Multiples
  <2>3. q < p => q * n + n <= p * n
    BY Multiples
  <2>4. p = q => p * n = q * n
    OBVIOUS
  <2> QED
    BY <2>1, <2>2, <2>3, <2>4
<1>6. \A k \in 0 .. LINES - 1 :
         b * FONT_HEIGHT + j \in k * FONT_HEIGHT .. k * FONT_HEIGHT + FONT_HEIGHT - 1 <=> b = k
  <2> TAKE k \in 0 .. LINES - 1
  <2>1. k \in Int
    BY <1>1
  <2> QED
    BY <1>1, <1>2, <1>5, <2>1
<1>7. \A m \in 0 .. COLUMNS - 1 :
         c * FONT_WIDTH + i \in m * FONT_WIDTH .. m * FONT_WIDTH + FONT_WIDTH - 1 <=> c = m
  <2> TAKE m \in 0 .. COLUMNS - 1
  <2>1. m \in Int
    BY <1>1
  <2> QED
    BY <1>1, <1>2, <1>5, <2>1
<1>8. b * FONT_HEIGHT + j \in 0 .. OLED_HEIGHT - 1 /\ c * FONT_WIDTH + i \in 0 .. OLED_WIDTH - 1
  BY <1>1, <1>3, <1>4
<1>9. (c * FONT_WIDTH + i) - c * FONT_WIDTH = i /\ (b * FONT_HEIGHT + j) - b * FONT_HEIGHT = j
  BY <1>1, <1>3, <1>4
<1> QED
  BY <1>6, <1>7, <1>8, <1>9

\* A character changes its own cell.
LEMMA TypedCell ==
  ASSUME NEW f, Panel(f), NEW k \in 0 .. LINES - 1, NEW m \in 0 .. COLUMNS - 1, NEW char,
         NEW g, g = GL_putchar_xy(f, m * FONT_WIDTH, k * FONT_HEIGHT, char)
  PROVE  /\ Panel(g)
         /\ Cell(g, k, m, char)
         /\ \A b \in 0 .. LINES - 1, c \in 0 .. COLUMNS - 1 : b # k \/ c # m =>
               \A v : ReadAs(g, b, c, v) <=> ReadAs(f, b, c, v)
<1>1. g = [y \in 0 .. OLED_HEIGHT - 1 |-> [x \in DOMAIN f[y] |->
            IF /\ x \in m * FONT_WIDTH .. m * FONT_WIDTH + FONT_WIDTH - 1
               /\ y \in k * FONT_HEIGHT .. k * FONT_HEIGHT + FONT_HEIGHT - 1
            THEN Glyph(char, x - m * FONT_WIDTH, y - k * FONT_HEIGHT) ELSE f[y][x]]]
  BY DEF Panel, GL_putchar_xy
<1>2. Panel(g)
  BY <1>1 DEF Panel
<1>3. ASSUME NEW b \in 0 .. LINES - 1, NEW c \in 0 .. COLUMNS - 1,
             NEW i \in 0 .. FONT_WIDTH - 1, NEW j \in 0 .. FONT_HEIGHT - 1,
             c * FONT_WIDTH + i < OLED_WIDTH
      PROVE  g[b * FONT_HEIGHT + j][c * FONT_WIDTH + i]
             = IF b = k /\ c = m THEN Glyph(char, i, j)
               ELSE f[b * FONT_HEIGHT + j][c * FONT_WIDTH + i]
  <2>1. PICK y, x : y = b * FONT_HEIGHT + j /\ x = c * FONT_WIDTH + i
    OBVIOUS
  <2>2. /\ y \in 0 .. OLED_HEIGHT - 1 /\ x \in 0 .. OLED_WIDTH - 1
        /\ y \in k * FONT_HEIGHT .. k * FONT_HEIGHT + FONT_HEIGHT - 1 <=> b = k
        /\ x \in m * FONT_WIDTH .. m * FONT_WIDTH + FONT_WIDTH - 1 <=> c = m
        /\ x - c * FONT_WIDTH = i /\ y - b * FONT_HEIGHT = j
    BY <1>3, <2>1, PixelOf
  <2>3. x \in DOMAIN f[y]
    BY <2>2 DEF Panel
  <2>4. g[y][x] = IF b = k /\ c = m THEN Glyph(char, x - m * FONT_WIDTH, y - k * FONT_HEIGHT) ELSE f[y][x]
    BY <1>1, <2>2, <2>3
  <2> QED
    BY <2>1, <2>2, <2>4
<1>4. Cell(g, k, m, char)
  BY <1>3 DEF Cell
<1>5. ASSUME NEW b \in 0 .. LINES - 1, NEW c \in 0 .. COLUMNS - 1, b # k \/ c # m, NEW v
      PROVE  ReadAs(g, b, c, v) <=> ReadAs(f, b, c, v)
  <2>1. \A t : Cell(g, b, c, t) <=> Cell(f, b, c, t)
    BY <1>3, <1>5 DEF Cell
  <2> QED
    BY <2>1, SameReading
<1> QED
  BY <1>2, <1>4, <1>5

\* A line that is cleared.
LEMMA ClearedLine ==
  ASSUME NEW f, Panel(f), NEW k \in 0 .. LINES - 1,
         NEW g, g = Cleared(f, k * FONT_HEIGHT, k * FONT_HEIGHT + FONT_HEIGHT - 1)
  PROVE  /\ Panel(g)
         /\ \A c \in 0 .. COLUMNS - 1 : Cell(g, k, c, SPACE)
         /\ \A b \in 0 .. LINES - 1, c \in 0 .. COLUMNS - 1 : b # k =>
               \A v : ReadAs(g, b, c, v) <=> ReadAs(f, b, c, v)
<1>1. g = [y \in 0 .. OLED_HEIGHT - 1 |-> [x \in DOMAIN f[y] |->
            IF y \in k * FONT_HEIGHT .. k * FONT_HEIGHT + FONT_HEIGHT - 1 THEN GL_BG ELSE f[y][x]]]
  BY DEF Panel, Cleared
<1>2. Panel(g)
  BY <1>1 DEF Panel
<1>3. ASSUME NEW b \in 0 .. LINES - 1, NEW c \in 0 .. COLUMNS - 1,
             NEW i \in 0 .. FONT_WIDTH - 1, NEW j \in 0 .. FONT_HEIGHT - 1,
             c * FONT_WIDTH + i < OLED_WIDTH
      PROVE  g[b * FONT_HEIGHT + j][c * FONT_WIDTH + i]
             = IF b = k THEN GL_BG ELSE f[b * FONT_HEIGHT + j][c * FONT_WIDTH + i]
  <2>1. PICK y, x : y = b * FONT_HEIGHT + j /\ x = c * FONT_WIDTH + i
    OBVIOUS
  <2>2. /\ y \in 0 .. OLED_HEIGHT - 1 /\ x \in 0 .. OLED_WIDTH - 1
        /\ y \in k * FONT_HEIGHT .. k * FONT_HEIGHT + FONT_HEIGHT - 1 <=> b = k
    BY <1>3, <2>1, PixelOf
  <2>3. x \in DOMAIN f[y]
    BY <2>2 DEF Panel
  <2> QED
    BY <1>1, <2>1, <2>2, <2>3
<1>4. \A c \in 0 .. COLUMNS - 1 : Cell(g, k, c, SPACE)
  BY <1>3 DEF Cell, Glyph
<1>5. ASSUME NEW b \in 0 .. LINES - 1, NEW c \in 0 .. COLUMNS - 1, b # k, NEW v
      PROVE  ReadAs(g, b, c, v) <=> ReadAs(f, b, c, v)
  <2>1. \A t : Cell(g, b, c, t) <=> Cell(f, b, c, t)
    BY <1>3, <1>5 DEF Cell
  <2> QED
    BY <2>1, SameReading
<1> QED
  BY <1>2, <1>4, <1>5

\* A panel that is cleared.
LEMMA BlankPanel ==
  ASSUME NEW g, g = [y \in 0 .. OLED_HEIGHT - 1 |-> [x \in 0 .. OLED_WIDTH - 1 |-> GL_BG]]
  PROVE  /\ Panel(g)
         /\ \A b \in 0 .. LINES - 1, c \in 0 .. COLUMNS - 1 : Cell(g, b, c, SPACE)
<1>1. Panel(g)
  BY DEF Panel
<1>2. ASSUME NEW b \in 0 .. LINES - 1, NEW c \in 0 .. COLUMNS - 1,
             NEW i \in 0 .. FONT_WIDTH - 1, NEW j \in 0 .. FONT_HEIGHT - 1,
             c * FONT_WIDTH + i < OLED_WIDTH
      PROVE  g[b * FONT_HEIGHT + j][c * FONT_WIDTH + i] = GL_BG
  BY <1>2, PixelOf
<1> QED
  BY <1>1, <1>2 DEF Cell, Glyph

\* The line of the panel that is shown in row l of text.
Block(top, l) == IF top + l < LINES THEN top + l ELSE top + l - LINES

\* In a cell one thing is read.
LEMMA ReadsOnce ==
  ASSUME NEW f, NEW b, NEW c \in 0 .. COLUMNS - 1, NEW v, NEW w, ReadAs(f, b, c, v), ReadAs(f, b, c, w)
  PROVE  v = w
BY OneSign DEF ReadAs

\* The rows of a line follow each other on the panel, which goes round.
LEMMA RowsOfLine ==
  ASSUME NEW top \in 0 .. LINES - 1, NEW l \in 0 .. LINES - 1, NEW j \in 0 .. FONT_HEIGHT - 1
  PROVE  /\ Block(top, l) \in 0 .. LINES - 1
         /\ (top * FONT_HEIGHT + (l * FONT_HEIGHT + j)) % OLED_HEIGHT = Block(top, l) * FONT_HEIGHT + j
<1>1. /\ FONT_HEIGHT \in Nat \ {0} /\ OLED_HEIGHT \in Nat \ {0}
      /\ LINES \in Nat \ {0} /\ OLED_HEIGHT = LINES * FONT_HEIGHT
  BY Cells
<1>2. top \in Int /\ l \in Int /\ j \in Int /\ LINES \in Int
  BY <1>1
<1>3. PICK s \in Int : s = top + l
  BY <1>2
<1>4. /\ top * FONT_HEIGHT \in Int /\ l * FONT_HEIGHT \in Int
      /\ s * FONT_HEIGHT = top * FONT_HEIGHT + l * FONT_HEIGHT
  BY <1>1, <1>2, <1>3, Multiples
<1>5. ASSUME NEW b \in 0 .. LINES - 1, NEW q \in {0, 1}, s * FONT_HEIGHT = q * OLED_HEIGHT + b * FONT_HEIGHT
      PROVE  (top * FONT_HEIGHT + (l * FONT_HEIGHT + j)) % OLED_HEIGHT = b * FONT_HEIGHT + j
  <2>1. /\ b * FONT_HEIGHT \in Int /\ b * FONT_HEIGHT >= 0
        /\ b * FONT_HEIGHT + FONT_HEIGHT <= LINES * FONT_HEIGHT
    BY <1>1, Multiples
  <2>2. b * FONT_HEIGHT + j \in 0 .. OLED_HEIGHT - 1
    BY <1>1, <1>2, <2>1
  <2>3. q * OLED_HEIGHT \in Int
    BY <1>1
  <2>4. top * FONT_HEIGHT + (l * FONT_HEIGHT + j) = q * OLED_HEIGHT + (b * FONT_HEIGHT + j)
    BY <1>2, <1>4, <1>5, <2>1, <2>3
  <2>5. PICK r \in 0 .. OLED_HEIGHT - 1 : r = b * FONT_HEIGHT + j
    BY <2>2
  <2>6. PICK a : a = q * OLED_HEIGHT + r
    OBVIOUS
  <2>7. a % OLED_HEIGHT = r
    BY <1>1, <2>6, DividedBy
  <2>8. a = top * FONT_HEIGHT + (l * FONT_HEIGHT + j)
    BY <2>4, <2>5, <2>6
  <2> QED
    BY <2>5, <2>7, <2>8
<1>6. CASE s < LINES
  <2>1. s \in 0 .. LINES - 1 /\ Block(top, l) = s
    BY <1>1, <1>2, <1>3, <1>6 DEF Block
  <2>2. s * FONT_HEIGHT = 0 * OLED_HEIGHT + s * FONT_HEIGHT
    BY <1>1, <1>3
  <2> QED
    BY <1>5, <2>1, <2>2
<1>7. CASE ~(s < LINES)
  <2>1. s - LINES \in 0 .. LINES - 1
    BY <1>1, <1>2, <1>3, <1>7
  <2>2. Block(top, l) = s - LINES
    BY <1>1, <1>2, <1>3, <1>7 DEF Block
  <2>3. PICK b \in 0 .. LINES - 1 : b = s - LINES
    BY <2>1
  <2>4. (s - LINES) * FONT_HEIGHT = s * FONT_HEIGHT - LINES * FONT_HEIGHT
    BY <1>1, <1>2, <1>3, Multiples
  <2>5. s * FONT_HEIGHT = 1 * OLED_HEIGHT + b * FONT_HEIGHT
    <3>1. b * FONT_HEIGHT = s * FONT_HEIGHT - LINES * FONT_HEIGHT
      BY <2>3, <2>4
    <3>2. s * FONT_HEIGHT \in Int /\ 1 * OLED_HEIGHT = OLED_HEIGHT
      BY <1>1, <1>3
    <3> QED BY <1>1, <3>1, <3>2
  <2> QED
    BY <1>5, <2>2, <2>3, <2>5
<1> QED
  BY <1>6, <1>7

\* What the text shows is what is read on the panel.
TextIsRead ==
    TextMode =>
        \A top \in 0 .. LINES - 1, l \in 0 .. LINES - 1, c \in 0 .. COLUMNS - 1 :
            start_line = top * FONT_HEIGHT => ReadAs(frame, Block(top, l), c, TextShown[l][c])

\* CharAt finds the character that the pixels of the cell are, through ShownRow.
LEMMA TextRead == TextIsRead
<1> SUFFICES ASSUME TextMode, NEW top \in 0 .. LINES - 1, NEW l \in 0 .. LINES - 1,
                    NEW c \in 0 .. COLUMNS - 1, start_line = top * FONT_HEIGHT
             PROVE  ReadAs(frame, Block(top, l), c, TextShown[l][c])
  BY DEF TextIsRead
<1>1. GL_height = OLED_HEIGHT
  BY DEF TextMode, GL_height, HeightOf
<1>2. \A char : CellIs(l, c, char) <=> Cell(frame, Block(top, l), c, char)
  <2>1. \A j \in 0 .. FONT_HEIGHT - 1 :
           ShownRow(l * FONT_HEIGHT + j) = frame[Block(top, l) * FONT_HEIGHT + j]
    BY <1>1, RowsOfLine DEF ShownRow
  <2> QED
    BY <2>1 DEF CellIs, Cell
<1>3. TextShown[l][c] = CharAt(l, c)
  BY DEF TextShown
<1>4. CASE \E char \in Signs : CellIs(l, c, char)
  <2>1. CharAt(l, c) \in Signs /\ CellIs(l, c, CharAt(l, c))
    BY <1>4 DEF CharAt, Signs
  <2> QED
    BY <1>2, <1>3, <2>1 DEF ReadAs
<1>5. CASE ~\E char \in Signs : CellIs(l, c, char)
  <2>1. CharAt(l, c) = "garbled"
    BY <1>5 DEF CharAt, Signs
  <2> QED
    BY <1>2, <1>3, <1>5, <2>1 DEF ReadAs
<1> QED
  BY <1>4, <1>5

\* What the lines of text may be.
Texts == [0 .. LINES - 1 -> [0 .. COLUMNS - 1 -> Signs \cup {"garbled"}]]

\* A cell of the text shows a character, or is garbled.
LEMMA TextTyped == TextShown \in Texts
<1>1. \A l \in 0 .. LINES - 1, c \in 0 .. COLUMNS - 1 :
         (IF TextMode THEN CharAt(l, c) ELSE SPACE) \in Signs \cup {"garbled"}
  BY DEF CharAt, Signs
<1> QED
  BY <1>1 DEF TextShown, Texts

\* Two texts with the same characters are the same.
LEMMA SameText ==
  ASSUME NEW t \in Texts, NEW u \in Texts,
         \A l \in 0 .. LINES - 1, c \in 0 .. COLUMNS - 1 : t[l][c] = u[l][c]
  PROVE  t = u
<1>1. PICK n \in Nat, m \in Nat : LINES = n /\ COLUMNS = m
  BY Cells
<1>2. PICK V : t \in [0 .. n - 1 -> [0 .. m - 1 -> V]] /\ u \in [0 .. n - 1 -> [0 .. m - 1 -> V]]
  BY <1>1 DEF Texts
<1>3. ASSUME NEW l \in 0 .. n - 1
      PROVE  t[l] = u[l]
  <2>1. t[l] \in [0 .. m - 1 -> V] /\ u[l] \in [0 .. m - 1 -> V]
    BY <1>2
  <2>2. \A c \in 0 .. m - 1 : t[l][c] = u[l][c]
    BY <1>1
  <2> QED BY <2>1, <2>2
<1> QED
  BY <1>2, <1>3

\* The line and the column of the cursor.
CursorIsShown ==
    TextMode =>
        \A top \in 0 .. LINES - 1, row \in 0 .. LINES, column \in 0 .. COLUMNS - 1 :
            /\ start_line = top * FONT_HEIGHT
            /\ cursor_Y = row * FONT_HEIGHT
            /\ cursor_X = column * FONT_WIDTH
            /\ scrolling /\ ~last_char_was_CR => row = (IF top = 0 THEN LINES ELSE top) - 1
            /\ ~scrolling => top = 0
            =>
            /\ RowShown = IF row = LINES \/ (scrolling /\ last_char_was_CR) THEN LINES
                          ELSE IF scrolling THEN LINES - 1 ELSE row
            /\ ColumnShown = column

\* LineOfCursor counts the lines from the one on top, and waits below the last one
\* until the panel scrolls.
LEMMA CursorShown == CursorIsShown
<1> SUFFICES ASSUME TextMode,
                    NEW top \in 0 .. LINES - 1, NEW row \in 0 .. LINES, NEW column \in 0 .. COLUMNS - 1,
                    start_line = top * FONT_HEIGHT,
                    cursor_Y = row * FONT_HEIGHT,
                    cursor_X = column * FONT_WIDTH,
                    scrolling /\ ~last_char_was_CR => row = (IF top = 0 THEN LINES ELSE top) - 1,
                    ~scrolling => top = 0
             PROVE  /\ RowShown = IF row = LINES \/ (scrolling /\ last_char_was_CR) THEN LINES
                                  ELSE IF scrolling THEN LINES - 1 ELSE row
                    /\ ColumnShown = column
  BY DEF CursorIsShown
<1>1. /\ FONT_WIDTH \in Nat \ {0} /\ FONT_HEIGHT \in Nat \ {0} /\ OLED_HEIGHT \in Nat \ {0}
      /\ LINES \in Nat \ {0} /\ OLED_HEIGHT = LINES * FONT_HEIGHT /\ COLUMNS \in Nat \ {0}
  BY Cells
<1>2. ColumnShown = column
  <2>1. column \in Int /\ 0 \in 0 .. FONT_WIDTH - 1
    BY <1>1
  <2>2. column * FONT_WIDTH = column * FONT_WIDTH + 0
    BY <1>1, <2>1, Multiples
  <2>3. (column * FONT_WIDTH) \div FONT_WIDTH = column
    BY <1>1, <2>1, <2>2, DividedBy
  <2> QED
    BY <2>3 DEF ColumnShown
<1>3. top \in Int /\ row \in Int /\ LINES \in Int /\ -1 \in Int
  BY <1>1
<1>4. cursor_Y = OLED_HEIGHT <=> row = LINES
  <2>1. row < LINES => row * FONT_HEIGHT + FONT_HEIGHT <= LINES * FONT_HEIGHT
    BY <1>1, <1>3, Multiples
  <2>2. row * FONT_HEIGHT \in Int /\ LINES * FONT_HEIGHT \in Int
    BY <1>1, <1>3, Multiples
  <2> QED
    BY <1>1, <1>3, <2>1, <2>2
<1>5. CASE row = LINES \/ (scrolling /\ last_char_was_CR)
  BY <1>2, <1>4, <1>5 DEF RowShown, LineOfCursor
<1>6. ASSUME ~(row = LINES \/ (scrolling /\ last_char_was_CR)), NEW r \in 0 .. LINES - 1, NEW q \in {0, -1},
             row - top = r + (IF q = -1 THEN -LINES ELSE 0)
      PROVE  RowShown = r
  <2>1. PICK d \in Int : d = row - top
    BY <1>3
  <2>2. /\ d * FONT_HEIGHT = row * FONT_HEIGHT - top * FONT_HEIGHT
        /\ r * FONT_HEIGHT \in Int /\ r * FONT_HEIGHT >= 0
        /\ r * FONT_HEIGHT + FONT_HEIGHT <= LINES * FONT_HEIGHT
        /\ (r - LINES) * FONT_HEIGHT = r * FONT_HEIGHT - LINES * FONT_HEIGHT
    BY <1>1, <1>3, <2>1, Multiples
  <2>3. d * FONT_HEIGHT = q * OLED_HEIGHT + r * FONT_HEIGHT
    <3>1. CASE q = 0
      <4>1. q * OLED_HEIGHT = 0 /\ d = r
        BY <1>1, <1>6, <2>1, <3>1
      <4>2. d * FONT_HEIGHT = r * FONT_HEIGHT
        BY <4>1
      <4> QED BY <2>2, <4>1, <4>2
    <3>2. CASE q = -1
      <4>1. q * OLED_HEIGHT = -OLED_HEIGHT /\ d = r - LINES
        BY <1>1, <1>6, <2>1, <3>2
      <4>2. d * FONT_HEIGHT = r * FONT_HEIGHT - LINES * FONT_HEIGHT
        BY <2>2, <4>1
      <4> QED BY <1>1, <2>2, <4>1, <4>2
    <3> QED BY <3>1, <3>2
  <2>4. cursor_Y - start_line = q * OLED_HEIGHT + r * FONT_HEIGHT
    BY <2>2, <2>3
  <2>5. r * FONT_HEIGHT \in 0 .. OLED_HEIGHT - 1
    BY <1>1, <2>2
  <2>6. (cursor_Y - start_line) % OLED_HEIGHT = r * FONT_HEIGHT
    <3>1. PICK p \in 0 .. OLED_HEIGHT - 1 : p = r * FONT_HEIGHT
      BY <2>5
    <3>2. PICK a : a = q * OLED_HEIGHT + p
      OBVIOUS
    <3>3. a % OLED_HEIGHT = p
      BY <1>1, <3>2, DividedBy
    <3>4. a = cursor_Y - start_line
      BY <2>4, <3>1, <3>2
    <3> QED BY <3>1, <3>3, <3>4
  <2>7. r * FONT_HEIGHT = r * FONT_HEIGHT + 0 /\ 0 \in 0 .. FONT_HEIGHT - 1 /\ r \in Int
    BY <1>1, <2>2
  <2>8. (r * FONT_HEIGHT) \div FONT_HEIGHT = r
    BY <1>1, <2>7, DividedBy
  <2> QED
    BY <1>4, <1>6, <2>6, <2>8 DEF RowShown, LineOfCursor
<1>7. CASE ~(row = LINES \/ (scrolling /\ last_char_was_CR)) /\ ~scrolling
  <2>1. row \in 0 .. LINES - 1 /\ row - top = row + (IF 0 = -1 THEN -LINES ELSE 0)
    BY <1>1, <1>7
  <2> QED
    BY <1>2, <1>6, <1>7, <2>1
<1>8. CASE ~(row = LINES \/ (scrolling /\ last_char_was_CR)) /\ scrolling
  <2>1. LINES - 1 \in 0 .. LINES - 1
    BY <1>1
  <2>2. CASE top = 0
    <3>1. row - top = (LINES - 1) + (IF 0 = -1 THEN -LINES ELSE 0)
      BY <1>1, <1>8, <2>2
    <3> QED BY <1>2, <1>6, <1>8, <2>1, <3>1
  <2>3. CASE top # 0
    <3>1. row - top = (LINES - 1) + (IF -1 = -1 THEN -LINES ELSE 0)
      BY <1>1, <1>8, <2>3
    <3> QED BY <1>2, <1>6, <1>8, <2>1, <3>1
  <2> QED BY <2>2, <2>3
<1> QED
  BY <1>5, <1>7, <1>8

\* What a character starts from: the cursor is in a line of the panel, after a scroll in the last one.
Ready(cursor, top, row, column) ==
    /\ cursor.start = top * FONT_HEIGHT /\ cursor.Y = row * FONT_HEIGHT /\ cursor_X = column * FONT_WIDTH
    /\ Panel(cursor.frame)
    /\ cursor.scrolling => row = (IF top = 0 THEN LINES ELSE top) - 1
    /\ ~cursor.scrolling => top = 0
    /\ Teletype!Line \in 0 .. LINES - 1
    /\ cursor.scrolling => Teletype!Line = LINES - 1
    /\ ~cursor.scrolling => Teletype!Line = row
    /\ Block(top, Teletype!Line) = row
    /\ ColumnShown = column
    /\ Teletype!Paper \in Texts
    /\ \A l \in 0 .. LINES - 1, c \in 0 .. COLUMNS - 1 :
          ReadAs(cursor.frame, Block(top, l), c, Teletype!Paper[l][c])

\* The lines of text lie on different lines of the panel.
LEMMA BlocksDiffer ==
  ASSUME NEW top \in 0 .. LINES - 1, NEW l \in 0 .. LINES - 1, NEW i \in 0 .. LINES - 1,
         Block(top, l) = Block(top, i)
  PROVE  l = i
<1>1. LINES \in Int /\ top \in Int /\ l \in Int /\ i \in Int
  BY Cells
<1>2. CASE top + l < LINES /\ top + i < LINES
  BY <1>1, <1>2 DEF Block
<1>3. CASE top + l < LINES /\ ~(top + i < LINES)
  <2>1. top + l = top + i - LINES
    BY <1>3 DEF Block
  <2> QED BY <1>1, <2>1
<1>4. CASE ~(top + l < LINES) /\ top + i < LINES
  <2>1. top + l - LINES = top + i
    BY <1>4 DEF Block
  <2> QED BY <1>1, <2>1
<1>5. CASE ~(top + l < LINES) /\ ~(top + i < LINES)
  <2>1. top + l - LINES = top + i - LINES
    BY <1>5 DEF Block
  <2> QED BY <1>1, <2>1
<1> QED
  BY <1>2, <1>3, <1>4, <1>5

\* With the next line on top, the lines move up and the old top comes last.
LEMMA BlocksMove ==
  ASSUME NEW top \in 0 .. LINES - 1, NEW new \in 0 .. LINES - 1, NEW l \in 0 .. LINES - 1,
         new = IF top + 1 = LINES THEN 0 ELSE top + 1
  PROVE  /\ l = LINES - 1 => Block(new, l) = top
         /\ l < LINES - 1 => Block(new, l) = Block(top, l + 1) /\ Block(new, l) # top
         /\ Block(new, l) \in 0 .. LINES - 1
<1>1. LINES \in Int /\ top \in Int /\ l \in Int
  BY Cells
<1>2. CASE top + 1 = LINES
  <2>1. new = 0
    BY <1>2
  <2>2. Block(new, l) = l
    BY <1>1, <2>1 DEF Block
  <2>3. l < LINES - 1 => Block(top, l + 1) = l
    BY <1>1, <1>2 DEF Block
  <2> QED BY <1>1, <1>2, <2>2, <2>3
<1>3. CASE top + 1 # LINES
  <2>1. new = top + 1
    BY <1>3
  <2>2. Block(new, l) = IF top + 1 + l < LINES THEN top + 1 + l ELSE top + 1 + l - LINES
    BY <1>1, <2>1 DEF Block
  <2>3. Block(top, l + 1) = IF top + 1 + l < LINES THEN top + 1 + l ELSE top + 1 + l - LINES
    BY <1>1 DEF Block
  <2>4. CASE top + 1 + l < LINES
    <3>1. Block(new, l) = top + 1 + l
      BY <2>2, <2>4
    <3> QED BY <1>1, <1>3, <2>2, <2>3, <2>4, <3>1
  <2>5. CASE ~(top + 1 + l < LINES)
    <3>1. Block(new, l) = top + 1 + l - LINES
      BY <2>2, <2>5
    <3> QED BY <1>1, <1>3, <2>2, <2>3, <2>5, <3>1
  <2> QED BY <2>4, <2>5
<1> QED
  BY <1>2, <1>3

\* What AtCursor leaves is ready: it scrolls if a new line waits below the last one, and
\* the line that Scrolled clears is the one that comes to the bottom.
LEMMA CursorReady ==
  ASSUME TextMode, TextInv
  PROVE  \E top \in 0 .. LINES - 1, row \in 0 .. LINES - 1, column \in 0 .. COLUMNS - 1 :
            Ready(AtCursor, top, row, column)
<1>1. PICK top \in 0 .. LINES - 1, row \in 0 .. LINES, column \in 0 .. COLUMNS - 1 :
        /\ start_line = top * FONT_HEIGHT
        /\ cursor_Y = row * FONT_HEIGHT
        /\ cursor_X = column * FONT_WIDTH
        /\ IF scrolling
           THEN IF last_char_was_CR THEN row = top \/ (row = LINES /\ top = 0)
                ELSE row = (IF top = 0 THEN LINES ELSE top) - 1
           ELSE top = 0 /\ (row = LINES => last_char_was_CR)
  BY DEF TextInv
<1>2. /\ FONT_HEIGHT \in Nat \ {0} /\ OLED_HEIGHT \in Nat \ {0}
      /\ LINES \in Nat \ {0} /\ OLED_HEIGHT = LINES * FONT_HEIGHT
  BY Cells
<1>3. GL_height = OLED_HEIGHT
  BY DEF TextMode, GL_height, HeightOf
<1>4. Panel(frame) /\ start_line = display_start_line /\ last_char_was_CR \in BOOLEAN
  BY DEF TextInv, Panel
<1>5. TextShown \in Texts /\ \A l \in 0 .. LINES - 1, c \in 0 .. COLUMNS - 1 :
         ReadAs(frame, Block(top, l), c, TextShown[l][c])
  BY <1>1, TextTyped, TextRead DEF TextIsRead
<1>6. /\ RowShown = IF row = LINES \/ (scrolling /\ last_char_was_CR) THEN LINES
                    ELSE IF scrolling THEN LINES - 1 ELSE row
      /\ ColumnShown = column
  BY <1>1, CursorShown DEF CursorIsShown
<1>7. cursor_Y >= GL_height <=> row = LINES
  <2>1. row \in Int /\ LINES \in Int
    BY <1>2
  <2>2. row < LINES => row * FONT_HEIGHT + FONT_HEIGHT <= LINES * FONT_HEIGHT
    BY <1>2, <2>1, Multiples
  <2>3. row * FONT_HEIGHT \in Int /\ LINES * FONT_HEIGHT \in Int
    BY <1>2, <2>1, Multiples
  <2> QED
    BY <1>1, <1>2, <1>3, <2>1, <2>2, <2>3
<1>8. CASE ~(last_char_was_CR /\ (scrolling \/ row = LINES))
  <2>1. row \in 0 .. LINES - 1
    BY <1>1, <1>2, <1>8
  <2>2. /\ AtCursor.Y = cursor_Y /\ AtCursor.frame = frame /\ AtCursor.start = display_start_line
        /\ AtCursor.scrolling <=> scrolling
    <3>1. CASE ~last_char_was_CR
      BY <3>1 DEF AtCursor
    <3>2. CASE last_char_was_CR /\ ~scrolling /\ row # LINES
      BY <1>7, <3>2 DEF AtCursor, Scrolled
    <3> QED BY <1>8, <3>1, <3>2
  <2>3. RowShown = IF scrolling THEN LINES - 1 ELSE row
    BY <1>6, <1>8, <2>1, <1>2
  <2>4. RowShown < LINES /\ RowShown \in 0 .. LINES - 1
    BY <1>2, <2>1, <2>3
  <2>5. Teletype!Line = RowShown /\ Teletype!Paper = TextShown
    BY <2>4 DEF Teletype!Line, Teletype!Paper
  <2>6. scrolling => row = (IF top = 0 THEN LINES ELSE top) - 1
    BY <1>1, <1>8
  <2>7. Block(top, RowShown) = row
    <3>1. CASE ~scrolling
      <4>1. top = 0 /\ RowShown = row
        BY <1>1, <2>3, <3>1
      <4> QED BY <1>2, <2>1, <4>1 DEF Block
    <3>2. CASE scrolling
      <4>1. RowShown = LINES - 1 /\ row = (IF top = 0 THEN LINES ELSE top) - 1
        BY <2>3, <2>6, <3>2
      <4> QED BY <1>2, <4>1 DEF Block
    <3> QED BY <3>1, <3>2
  <2>8. ~scrolling => top = 0
    BY <1>1
  <2>9. Ready(AtCursor, top, row, column)
    BY <1>1, <1>4, <1>5, <1>6, <2>2, <2>3, <2>4, <2>5, <2>6, <2>7, <2>8 DEF Ready
  <2> QED
    BY <2>1, <2>9
<1>9. CASE last_char_was_CR /\ (scrolling \/ row = LINES)
  <2>1. (IF cursor_Y >= GL_height THEN 0 ELSE cursor_Y) = top * FONT_HEIGHT
    <3>1. CASE row = LINES
      <4>1. top = 0
        BY <1>1, <1>2, <3>1
      <4>2. top * FONT_HEIGHT = 0
        BY <1>2, <4>1
      <4> QED BY <1>7, <3>1, <4>2
    <3>2. CASE row # LINES
      <4>1. row = top
        BY <1>1, <1>9, <3>2
      <4> QED BY <1>1, <1>7, <3>2, <4>1
    <3> QED BY <3>1, <3>2
  <2>2. PICK new \in 0 .. LINES - 1 : new = IF top + 1 = LINES THEN 0 ELSE top + 1
    <3>1. (IF top + 1 = LINES THEN 0 ELSE top + 1) \in 0 .. LINES - 1
      BY <1>2
    <3> QED BY <3>1
  <2>3. (IF display_start_line + FONT_HEIGHT >= GL_height THEN 0 ELSE display_start_line + FONT_HEIGHT)
        = new * FONT_HEIGHT
    <3>1. PICK n \in Int : n = top + 1
      BY <1>2
    <3>2. n * FONT_HEIGHT = display_start_line + FONT_HEIGHT
      <4>1. (top + 1) * FONT_HEIGHT = top * FONT_HEIGHT + FONT_HEIGHT
        BY <1>2, Multiples
      <4> QED BY <1>1, <1>4, <3>1, <4>1
    <3>3. LINES \in Int /\ n <= LINES
      BY <1>2, <3>1
    <3>4. /\ n * FONT_HEIGHT \in Int /\ LINES * FONT_HEIGHT \in Int
          /\ n < LINES => n * FONT_HEIGHT + FONT_HEIGHT <= LINES * FONT_HEIGHT
      BY <1>2, <3>1, <3>3, Multiples
    <3>5. CASE n = LINES
      <4>1. new * FONT_HEIGHT = 0
        BY <1>2, <2>2, <3>1, <3>5
      <4>2. display_start_line + FONT_HEIGHT = GL_height
        BY <1>2, <1>3, <3>2, <3>5
      <4> QED BY <1>2, <1>3, <4>1, <4>2
    <3>6. CASE n # LINES
      <4>1. new = n
        BY <2>2, <3>1, <3>6
      <4>2. ~(n * FONT_HEIGHT >= GL_height)
        BY <1>2, <1>3, <3>3, <3>4, <3>6
      <4> QED BY <3>2, <4>1, <4>2
    <3> QED BY <3>5, <3>6
  <2>4. /\ AtCursor.Y = top * FONT_HEIGHT
        /\ AtCursor.scrolling
        /\ AtCursor.start = new * FONT_HEIGHT
        /\ AtCursor.frame = Cleared(frame, top * FONT_HEIGHT, top * FONT_HEIGHT + FONT_HEIGHT - 1)
    <3>1. AtCursor = [Y |-> top * FONT_HEIGHT, scrolling |-> TRUE,
                      frame |-> Cleared(frame, top * FONT_HEIGHT, top * FONT_HEIGHT + FONT_HEIGHT - 1),
                      start |-> new * FONT_HEIGHT]
      BY <1>7, <1>9, <2>1, <2>3 DEF AtCursor, Scrolled
    <3> QED BY <3>1
  <2>5. PICK g : g = Cleared(frame, top * FONT_HEIGHT, top * FONT_HEIGHT + FONT_HEIGHT - 1)
    OBVIOUS
  <2>6. /\ Panel(g)
        /\ \A c \in 0 .. COLUMNS - 1 : Cell(g, top, c, SPACE)
        /\ \A b \in 0 .. LINES - 1, c \in 0 .. COLUMNS - 1 : b # top =>
              \A v : ReadAs(g, b, c, v) <=> ReadAs(frame, b, c, v)
    BY <1>4, <2>5, ClearedLine
  <2>7. RowShown = LINES /\ ~(RowShown < LINES)
    BY <1>2, <1>6, <1>9
  <2>8. /\ Teletype!Line = LINES - 1
        /\ Teletype!Paper = [l \in 0 .. LINES - 1 |->
              IF l < LINES - 1 THEN TextShown[l + 1] ELSE [c \in 0 .. COLUMNS - 1 |-> SPACE]]
    BY <2>7 DEF Teletype!Line, Teletype!Paper, Teletype!EmptyLine
  <2>9. Teletype!Paper \in Texts
    <3>1. \A l \in 0 .. LINES - 1 : l < LINES - 1 => l + 1 \in 0 .. LINES - 1
      BY <1>2
    <3>2. [c \in 0 .. COLUMNS - 1 |-> SPACE] \in [0 .. COLUMNS - 1 -> Signs \cup {"garbled"}]
      BY DEF Signs
    <3> QED BY <1>5, <2>8, <3>1, <3>2 DEF Texts
  <2>10. ASSUME NEW l \in 0 .. LINES - 1, NEW c \in 0 .. COLUMNS - 1
         PROVE  ReadAs(g, Block(new, l), c, Teletype!Paper[l][c])
    <3>1. CASE l = LINES - 1
      <4>1. Block(new, l) = top
        BY <2>2, <3>1, BlocksMove
      <4>2. Teletype!Paper[l][c] = SPACE
        BY <1>2, <2>8, <3>1
      <4> QED BY <2>6, <4>1, <4>2 DEF ReadAs, Signs
    <3>2. CASE l # LINES - 1
      <4>1. l < LINES - 1 /\ l + 1 \in 0 .. LINES - 1
        BY <1>2, <3>2
      <4>2. Block(new, l) = Block(top, l + 1) /\ Block(new, l) # top /\ Block(new, l) \in 0 .. LINES - 1
        BY <2>2, <4>1, BlocksMove
      <4>3. Teletype!Paper[l][c] = TextShown[l + 1][c]
        BY <2>8, <4>1
      <4>4. ReadAs(frame, Block(top, l + 1), c, TextShown[l + 1][c])
        BY <1>5, <4>1
      <4> QED BY <2>6, <4>2, <4>3, <4>4
    <3> QED BY <3>1, <3>2
  <2>11. top = (IF new = 0 THEN LINES ELSE new) - 1
    BY <1>2, <2>2
  <2>12. LINES - 1 \in 0 .. LINES - 1
    BY <1>2
  <2>13. Block(new, LINES - 1) = top
    BY <2>2, <2>12, BlocksMove
  <2>14. Ready(AtCursor, new, top, column)
    BY <1>1, <1>6, <2>4, <2>5, <2>6, <2>8, <2>9, <2>10, <2>11, <2>12, <2>13 DEF Ready
  <2> QED
    BY <2>14
<1> QED
  BY <1>8, <1>9

\* The same after a step.
LEMMA CursorNext == CursorIsShown'
BY CursorShown, PTL

\* The same after a step.
LEMMA TextReadNext == TextIsRead' /\ (TextShown \in Texts)'
BY TextRead, TextTyped, PTL

\* The text is what is on the screen, and the cursor is where it is to be.
Shows(shown, top, m, ended) ==
    /\ TextInv'
    /\ TextShown' \in Texts
    /\ RowShown' = IF ended THEN Teletype!Line + 1 ELSE Teletype!Line
    /\ ColumnShown' = m
    /\ \A l \in 0 .. LINES - 1, c \in 0 .. COLUMNS - 1 :
          \A v : ReadAs(shown, Block(top, l), c, v) => TextShown'[l][c] = v

\* A call that writes text shows what it wrote.
LEMMA WrittenStep ==
  ASSUME TextMode, TextInv,
         NEW cursor, NEW top \in 0 .. LINES - 1, NEW row \in 0 .. LINES - 1, NEW column \in 0 .. COLUMNS - 1,
         Ready(cursor, top, row, column),
         NEW shown, Panel(shown),
         NEW m \in 0 .. COLUMNS - 1, NEW X, X = m * FONT_WIDTH,
         NEW ended \in BOOLEAN,
         NEW Y, Y = IF ended THEN row * FONT_HEIGHT + FONT_HEIGHT ELSE row * FONT_HEIGHT,
         Written(cursor, shown, X, Y, ended)
  PROVE  Shows(shown, top, m, ended)
<1>1. LINES \in Nat \ {0} /\ FONT_HEIGHT \in Nat \ {0} /\ row \in Int
  BY Cells
<1>2. PICK k \in 0 .. LINES : k = IF ended THEN row + 1 ELSE row
  <2>1. (IF ended THEN row + 1 ELSE row) \in 0 .. LINES
    BY <1>1
  <2> QED BY <2>1
<1>3. Y = k * FONT_HEIGHT
  <2>1. (row + 1) * FONT_HEIGHT = row * FONT_HEIGHT + FONT_HEIGHT
    BY <1>1, Multiples
  <2> QED BY <1>2, <2>1
<1>4. /\ FGA_mode' = FGA_mode /\ figure' = figure
      /\ frame' = shown /\ cursor_X' = X /\ cursor_Y' = Y
      /\ last_char_was_CR' = ended
      /\ scrolling' = cursor.scrolling
      /\ display_start_line' = cursor.start /\ start_line' = cursor.start
  BY DEF Written
<1>5. TextMode'
  BY <1>4 DEF TextMode
<1>6. /\ cursor.start = top * FONT_HEIGHT
      /\ cursor.scrolling => row = (IF top = 0 THEN LINES ELSE top) - 1
      /\ ~cursor.scrolling => top = 0
      /\ cursor.scrolling => Teletype!Line = LINES - 1
      /\ ~cursor.scrolling => Teletype!Line = row
  BY DEF Ready
<1>7. TextInv'
  <2>1. DOMAIN shown = 0 .. OLED_HEIGHT - 1 /\ \A y \in 0 .. OLED_HEIGHT - 1 : DOMAIN shown[y] = 0 .. OLED_WIDTH - 1
    BY DEF Panel
  <2>2. IF cursor.scrolling
        THEN IF ended THEN k = top \/ (k = LINES /\ top = 0)
             ELSE k = (IF top = 0 THEN LINES ELSE top) - 1
        ELSE top = 0 /\ (k = LINES => ended)
    BY <1>1, <1>2, <1>6
  <2>3. /\ start_line' = top * FONT_HEIGHT
        /\ cursor_Y' = k * FONT_HEIGHT
        /\ cursor_X' = m * FONT_WIDTH
        /\ IF scrolling'
           THEN IF last_char_was_CR' THEN k = top \/ (k = LINES /\ top = 0)
                ELSE k = (IF top = 0 THEN LINES ELSE top) - 1
           ELSE top = 0 /\ (k = LINES => last_char_was_CR')
    BY <1>3, <1>4, <1>6, <2>2
  <2>4. start_line' = display_start_line' /\ last_char_was_CR' \in BOOLEAN
    BY <1>4
  <2>5. /\ DOMAIN frame' = 0 .. OLED_HEIGHT - 1
        /\ \A y \in 0 .. OLED_HEIGHT - 1 : DOMAIN frame'[y] = 0 .. OLED_WIDTH - 1
    BY <1>4, <2>1
  <2> QED
    BY <2>3, <2>4, <2>5 DEF TextInv
<1>8. /\ RowShown' = IF k = LINES \/ (cursor.scrolling /\ ended) THEN LINES
                     ELSE IF cursor.scrolling THEN LINES - 1 ELSE k
      /\ ColumnShown' = m
  <2>1. /\ start_line' = top * FONT_HEIGHT
        /\ cursor_Y' = k * FONT_HEIGHT
        /\ cursor_X' = m * FONT_WIDTH
        /\ scrolling' /\ ~last_char_was_CR' => k = (IF top = 0 THEN LINES ELSE top) - 1
        /\ ~scrolling' => top = 0
    BY <1>2, <1>3, <1>4, <1>6
  <2>2. /\ RowShown' = IF k = LINES \/ (scrolling' /\ last_char_was_CR') THEN LINES
                       ELSE IF scrolling' THEN LINES - 1 ELSE k
        /\ ColumnShown' = m
    BY <1>5, <2>1, CursorNext DEF CursorIsShown
  <2> QED
    BY <1>4, <2>2
<1>9. RowShown' = IF ended THEN Teletype!Line + 1 ELSE Teletype!Line
  BY <1>1, <1>2, <1>6, <1>8
<1>10. ASSUME NEW l \in 0 .. LINES - 1, NEW c \in 0 .. COLUMNS - 1, NEW v, ReadAs(shown, Block(top, l), c, v)
       PROVE  TextShown'[l][c] = v
  <2>1. ReadAs(shown, Block(top, l), c, TextShown'[l][c])
    BY <1>4, <1>5, <1>6, TextReadNext DEF TextIsRead
  <2> QED
    BY <1>10, <2>1, ReadsOnce
<1> QED
  BY <1>7, <1>8, <1>9, <1>10, TextReadNext DEF Shows

\* Each call does to the text what the teletype does.
LEMMA PutcharTypes ==
  ASSUME TextMode, TextInv, NEW c \in Chars, GL_putchar(c)
  PROVE  TextInv' /\ Teletype!Type(c)
<1>1. PICK cursor : cursor = AtCursor
  OBVIOUS
<1>2. PICK top \in 0 .. LINES - 1, row \in 0 .. LINES - 1, column \in 0 .. COLUMNS - 1 :
        Ready(cursor, top, row, column)
  BY <1>1, CursorReady
<1>3. /\ FONT_WIDTH \in Nat \ {0} /\ FONT_HEIGHT \in Nat \ {0} /\ OLED_WIDTH \in Nat \ {0}
      /\ LINES \in Nat \ {0} /\ COLUMNS \in Nat \ {0} /\ column \in Int
      /\ (COLUMNS - 1) * FONT_WIDTH < OLED_WIDTH /\ OLED_WIDTH <= COLUMNS * FONT_WIDTH
  BY Cells
<1>4. GL_width = OLED_WIDTH
  BY DEF TextMode, GL_width, WidthOf
<1>5. /\ cursor_X = column * FONT_WIDTH /\ cursor.Y = row * FONT_HEIGHT /\ Panel(cursor.frame)
      /\ ColumnShown = column /\ Teletype!Line \in 0 .. LINES - 1 /\ Block(top, Teletype!Line) = row
      /\ Teletype!Paper \in Texts
      /\ \A l \in 0 .. LINES - 1, d \in 0 .. COLUMNS - 1 : ReadAs(cursor.frame, Block(top, l), d, Teletype!Paper[l][d])
  BY <1>2 DEF Ready
<1>6. PICK full \in BOOLEAN : full <=> cursor_X + FONT_WIDTH >= GL_width
  OBVIOUS
<1>7. (column + 1) * FONT_WIDTH = cursor_X + FONT_WIDTH /\ cursor_X \in Int
  BY <1>3, <1>5, Multiples
<1>8. full <=> column + 1 = COLUMNS
  <2>1. CASE column + 1 = COLUMNS
    BY <1>3, <1>4, <1>6, <1>7, <2>1
  <2>2. CASE column + 1 # COLUMNS
    <3>1. column + 1 <= COLUMNS - 1 /\ column + 1 \in Int /\ COLUMNS - 1 \in Int
      BY <1>3, <2>2
    <3>2. /\ (column + 1) * FONT_WIDTH <= (COLUMNS - 1) * FONT_WIDTH
          /\ (column + 1) * FONT_WIDTH \in Int /\ (COLUMNS - 1) * FONT_WIDTH \in Int
      BY <1>3, <3>1, Multiples
    <3> QED BY <1>3, <1>4, <1>6, <1>7, <2>2, <3>2
  <2> QED BY <2>1, <2>2
<1>9. PICK m \in 0 .. COLUMNS - 1 : m = IF full THEN 0 ELSE column + 1
  <2>1. (IF full THEN 0 ELSE column + 1) \in 0 .. COLUMNS - 1
    BY <1>3, <1>8
  <2> QED BY <2>1
<1>10. m = (column + 1) % COLUMNS
  <2>1. CASE full
    <3>1. column + 1 = 1 * COLUMNS + 0 /\ 0 \in 0 .. COLUMNS - 1
      BY <1>3, <1>8, <2>1
    <3> QED BY <1>3, <1>9, <2>1, <3>1, DividedBy
  <2>2. CASE ~full
    <3>1. PICK a : a = 0 * COLUMNS + m
      OBVIOUS
    <3>2. a % COLUMNS = m
      BY <1>3, <3>1, DividedBy
    <3>3. a = column + 1
      BY <1>3, <1>9, <2>2, <3>1
    <3> QED BY <3>2, <3>3
  <2> QED BY <2>1, <2>2
<1>11. PICK X, Y, shown :
         /\ X = IF full THEN 0 ELSE cursor_X + FONT_WIDTH
         /\ Y = IF full THEN row * FONT_HEIGHT + FONT_HEIGHT ELSE row * FONT_HEIGHT
         /\ shown = GL_putchar_xy(cursor.frame, column * FONT_WIDTH, row * FONT_HEIGHT, c)
  OBVIOUS
<1>12. X = m * FONT_WIDTH
  <2>1. 0 * FONT_WIDTH = 0
    BY <1>3
  <2> QED BY <1>7, <1>9, <1>11, <2>1
<1>13. Written(cursor, shown, X, Y, full)
  <2>1. Written(cursor, GL_putchar_xy(cursor.frame, cursor_X, cursor.Y, c),
               IF cursor_X + FONT_WIDTH >= GL_width THEN 0 ELSE cursor_X + FONT_WIDTH,
               IF cursor_X + FONT_WIDTH >= GL_width THEN cursor.Y + FONT_HEIGHT ELSE cursor.Y,
               cursor_X + FONT_WIDTH >= GL_width)
    BY <1>1 DEF GL_putchar
  <2>2. (cursor_X + FONT_WIDTH >= GL_width) = full
    BY <1>6
  <2> QED
    BY <1>5, <1>6, <1>11, <2>1, <2>2 DEF Written
<1>14. /\ Panel(shown) /\ Cell(shown, row, column, c)
       /\ \A b \in 0 .. LINES - 1, d \in 0 .. COLUMNS - 1 : b # row \/ d # column =>
              \A v : ReadAs(shown, b, d, v) <=> ReadAs(cursor.frame, b, d, v)
  BY <1>5, <1>11, TypedCell
<1>15. Shows(shown, top, m, full)
  BY <1>2, <1>11, <1>12, <1>13, <1>14, WrittenStep
<1>16. \A l \in 0 .. LINES - 1, d \in 0 .. COLUMNS - 1 :
          TextShown'[l][d] = IF l = Teletype!Line /\ d = column THEN c ELSE Teletype!Paper[l][d]
  <2> TAKE l \in 0 .. LINES - 1, d \in 0 .. COLUMNS - 1
  <2>1. CASE l = Teletype!Line /\ d = column
    <3>1. ReadAs(shown, Block(top, l), d, c)
      BY <1>5, <1>14, <2>1 DEF ReadAs, Signs
    <3> QED BY <1>15, <2>1, <3>1 DEF Shows
  <2>2. CASE ~(l = Teletype!Line /\ d = column)
    <3>1. Block(top, l) # row \/ d # column
      BY <1>5, <2>2, BlocksDiffer
    <3>2. Block(top, l) \in 0 .. LINES - 1
      BY <1>3, RowsOfLine
    <3>3. ReadAs(shown, Block(top, l), d, Teletype!Paper[l][d])
      BY <1>5, <1>14, <3>1, <3>2
    <3> QED BY <1>15, <2>2, <3>3 DEF Shows
  <2> QED BY <2>1, <2>2
<1>17. TextShown' = [Teletype!Paper EXCEPT ![Teletype!Line][column] = c]
  <2>1. c \in Signs
    BY DEF Signs
  <2>2. PICK t, u, k : t = TextShown' /\ u = Teletype!Paper /\ k = Teletype!Line
    OBVIOUS
  <2>3. \A l \in 0 .. LINES - 1, d \in 0 .. COLUMNS - 1 :
           t[l][d] = IF l = k /\ d = column THEN c ELSE u[l][d]
    BY <1>16, <2>2
  <2>4. t \in Texts /\ u \in Texts /\ k \in 0 .. LINES - 1
    BY <1>5, <1>15, <2>2 DEF Shows
  <2> DEFINE w == [u EXCEPT ![k][column] = c]
  <2>5. \A l \in 0 .. LINES - 1 : w[l] = IF l = k THEN [u[k] EXCEPT ![column] = c] ELSE u[l]
    BY <2>4 DEF Texts
  <2>6. \A l \in 0 .. LINES - 1 : u[l] \in [0 .. COLUMNS - 1 -> Signs \cup {"garbled"}]
    BY <2>4 DEF Texts
  <2>7. w \in Texts
    BY <2>1, <2>4, <2>6 DEF Texts
  <2> HIDE DEF w
  <2>8. \A l \in 0 .. LINES - 1, d \in 0 .. COLUMNS - 1 :
           w[l][d] = IF l = k /\ d = column THEN c ELSE u[l][d]
    BY <2>4, <2>5, <2>6
  <2>9. \A l \in 0 .. LINES - 1, d \in 0 .. COLUMNS - 1 : t[l][d] = w[l][d]
    BY <2>3, <2>8
  <2>10. t = w
    BY <2>4, <2>7, <2>9, SameText
  <2> QED BY <2>2, <2>10 DEF w
<1> QED
  BY <1>5, <1>8, <1>9, <1>10, <1>15, <1>17 DEF Shows, Teletype!Type

\* The text on the paper of a call that types nothing is the text it leaves.
LEMMA PaperKept ==
  ASSUME NEW t \in Texts, NEW u \in Texts, NEW f, NEW top \in 0 .. LINES - 1,
         \A l \in 0 .. LINES - 1, c \in 0 .. COLUMNS - 1 : ReadAs(f, Block(top, l), c, u[l][c]),
         \A l \in 0 .. LINES - 1, c \in 0 .. COLUMNS - 1 :
              \A v : ReadAs(f, Block(top, l), c, v) => t[l][c] = v
  PROVE  t = u
<1>1. \A l \in 0 .. LINES - 1, c \in 0 .. COLUMNS - 1 : t[l][c] = u[l][c]
  OBVIOUS
<1> QED
  BY <1>1, SameText

\* A new line ends the line, whether or not the panel scrolls first.
LEMMA NewLineEnds ==
  ASSUME TextMode, TextInv, NewLine
  PROVE  TextInv' /\ Teletype!NewLine
<1>1. PICK cursor : cursor = AtCursor
  OBVIOUS
<1>2. PICK top \in 0 .. LINES - 1, row \in 0 .. LINES - 1, column \in 0 .. COLUMNS - 1 :
        Ready(cursor, top, row, column)
  BY <1>1, CursorReady
<1>3. /\ FONT_WIDTH \in Nat \ {0} /\ COLUMNS \in Nat \ {0} /\ 0 \in 0 .. COLUMNS - 1
      /\ 0 = 0 * FONT_WIDTH
  BY Cells
<1>4. /\ cursor.Y = row * FONT_HEIGHT /\ Panel(cursor.frame)
      /\ Teletype!Paper \in Texts
      /\ \A l \in 0 .. LINES - 1, c \in 0 .. COLUMNS - 1 : ReadAs(cursor.frame, Block(top, l), c, Teletype!Paper[l][c])
  BY <1>2 DEF Ready
<1>5. PICK f, Y, ended :
         /\ f = cursor.frame /\ ended = TRUE
         /\ Y = IF ended THEN row * FONT_HEIGHT + FONT_HEIGHT ELSE row * FONT_HEIGHT
  OBVIOUS
<1>6. Written(cursor, f, 0, Y, ended)
  BY <1>1, <1>4, <1>5 DEF NewLine
<1>7. PICK m \in 0 .. COLUMNS - 1 : m = 0
  BY <1>3
<1>8. PICK X : X = m * FONT_WIDTH
  OBVIOUS
<1>9. Written(cursor, f, X, Y, ended)
  BY <1>3, <1>6, <1>7, <1>8
<1>10. Panel(f) /\ ended \in BOOLEAN
  BY <1>4, <1>5
<1>11. Shows(f, top, m, ended)
  BY <1>2, <1>5, <1>8, <1>9, <1>10, WrittenStep
<1>12. TextShown' = Teletype!Paper
  <2>1. PICK t, u : t = TextShown' /\ u = Teletype!Paper
    OBVIOUS
  <2>2. t = u
    BY <1>4, <1>5, <1>11, <2>1, PaperKept DEF Shows
  <2> QED BY <2>1, <2>2
<1> QED
  BY <1>5, <1>7, <1>11, <1>12 DEF Shows, Teletype!NewLine

\* A carriage return goes one character back, at most to the begin of the line.
LEMMA CarriageReturnGoesBack ==
  ASSUME TextMode, TextInv, CarriageReturn
  PROVE  TextInv' /\ Teletype!Back
<1>1. PICK cursor : cursor = AtCursor
  OBVIOUS
<1>2. PICK top \in 0 .. LINES - 1, row \in 0 .. LINES - 1, column \in 0 .. COLUMNS - 1 :
        Ready(cursor, top, row, column)
  BY <1>1, CursorReady
<1>3. FONT_WIDTH \in Nat \ {0} /\ COLUMNS \in Nat \ {0} /\ column \in Int
  BY Cells
<1>4. /\ cursor.Y = row * FONT_HEIGHT /\ Panel(cursor.frame) /\ cursor_X = column * FONT_WIDTH
      /\ ColumnShown = column
      /\ Teletype!Paper \in Texts
      /\ \A l \in 0 .. LINES - 1, c \in 0 .. COLUMNS - 1 : ReadAs(cursor.frame, Block(top, l), c, Teletype!Paper[l][c])
  BY <1>2 DEF Ready
<1>5. PICK m \in 0 .. COLUMNS - 1 : m = IF column > 0 THEN column - 1 ELSE 0
  <2>1. (IF column > 0 THEN column - 1 ELSE 0) \in 0 .. COLUMNS - 1
    BY <1>3
  <2> QED BY <2>1
<1>6. PICK X : X = IF cursor_X >= FONT_WIDTH THEN cursor_X - FONT_WIDTH ELSE cursor_X
  OBVIOUS
<1>7. X = m * FONT_WIDTH
  <2>1. CASE column = 0
    <3>1. cursor_X = 0 /\ m * FONT_WIDTH = 0
      BY <1>3, <1>4, <1>5, <2>1
    <3> QED BY <1>3, <1>6, <3>1
  <2>2. CASE column > 0
    <3>1. column = m + 1 /\ m \in Int
      BY <1>3, <1>5, <2>2
    <3>2. m * FONT_WIDTH \in Int /\ (m + 1) * FONT_WIDTH = m * FONT_WIDTH + FONT_WIDTH
          /\ m * FONT_WIDTH >= 0
      BY <1>3, <1>5, <3>1, Multiples
    <3> QED BY <1>3, <1>4, <1>6, <3>1, <3>2
  <2> QED BY <1>3, <2>1, <2>2
<1>8. PICK f, Y, ended :
         /\ f = cursor.frame /\ ended = FALSE
         /\ Y = IF ended THEN row * FONT_HEIGHT + FONT_HEIGHT ELSE row * FONT_HEIGHT
  OBVIOUS
<1>9. Written(cursor, f, X, Y, ended) /\ ended \in BOOLEAN /\ Panel(f)
  BY <1>1, <1>4, <1>6, <1>8 DEF CarriageReturn
<1>10. Shows(f, top, m, ended)
  BY <1>2, <1>7, <1>8, <1>9, WrittenStep
<1>11. TextShown' = Teletype!Paper
  <2>1. PICK t, u : t = TextShown' /\ u = Teletype!Paper
    OBVIOUS
  <2>2. t = u
    BY <1>4, <1>8, <1>10, <2>1, PaperKept DEF Shows
  <2> QED BY <2>1, <2>2
<1> QED
  BY <1>4, <1>5, <1>8, <1>10, <1>11 DEF Shows, Teletype!Back

\* The same screen shows the same text.
LEMMA SameScreen ==
  ASSUME TextInv, UNCHANGED <<FGA_mode, figure, frame, start_line>>
  PROVE  TextShown' = TextShown
<1>1. CASE TextMode
  <2>1. PICK top \in 0 .. LINES - 1 : start_line = top * FONT_HEIGHT
    BY <1>1 DEF TextInv
  <2>2. TextMode'
    BY <1>1 DEF TextMode
  <2>3. PICK t \in Texts, u \in Texts : t = TextShown' /\ u = TextShown
    BY TextTyped, TextReadNext
  <2>4. ASSUME NEW l \in 0 .. LINES - 1, NEW c \in 0 .. COLUMNS - 1
        PROVE  t[l][c] = u[l][c]
    <3>1. ReadAs(frame, Block(top, l), c, u[l][c])
      BY <1>1, <2>1, <2>3, TextRead DEF TextIsRead
    <3>2. ReadAs(frame, Block(top, l), c, t[l][c])
      BY <2>1, <2>2, <2>3, TextReadNext DEF TextIsRead
    <3> QED BY <3>1, <3>2, ReadsOnce
  <2>5. t = u
    BY <2>4, SameText
  <2> QED BY <2>3, <2>5
<1>2. CASE ~TextMode
  BY <1>2 DEF TextShown, TextMode
<1> QED
  BY <1>1, <1>2

\* Without text on the screen, and on a panel just cleared, the paper is empty.
PaperIsEmpty ==
    /\ /\ TextMode
       /\ frame = [y \in 0 .. OLED_HEIGHT - 1 |-> [x \in 0 .. OLED_WIDTH - 1 |-> GL_BG]]
       /\ \E top \in 0 .. LINES - 1 : start_line = top * FONT_HEIGHT
       => TextShown = Teletype!EmptyText
    /\ ~TextMode => TextShown = Teletype!EmptyText /\ RowShown = 0 /\ ColumnShown = 0

\* A frame without a pixel reads as spaces, whatever its start line.
LEMMA EmptyPaper == PaperIsEmpty
<1>1. ASSUME TextMode,
             frame = [y \in 0 .. OLED_HEIGHT - 1 |-> [x \in 0 .. OLED_WIDTH - 1 |-> GL_BG]],
             NEW top \in 0 .. LINES - 1, start_line = top * FONT_HEIGHT
      PROVE  TextShown = Teletype!EmptyText
  <2>1. PICK t, u : t = TextShown /\ u = [l \in 0 .. LINES - 1 |-> [c \in 0 .. COLUMNS - 1 |-> SPACE]]
    OBVIOUS
  <2>2. t \in Texts /\ u \in Texts
    BY <2>1, TextTyped DEF Texts, Signs
  <2>3. ASSUME NEW l \in 0 .. LINES - 1, NEW c \in 0 .. COLUMNS - 1
        PROVE  t[l][c] = u[l][c]
    <3>1. ReadAs(frame, Block(top, l), c, t[l][c])
      BY <1>1, <2>1, TextRead DEF TextIsRead
    <3>2. Block(top, l) \in 0 .. LINES - 1
      <4>1. 0 \in 0 .. FONT_HEIGHT - 1
        BY Cells
      <4> QED BY <4>1, RowsOfLine
    <3>3. ReadAs(frame, Block(top, l), c, SPACE)
      BY <1>1, <3>2, BlankPanel DEF ReadAs, Signs
    <3> QED BY <2>1, <3>1, <3>3, ReadsOnce
  <2>4. t = u
    BY <2>2, <2>3, SameText
  <2> QED BY <2>1, <2>4 DEF Teletype!EmptyText, Teletype!EmptyLine
<1>2. ASSUME ~TextMode
      PROVE  TextShown = Teletype!EmptyText /\ RowShown = 0 /\ ColumnShown = 0
  BY <1>2 DEF TextShown, RowShown, ColumnShown, Teletype!EmptyText, Teletype!EmptyLine
<1> QED
  BY <1>1, <1>2 DEF PaperIsEmpty

\* The same after a step.
LEMMA EmptyPaperNext == PaperIsEmpty'
BY EmptyPaper, PTL

\* On a panel that has not scrolled, GL_tty_goto_xy places the cursor and no text.
LEMMA GotoPlaces ==
  ASSUME TextMode, TextInv, NEW X \in 0 .. GL_width - 1, NEW Y \in 0 .. GL_height - 1,
         X % FONT_WIDTH = 0, Y % FONT_HEIGHT = 0, GL_tty_goto_xy(X, Y)
  PROVE  TextInv' /\ \E l \in 0 .. LINES - 1, c \in 0 .. COLUMNS - 1 : Teletype!Place(l, c)
<1>1. /\ FONT_WIDTH \in Nat \ {0} /\ FONT_HEIGHT \in Nat \ {0} /\ OLED_WIDTH \in Nat \ {0}
      /\ OLED_HEIGHT \in Nat \ {0} /\ LINES \in Nat \ {0} /\ COLUMNS \in Nat \ {0}
      /\ OLED_HEIGHT = LINES * FONT_HEIGHT /\ OLED_WIDTH <= COLUMNS * FONT_WIDTH
  BY Cells
<1>2. X \in 0 .. OLED_WIDTH - 1 /\ Y \in 0 .. OLED_HEIGHT - 1
  BY DEF TextMode, GL_width, WidthOf, GL_height, HeightOf
<1>3. ASSUME NEW n \in Nat \ {0}, NEW k \in Nat \ {0}, NEW a \in Nat, a < k * n, a % n = 0
      PROVE  \E q \in 0 .. k - 1 : a = q * n
  <2>1. PICK q \in Int, r \in 0 .. n - 1 : a = q * n + r /\ a \div n = q /\ a % n = r
    BY Divided
  <2>2. q * n \in Int /\ a = q * n
    BY <1>3, <2>1
  <2>3. q < 0 => q * n + n <= 0 * n
    BY Multiples
  <2>4. k <= q => k * n <= q * n
    BY Multiples
  <2>5. 0 * n = 0 /\ k * n \in Int
    OBVIOUS
  <2>6. q \in 0 .. k - 1
    BY <1>3, <2>2, <2>3, <2>4, <2>5
  <2> QED BY <2>2, <2>6
<1>4. COLUMNS * FONT_WIDTH \in Int
  BY <1>1
<1>5. PICK column \in 0 .. COLUMNS - 1 : X = column * FONT_WIDTH
  BY <1>1, <1>2, <1>3, <1>4
<1>6. PICK row \in 0 .. LINES - 1 : Y = row * FONT_HEIGHT
  <2>1. Y \in Nat /\ Y < LINES * FONT_HEIGHT
    BY <1>1, <1>2
  <2> QED BY <1>1, <1>3, <2>1
<1>7. PICK top \in 0 .. LINES - 1 : start_line = top * FONT_HEIGHT /\ (~scrolling => top = 0)
  BY DEF TextInv
<1>8. /\ cursor_X' = X /\ cursor_Y' = Y /\ FGA_mode' = FGA_mode /\ figure' = figure /\ frame' = frame
      /\ start_line' = start_line /\ display_start_line' = display_start_line
      /\ ~scrolling /\ scrolling' = scrolling /\ last_char_was_CR' = last_char_was_CR
  BY DEF GL_tty_goto_xy
<1>9. TextMode' /\ row \in 0 .. LINES /\ row # LINES
  BY <1>1, <1>8 DEF TextMode
<1>10. TextInv'
  <2>1. /\ DOMAIN frame = 0 .. OLED_HEIGHT - 1
        /\ \A y \in 0 .. OLED_HEIGHT - 1 : DOMAIN frame[y] = 0 .. OLED_WIDTH - 1
        /\ start_line = display_start_line /\ last_char_was_CR \in BOOLEAN
    BY DEF TextInv
  <2> QED
    BY <1>5, <1>6, <1>7, <1>8, <1>9, <2>1 DEF TextInv
<1>11. RowShown' = row /\ ColumnShown' = column
  <2>1. /\ start_line' = top * FONT_HEIGHT
        /\ cursor_Y' = row * FONT_HEIGHT
        /\ cursor_X' = column * FONT_WIDTH
        /\ scrolling' /\ ~last_char_was_CR' => row = (IF top = 0 THEN LINES ELSE top) - 1
        /\ ~scrolling' => top = 0
    BY <1>5, <1>6, <1>7, <1>8
  <2>2. /\ RowShown' = IF row = LINES \/ (scrolling' /\ last_char_was_CR') THEN LINES
                       ELSE IF scrolling' THEN LINES - 1 ELSE row
        /\ ColumnShown' = column
    BY <1>9, <2>1, CursorNext DEF CursorIsShown
  <2> QED
    BY <1>8, <1>9, <2>2
<1>12. TextShown' = TextShown
  BY <1>8, SameScreen
<1>13. Teletype!Place(row, column)
  BY <1>11, <1>12 DEF Teletype!Place
<1> QED
  BY <1>10, <1>13

\* GL_clear leaves no text, and the cursor and the start line where they are.
LEMMA ClearErases ==
  ASSUME TextMode, TextInv, GL_clear
  PROVE  TextInv' /\ Teletype!Erase
<1>1. /\ OLED_WIDTH \in Nat \ {0} /\ OLED_HEIGHT \in Nat \ {0}
  BY Cells
<1>2. GL_width = OLED_WIDTH /\ GL_height = OLED_HEIGHT /\ FGA_mode = GL_MODE_OLED
  BY DEF TextMode, GL_width, WidthOf, GL_height, HeightOf
<1>3. frame' = [y \in 0 .. OLED_HEIGHT - 1 |-> [x \in 0 .. OLED_WIDTH - 1 |-> GL_BG]]
  <2>1. PICK hit : hit = {Place(p[1], p[2]) : p \in GL_fill_rect(0, 0, GL_width - 1, GL_height - 1)}
    OBVIOUS
  <2>2. GL_fill_rect(0, 0, GL_width - 1, GL_height - 1) = (0 .. OLED_WIDTH - 1) \X (0 .. OLED_HEIGHT - 1)
    BY <1>2 DEF GL_fill_rect, Window
  <2>3. \A x \in 0 .. OLED_WIDTH - 1, y \in 0 .. OLED_HEIGHT - 1 : <<x, y>> \in hit
    <3> TAKE x \in 0 .. OLED_WIDTH - 1, y \in 0 .. OLED_HEIGHT - 1
    <3>1. PICK p \in (0 .. OLED_WIDTH - 1) \X (0 .. OLED_HEIGHT - 1) : p = <<x, y>>
      OBVIOUS
    <3>2. Place(p[1], p[2]) = <<x, y>>
      BY <1>2, <3>1 DEF Place
    <3> QED BY <2>1, <2>2, <3>2
  <2>4. frame' = [y \in 0 .. OLED_HEIGHT - 1 |->
                    [x \in 0 .. OLED_WIDTH - 1 |-> IF <<x, y>> \in hit THEN GL_BG ELSE frame[y][x]]]
    BY <1>2, <2>1 DEF GL_clear, Painted
  <2>5. [y \in 0 .. OLED_HEIGHT - 1 |->
           [x \in 0 .. OLED_WIDTH - 1 |-> IF <<x, y>> \in hit THEN GL_BG ELSE frame[y][x]]]
        = [y \in 0 .. OLED_HEIGHT - 1 |-> [x \in 0 .. OLED_WIDTH - 1 |-> GL_BG]]
    BY <2>3
  <2> QED BY <2>4, <2>5
<1>4. UNCHANGED <<FGA_mode, start_line, cursor_X, cursor_Y, scrolling, display_start_line, last_char_was_CR, figure>>
  BY DEF GL_clear, ttyVars
<1>5. TextMode'
  BY <1>4 DEF TextMode
<1>6. /\ DOMAIN frame' = 0 .. OLED_HEIGHT - 1
      /\ \A y \in 0 .. OLED_HEIGHT - 1 : DOMAIN frame'[y] = 0 .. OLED_WIDTH - 1
  BY <1>3
<1>7. TextInv'
  BY <1>4, <1>5, <1>6 DEF TextInv
<1>8. TextShown' = Teletype!EmptyText
  <2>1. \E top \in 0 .. LINES - 1 : start_line' = top * FONT_HEIGHT
    BY <1>4 DEF TextInv
  <2> QED BY <1>3, <1>5, <2>1, EmptyPaperNext DEF PaperIsEmpty
<1>9. UNCHANGED <<RowShown, ColumnShown>>
  BY <1>4, <1>5 DEF RowShown, ColumnShown, LineOfCursor
<1> QED
  BY <1>7, <1>8, <1>9 DEF Teletype!Erase

\* GL_tty_init starts again, whatever last_char_was_CR was left.
LEMMA InitRestarts ==
  ASSUME TextInv, NEW mode \in {GL_MODE_OLED, GL_MODE_FGA}, GL_tty_init(mode)
  PROVE  TextInv' /\ Teletype!Restart
<1>1. /\ FONT_WIDTH \in Nat \ {0} /\ FONT_HEIGHT \in Nat \ {0} /\ OLED_WIDTH \in Nat \ {0}
      /\ OLED_HEIGHT \in Nat \ {0} /\ LINES \in Nat \ {0} /\ COLUMNS \in Nat \ {0}
  BY Cells
<1>2. /\ FGA_mode' = mode /\ frame' = Blank(mode) /\ start_line' = 0 /\ cursor_X' = 0 /\ cursor_Y' = 0
      /\ scrolling' = FALSE /\ display_start_line' = 0 /\ figure' = None
      /\ last_char_was_CR' = last_char_was_CR
  BY DEF GL_tty_init, GL_init, FGA_setmode
<1>3. last_char_was_CR' \in BOOLEAN
  BY <1>2 DEF TextInv
<1>4. CASE mode = GL_MODE_OLED
  <2>1. TextMode'
    BY <1>2, <1>4 DEF TextMode
  <2>2. frame' = [y \in 0 .. OLED_HEIGHT - 1 |-> [x \in 0 .. OLED_WIDTH - 1 |-> GL_BG]]
    BY <1>2, <1>4 DEF Blank, WidthOf, HeightOf
  <2>3. /\ 0 \in 0 .. LINES - 1 /\ 0 \in 0 .. LINES /\ 0 \in 0 .. COLUMNS - 1
        /\ 0 = 0 * FONT_HEIGHT /\ 0 = 0 * FONT_WIDTH /\ 0 # LINES
    BY <1>1
  <2>4. PICK o : o = 0
    OBVIOUS
  <2>5. /\ o \in 0 .. LINES - 1 /\ o \in 0 .. LINES /\ o \in 0 .. COLUMNS - 1
        /\ start_line' = o * FONT_HEIGHT /\ cursor_Y' = o * FONT_HEIGHT /\ cursor_X' = o * FONT_WIDTH
        /\ o # LINES
    BY <1>2, <2>3, <2>4
  <2>6. TextInv'
    <3>1. /\ DOMAIN frame' = 0 .. OLED_HEIGHT - 1
          /\ \A y \in 0 .. OLED_HEIGHT - 1 : DOMAIN frame'[y] = 0 .. OLED_WIDTH - 1
      BY <2>2
    <3> QED BY <1>2, <1>3, <2>4, <2>5, <3>1 DEF TextInv
  <2>7. RowShown' = o /\ ColumnShown' = o
    <3>1. /\ RowShown' = IF o = LINES \/ (scrolling' /\ last_char_was_CR') THEN LINES
                         ELSE IF scrolling' THEN LINES - 1 ELSE o
          /\ ColumnShown' = o
      BY <1>2, <2>1, <2>4, <2>5, CursorNext DEF CursorIsShown
    <3> QED BY <1>2, <2>5, <3>1
  <2>8. TextShown' = Teletype!EmptyText
    BY <2>1, <2>2, <2>5, EmptyPaperNext DEF PaperIsEmpty
  <2> QED BY <2>4, <2>6, <2>7, <2>8 DEF Teletype!Restart
<1>5. CASE mode # GL_MODE_OLED
  <2>1. ~TextMode'
    BY <1>2, <1>5 DEF TextMode
  <2> QED
    BY <1>3, <2>1, EmptyPaperNext DEF PaperIsEmpty, TextInv, Teletype!Restart
<1> QED
  BY <1>4, <1>5

\* A figure takes the place of the text.
LEMMA DrawRestarts ==
  ASSUME TextInv, Draw
  PROVE  TextInv' /\ Teletype!Restart
<1>1. figure' # None /\ last_char_was_CR' = last_char_was_CR
  <2>1. ASSUME NEW p, NEW q, DrawLine(p, q)
        PROVE  figure' # None /\ last_char_was_CR' = last_char_was_CR
    BY <2>1 DEF DrawLine, Draws, ttyVars, None
  <2>2. ASSUME NEW points, NEW polygon_mode \in {"GL_POLY_LINES", "GL_POLY_FILL"}, NEW culling,
               DrawPolygon(points, polygon_mode, culling)
        PROVE  figure' # None /\ last_char_was_CR' = last_char_was_CR
    <3>1. figure' = [shape |-> polygon_mode, points |-> points, culling |-> culling]
      BY <2>2 DEF DrawPolygon
    <3>2. figure'.shape # None.shape
      BY <3>1 DEF None
    <3> QED BY <2>2, <3>2 DEF DrawPolygon, Draws, ttyVars
  <2>3. ASSUME NEW p, NEW q, DrawRectangle(p, q)
        PROVE  figure' # None /\ last_char_was_CR' = last_char_was_CR
    BY <2>3 DEF DrawRectangle, Draws, ttyVars, None
  <2>4. ASSUME NEW p, DrawPixel(p)
        PROVE  figure' # None /\ last_char_was_CR' = last_char_was_CR
    BY <2>4 DEF DrawPixel, Draws, ttyVars, None
  <2> QED BY <2>1, <2>2, <2>3, <2>4 DEF Draw
<1>2. ~TextMode'
  BY <1>1 DEF TextMode
<1>3. last_char_was_CR' \in BOOLEAN
  BY <1>1 DEF TextInv
<1> QED
  BY <1>2, <1>3, EmptyPaperNext DEF PaperIsEmpty, TextInv, Teletype!Restart

\* Each step of the program is one of the teletype, or none.
LEMMA TextStep ==
  ASSUME TextInv, [TerminalNext]_terminalVars
  PROVE  TextInv' /\ [Teletype!Next]_(Teletype!textVars)
<1>1. CASE TextMode /\ \E c \in Chars : GL_putchar(c)
  BY <1>1, PutcharTypes DEF Teletype!Next
<1>2. CASE TextMode /\ NewLine
  BY <1>2, NewLineEnds DEF Teletype!Next
<1>3. CASE TextMode /\ CarriageReturn
  BY <1>3, CarriageReturnGoesBack DEF Teletype!Next
<1>4. CASE TextMode /\ \E X \in 0 .. GL_width - 1, Y \in 0 .. GL_height - 1 :
              X % FONT_WIDTH = 0 /\ Y % FONT_HEIGHT = 0 /\ GL_tty_goto_xy(X, Y)
  BY <1>4, GotoPlaces DEF Teletype!Next
<1>5. CASE TextMode /\ GL_clear
  BY <1>5, ClearErases DEF Teletype!Next
<1>6. CASE \E mode \in {GL_MODE_OLED, GL_MODE_FGA} : GL_tty_init(mode)
  BY <1>6, InitRestarts DEF Teletype!Next
<1>7. CASE Draw
  BY <1>7, DrawRestarts DEF Teletype!Next
<1>8. CASE UNCHANGED terminalVars
  <2>1. UNCHANGED <<FGA_mode, frame, start_line, cursor_X, cursor_Y, scrolling, display_start_line,
                    last_char_was_CR, figure>>
    BY <1>8 DEF terminalVars, ttyVars
  <2>2. TextInv'
    BY <2>1 DEF TextInv, TextMode
  <2>3. TextShown' = TextShown
    BY <2>1, SameScreen
  <2>4. RowShown' = RowShown /\ ColumnShown' = ColumnShown
    BY <2>1 DEF RowShown, ColumnShown, LineOfCursor, TextMode
  <2> QED BY <2>2, <2>3, <2>4 DEF Teletype!textVars
<1>9. ASSUME \/ \E c \in Chars : GL_putchar(c)
             \/ NewLine \/ CarriageReturn
             \/ \E X \in 0 .. GL_width - 1, Y \in 0 .. GL_height - 1 : GL_tty_goto_xy(X, Y)
             \/ GL_clear
      PROVE  TextMode
  BY <1>9 DEF TextMode, GL_putchar, NewLine, CarriageReturn, Written, GL_tty_goto_xy, GL_clear
<1> QED
  BY <1>1, <1>2, <1>3, <1>4, <1>5, <1>6, <1>7, <1>8, <1>9 DEF TerminalNext

\* The panel begins with empty paper.
LEMMA TextBegins ==
  ASSUME TerminalInit
  PROVE  TextInv /\ Teletype!Init
<1>1. /\ FONT_WIDTH \in Nat \ {0} /\ FONT_HEIGHT \in Nat \ {0} /\ OLED_WIDTH \in Nat \ {0}
      /\ OLED_HEIGHT \in Nat \ {0} /\ LINES \in Nat \ {0} /\ COLUMNS \in Nat \ {0}
  BY Cells
<1>2. TextMode
  BY DEF TerminalInit, TextMode
<1>3. frame = [y \in 0 .. OLED_HEIGHT - 1 |-> [x \in 0 .. OLED_WIDTH - 1 |-> GL_BG]]
  BY DEF TerminalInit, Blank, WidthOf, HeightOf
<1>4. /\ 0 \in 0 .. LINES - 1 /\ 0 \in 0 .. LINES /\ 0 \in 0 .. COLUMNS - 1
      /\ 0 = 0 * FONT_HEIGHT /\ 0 = 0 * FONT_WIDTH /\ 0 # LINES
  BY <1>1
<1>5. PICK o : o = 0
  OBVIOUS
<1>6. /\ o \in 0 .. LINES - 1 /\ o \in 0 .. LINES /\ o \in 0 .. COLUMNS - 1
      /\ start_line = o * FONT_HEIGHT /\ cursor_Y = o * FONT_HEIGHT /\ cursor_X = o * FONT_WIDTH
      /\ o # LINES /\ ~scrolling /\ display_start_line = start_line /\ last_char_was_CR \in BOOLEAN
  BY <1>4, <1>5 DEF TerminalInit
<1>7. TextInv
  <2>1. /\ DOMAIN frame = 0 .. OLED_HEIGHT - 1
        /\ \A y \in 0 .. OLED_HEIGHT - 1 : DOMAIN frame[y] = 0 .. OLED_WIDTH - 1
    BY <1>3
  <2> QED BY <1>5, <1>6, <2>1 DEF TextInv
<1>8. RowShown = o /\ ColumnShown = o
  <2>1. /\ RowShown = IF o = LINES \/ (scrolling /\ last_char_was_CR) THEN LINES
                      ELSE IF scrolling THEN LINES - 1 ELSE o
        /\ ColumnShown = o
    BY <1>2, <1>5, <1>6, CursorShown DEF CursorIsShown
  <2> QED BY <1>6, <2>1
<1>9. TextShown = Teletype!EmptyText
  BY <1>2, <1>3, <1>6, EmptyPaper DEF PaperIsEmpty
<1> QED
  BY <1>5, <1>7, <1>8, <1>9 DEF Teletype!Init

\* TextInv holds in every run: the line above the top of the panel is the cursor's, so
\* display_start_line and cursor_Y never drift apart.
THEOREM TextInvariant == TerminalSpec => []TextInv
<1>1. TerminalInit => TextInv
  BY TextBegins
<1>2. TextInv /\ [TerminalNext]_terminalVars => TextInv'
  BY TextStep
<1> QED
  BY <1>1, <1>2, PTL DEF TerminalSpec

\* The terminal implements the teletype: through every wrap of the start line the panel
\* shows the last lines of what was printed, whatever the sizes of panel and font.
THEOREM PanelShowsTheText == TerminalSpec => ShowsTheText
<1>1. TerminalInit => Teletype!Init
  BY TextBegins
<1>2. TextInv /\ [TerminalNext]_terminalVars => [Teletype!Next]_(Teletype!textVars)
  BY TextStep
<1> QED
  BY <1>1, <1>2, TextInvariant, PTL DEF TerminalSpec, ShowsTheText, Teletype!Spec

-------------------------------------------------------------------------------
(* Induction, with sets as in VehicleProof: it proves what a               *)
(* recursive function computes.                                            *)

LessThan == { p \in Nat \X Nat : p[1] < p[2] }

\* A set that holds 0 and the successor of each of its numbers holds them all.
LEMMA SetInduction ==
  ASSUME NEW T, 0 \in T, \A n \in Nat : n \in T => n + 1 \in T
  PROVE  Nat \subseteq T
<1> DEFINE Missing == Nat \ T
<1> SUFFICES ASSUME Missing # {} PROVE FALSE
  OBVIOUS
<1>0. LessThan = OpToRel(<, Nat)
  BY DEF LessThan, OpToRel
<1>1. PICK x \in Missing : \A y \in Missing : <<y, x>> \notin LessThan
  BY <1>0, NatLessThanWellFounded, WFMin
<1>2. x \in Nat /\ x # 0 /\ x \notin T
  OBVIOUS
<1>3. x - 1 \in Nat /\ x - 1 + 1 = x
  BY <1>2
<1>4. <<x - 1, x>> \in LessThan
  BY <1>2, <1>3 DEF LessThan
<1> QED
  BY <1>1, <1>2, <1>3, <1>4

-------------------------------------------------------------------------------
(* Figures: the walk of a line.                                            *)

\* Where the walk is at step u: the nearest whole number to m * u / d, the lower of two.
Column(d, m, u) == (2 * m * u - d) \div (2 * d) + 1

\* The error that goes with it.
ErrorAt(d, m, u) == 2 * m * u + 2 * m - d - 2 * d * Column(d, m, u)

\* The column is at most half a pixel off; what is left over is a remainder.
LEMMA ColumnIsNear ==
  ASSUME NEW d \in Nat \ {0}, NEW m \in Nat, NEW u \in Nat
  PROVE  /\ Column(d, m, u) \in Int /\ 2 * m * u \in Int
         /\ \E r \in 0 .. 2 * d - 1 :
               /\ 2 * m * u - d = (Column(d, m, u) - 1) * (2 * d) + r
               /\ ErrorAt(d, m, u) = r - 2 * d + 2 * m
<1> DEFINE n == 2 * d
           t == 2 * m * u
           c == Column(d, m, u)
<1>1. n \in Nat \ {0} /\ t \in Int /\ t - d \in Int
  OBVIOUS
<1>2. c = (t - d) \div n + 1
  BY DEF Column
<1>3. ErrorAt(d, m, u) = t + 2 * m - d - n * c
  BY DEF ErrorAt
<1> HIDE DEF n, t, c
<1>4. PICK q \in Int, r \in 0 .. n - 1 : t - d = q * n + r /\ (t - d) \div n = q
  BY <1>1, Divided
<1>5. c = q + 1 /\ c \in Int
  BY <1>2, <1>4
<1>6. n * c = q * n + n /\ q * n \in Int
  <2>1. n * (q + 1) = q * n + n /\ q * n \in Int
    BY <1>1
  <2> QED BY <1>5, <2>1
<1>7. t - d = (c - 1) * n + r
  <2>1. c - 1 = q
    BY <1>5
  <2> QED BY <1>4, <2>1
<1>8. ErrorAt(d, m, u) = r - n + 2 * m
  BY <1>1, <1>3, <1>4, <1>6
<1> QED BY <1>1, <1>5, <1>7, <1>8 DEF n, t, c

\* The error is brought below zero by as many steps as the column moves.
LEMMA ColumnMoves ==
  ASSUME NEW d \in Nat \ {0}, NEW m \in Nat, NEW u \in Nat,
         NEW k, k = IF ErrorAt(d, m, u) < 0 THEN 0 ELSE ErrorAt(d, m, u) \div (2 * d) + 1
  PROVE  /\ Column(d, m, u + 1) = Column(d, m, u) + k
         /\ ErrorAt(d, m, u + 1) = ErrorAt(d, m, u) - 2 * d * k + 2 * m
<1> DEFINE n == 2 * d
           t == 2 * m * u
           c == Column(d, m, u)
           e == ErrorAt(d, m, u)
<1>1. n \in Nat \ {0} /\ t \in Int /\ c \in Int
  BY ColumnIsNear
<1>2. PICK r \in 0 .. n - 1 : t - d = (c - 1) * n + r /\ e = r - n + 2 * m
  BY ColumnIsNear
<1>3. 2 * m * (u + 1) = t + 2 * m
  OBVIOUS
<1>4. Column(d, m, u + 1) = (t + 2 * m - d) \div n + 1
  BY <1>3 DEF Column
<1>5. ErrorAt(d, m, u + 1) = t + 2 * m + 2 * m - d - n * Column(d, m, u + 1)
  BY <1>3 DEF ErrorAt
<1>6. k = IF e < 0 THEN 0 ELSE e \div n + 1
  OBVIOUS
<1>7. e = t + 2 * m - d - n * c
  BY DEF ErrorAt
<1> HIDE DEF n, t, c, e
<1>8. e \in Int
  BY <1>1, <1>2
<1>9. k \in Int /\ \E s \in 0 .. n - 1 : t + 2 * m - d = (c + k - 1) * n + s
  <2>1. CASE e < 0
    <3>1. k = 0 /\ c + k - 1 = c - 1 /\ (c - 1) * n \in Int
      BY <1>1, <1>6, <2>1
    <3>2. r + 2 * m \in 0 .. n - 1
      BY <1>1, <1>2, <2>1
    <3>3. t + 2 * m - d = (c - 1) * n + (r + 2 * m)
      BY <1>1, <1>2, <3>1
    <3> QED BY <3>1, <3>2, <3>3
  <2>2. CASE ~(e < 0)
    <3>1. PICK q \in Int, s \in 0 .. n - 1 : e = q * n + s /\ e \div n = q
      BY <1>1, <1>8, Divided
    <3>2. k = q + 1
      BY <1>6, <2>2, <3>1
    <3>3. /\ (c + q) * n = (c - 1) * n + n + q * n
          /\ (c - 1) * n \in Int /\ q * n \in Int
      BY <1>1
    <3>4. t + 2 * m - d = (c + q) * n + s
      BY <1>1, <1>2, <3>1, <3>3
    <3>5. c + k - 1 = c + q
      BY <1>1, <3>2
    <3> QED BY <3>2, <3>4, <3>5
  <2> QED BY <2>1, <2>2
<1>10. PICK s \in 0 .. n - 1 : t + 2 * m - d = (c + k - 1) * n + s
  BY <1>9
<1>11. (t + 2 * m - d) \div n = c + k - 1
  <2> DEFINE a == t + 2 * m - d
             b == c + k - 1
  <2>1. b \in Int /\ a = b * n + s
    BY <1>1, <1>9, <1>10
  <2> HIDE DEF a, b
  <2>2. a \div n = b
    BY <1>1, <2>1, DividedBy
  <2> QED BY <2>2 DEF a, b
<1>12. Column(d, m, u + 1) = c + k
  BY <1>1, <1>4, <1>9, <1>11
<1>13. n * (c + k) = n * c + n * k /\ n * c \in Int /\ n * k \in Int
  BY <1>1, <1>9
<1>14. ErrorAt(d, m, u + 1) = e - n * k + 2 * m
  BY <1>1, <1>5, <1>7, <1>12, <1>13
<1> QED BY <1>12, <1>14 DEF c, e, n

\* The recursion of the walk computes the column.
LEMMA WalkIsColumn ==
  ASSUME NEW d \in Nat \ {0}, NEW m \in Nat
  PROVE  Bresenham(d, m) = [u \in 0 .. d |-> Column(d, m, u)]
<1> DEFINE moved(w) == LET k == IF w.e < 0 THEN 0 ELSE w.e \div (2 * d) + 1
                       IN [n |-> w.n + k, e |-> w.e - 2 * d * k + 2 * m]
           body(g) == [u \in 0 .. d |-> IF u = 0 THEN [n |-> 0, e |-> 2 * m - d]
                                        ELSE moved(g[u - 1])]
           f == CHOOSE g : g = body(g)
           h == [u \in 0 .. d |-> [n |-> Column(d, m, u), e |-> ErrorAt(d, m, u)]]
<1>1. Bresenham(d, m) = [u \in 0 .. d |-> f[u].n]
  <2>1. \A g : body(g) = [u \in 0 .. d |->
            IF u = 0 THEN [n |-> 0, e |-> 2 * m - d]
            ELSE LET w == g[u - 1]
                     k == IF w.e < 0 THEN 0 ELSE w.e \div (2 * d) + 1
                 IN [n |-> w.n + k, e |-> w.e - 2 * d * k + 2 * m]]
    OBVIOUS
  <2> QED BY DEF Bresenham
<1>2. h[0] = [n |-> 0, e |-> 2 * m - d]
  <2>1. 2 * m * 0 = 0 /\ 2 * d \in Nat \ {0}
    OBVIOUS
  <2>2. -d = (-1) * (2 * d) + d /\ d \in 0 .. 2 * d - 1
    OBVIOUS
  <2>3. (-d) \div (2 * d) = -1
    BY <2>1, <2>2, DividedBy
  <2>4. Column(d, m, 0) = 0
    BY <2>1, <2>3 DEF Column
  <2>5. ErrorAt(d, m, 0) = 2 * m - d
    BY <2>1, <2>4 DEF ErrorAt
  <2> QED BY <2>4, <2>5
<1>3. ASSUME NEW u \in 1 .. d PROVE h[u] = moved(h[u - 1])
  <2>1. u - 1 \in Nat /\ u = (u - 1) + 1 /\ u - 1 \in 0 .. d /\ u \in 0 .. d
    OBVIOUS
  <2> DEFINE v == u - 1
             k == IF ErrorAt(d, m, v) < 0 THEN 0 ELSE ErrorAt(d, m, v) \div (2 * d) + 1
  <2> HIDE DEF v
  <2>2. v \in Nat /\ u = v + 1 /\ v \in 0 .. d /\ u \in 0 .. d
    BY <2>1 DEF v
  <2>3. /\ Column(d, m, v + 1) = Column(d, m, v) + k
        /\ ErrorAt(d, m, v + 1) = ErrorAt(d, m, v) - 2 * d * k + 2 * m
    BY <2>2, ColumnMoves
  <2>4. h[v].n = Column(d, m, v) /\ h[v].e = ErrorAt(d, m, v)
    BY <2>2
  <2>5. h[u] = [n |-> Column(d, m, v + 1), e |-> ErrorAt(d, m, v + 1)]
    BY <2>2
  <2> HIDE DEF h
  <2>6. moved(h[v]) = [n |-> Column(d, m, v) + k, e |-> ErrorAt(d, m, v) - 2 * d * k + 2 * m]
    BY <2>4
  <2> QED BY <2>3, <2>5, <2>6 DEF v
<1>4. h = body(h)
  <2>1. DOMAIN h = 0 .. d
    OBVIOUS
  <2> DEFINE b == body(h)
  <2>2. b = [u \in DOMAIN b |-> b[u]] /\ DOMAIN b = 0 .. d
    OBVIOUS
  <2>3. ASSUME NEW u \in 0 .. d PROVE h[u] = b[u]
    <3> HIDE DEF h
    <3> QED BY <1>2, <1>3
  <2>4. h = [u \in DOMAIN h |-> h[u]]
    OBVIOUS
  <2> HIDE DEF h, b
  <2>5. h = b
    BY <2>1, <2>2, <2>3, <2>4
  <2> QED BY <2>5 DEF b
<1>5. f = body(f)
  <2> HIDE DEF body, h
  <2> QED BY <1>4
<1> HIDE DEF f
<1>6. f[0] = h[0] /\ \A u \in 1 .. d : f[u] = moved(f[u - 1])
  <2> HIDE DEF h, moved
  <2> QED BY <1>2, <1>5
<1> DEFINE T == {u \in Nat : u <= d => f[u] = h[u]}
<1>7. 0 \in T
  BY <1>6
<1>8. ASSUME NEW u \in Nat, u \in T PROVE u + 1 \in T
  <2> SUFFICES ASSUME u + 1 <= d PROVE f[u + 1] = h[u + 1]
    OBVIOUS
  <2>1. f[u] = h[u] /\ u + 1 \in 1 .. d /\ (u + 1) - 1 = u
    BY <1>8
  <2> HIDE DEF h, moved
  <2>2. f[u + 1] = moved(f[u]) /\ h[u + 1] = moved(h[u])
    BY <1>3, <1>6, <2>1
  <2> QED BY <2>1, <2>2
<1>9. Nat \subseteq T
  <2> HIDE DEF T
  <2> QED BY <1>7, <1>8, SetInduction
<1>10. \A u \in 0 .. d : f[u].n = Column(d, m, u)
  <2> SUFFICES ASSUME NEW u \in 0 .. d PROVE f[u].n = Column(d, m, u)
    OBVIOUS
  <2>1. u \in Nat /\ u <= d
    OBVIOUS
  <2>2. f[u] = h[u]
    BY <1>9, <2>1
  <2> QED BY <2>2
<1> QED BY <1>1, <1>10

\* A column is on the way, at most half a pixel off.
LEMMA ColumnBounds ==
  ASSUME NEW d \in Nat \ {0}, NEW m \in Nat, NEW u \in 0 .. d
  PROVE  /\ Column(d, m, u) \in 0 .. m
         /\ d * Column(d, m, u) \in Int /\ m * u \in Int
         /\ 1 - d <= 2 * (d * Column(d, m, u)) - 2 * (m * u)
         /\ 2 * (d * Column(d, m, u)) - 2 * (m * u) <= d
<1> DEFINE c == Column(d, m, u)
           x == d * c
           y == m * u
<1>1. c \in Int /\ m \in Nat /\ u \in Nat
  BY ColumnIsNear
<1>2. PICK r \in 0 .. 2 * d - 1 : 2 * m * u - d = (c - 1) * (2 * d) + r
  BY <1>1, ColumnIsNear
<1>3. 2 * m * u = 2 * y /\ y \in Int /\ x \in Int
  <2> HIDE DEF c
  <2> QED BY <1>1
<1>4. (c - 1) * (2 * d) = 2 * x - 2 * d
  <2> HIDE DEF c
  <2> QED BY <1>1
<1>5. 2 * x - 2 * y = d - r
  <2> HIDE DEF c, x, y
  <2> QED BY <1>2, <1>3, <1>4
<1>6. 0 <= y /\ y <= m * d /\ m * d \in Int
  <2>1. u * m = m * u /\ d * m = m * d /\ 0 * m = 0 /\ m * d \in Int
    OBVIOUS
  <2>2. CASE m = 0
    BY <2>1, <2>2
  <2>3. CASE m # 0
    <3>1. 0 * m <= u * m /\ u * m <= d * m
      BY <2>3, Multiples
    <3> QED BY <2>1, <3>1
  <2> QED BY <2>2, <2>3
<1>7. x = c * d
  <2> HIDE DEF c
  <2> QED BY <1>1
<1>8. c >= 0
  <2> SUFFICES ASSUME c < 0 PROVE FALSE
    BY <1>1
  <2> HIDE DEF c
  <2>1. c * d + d <= 0 * d
    BY <1>1, Multiples
  <2>2. 0 * d = 0
    OBVIOUS
  <2> HIDE DEF x, y
  <2> QED BY <1>3, <1>5, <1>6, <1>7, <2>1, <2>2
<1>9. c <= m
  <2> SUFFICES ASSUME m < c PROVE FALSE
    BY <1>1
  <2> HIDE DEF c
  <2>1. m * d + d <= c * d
    BY <1>1, Multiples
  <2> HIDE DEF x, y
  <2> QED BY <1>3, <1>5, <1>6, <1>7, <2>1
<1> HIDE DEF c, x, y
<1>10. c \in 0 .. m /\ 1 - d <= 2 * x - 2 * y /\ 2 * x - 2 * y <= d
  BY <1>1, <1>3, <1>5, <1>8, <1>9
<1> QED BY <1>3, <1>10 DEF c, x, y

\* The pixels of a walk: those of the columns, and those of a step in between.
LEMMA StairsAre ==
  ASSUME NEW d \in Nat \ {0}, NEW m \in 0 .. d
  PROVE  Stairs(d, m) = {<<u, Column(d, m, u)>> : u \in 0 .. d - 1}
                        \cup {<<u + 1, Column(d, m, u)>> :
                                 u \in {v \in 0 .. d - 1 : Column(d, m, v + 1) > Column(d, m, v)}}
<1> DEFINE w == Bresenham(d, m)
<1>1. \A u \in 0 .. d : w[u] = Column(d, m, u)
  BY WalkIsColumn
<1>2. \A u \in 0 .. d - 1 : u \in 0 .. d /\ u + 1 \in 0 .. d
  OBVIOUS
<1>3. Stairs(d, m) = {<<u, w[u]>> : u \in 0 .. d - 1}
                     \cup {<<u + 1, w[u]>> : u \in {v \in 0 .. d - 1 : w[v + 1] > w[v]}}
  BY DEF Stairs
<1> HIDE DEF w
<1>4. {v \in 0 .. d - 1 : w[v + 1] > w[v]} = {v \in 0 .. d - 1 : Column(d, m, v + 1) > Column(d, m, v)}
  BY <1>1, <1>2
<1>5. {<<u, w[u]>> : u \in 0 .. d - 1} = {<<u, Column(d, m, u)>> : u \in 0 .. d - 1}
  BY <1>1, <1>2
<1>6. {<<u + 1, w[u]>> : u \in {v \in 0 .. d - 1 : Column(d, m, v + 1) > Column(d, m, v)}}
      = {<<u + 1, Column(d, m, u)>> : u \in {v \in 0 .. d - 1 : Column(d, m, v + 1) > Column(d, m, v)}}
  BY <1>1, <1>2
<1> QED BY <1>3, <1>4, <1>5, <1>6

\* They are at most one and a half pixels off.
LEMMA StairsAreNear ==
  ASSUME NEW d \in Nat, NEW m \in 0 .. d, NEW s \in Stairs(d, m)
  PROVE  \E u \in 0 .. d, v \in 0 .. m :
            /\ s = <<u, v>> /\ d * v \in Int /\ m * u \in Int
            /\ 2 * (d * v) - 2 * (m * u) <= 3 * d
            /\ 2 * (m * u) - 2 * (d * v) <= 3 * d
<1>1. d # 0
  BY DEF Stairs
<1>2. d \in Nat \ {0}
  BY <1>1
<1>3. ASSUME NEW u \in 0 .. d - 1
      PROVE  /\ u \in 0 .. d /\ u + 1 \in 0 .. d /\ Column(d, m, u) \in 0 .. m
             /\ d * Column(d, m, u) \in Int /\ m * u \in Int /\ m * (u + 1) = m * u + m
             /\ 1 - d <= 2 * (d * Column(d, m, u)) - 2 * (m * u)
             /\ 2 * (d * Column(d, m, u)) - 2 * (m * u) <= d
  <2>1. u \in 0 .. d /\ u + 1 \in 0 .. d /\ m \in Nat /\ m * (u + 1) = m * u + m
    BY <1>2
  <2> QED BY <1>2, <2>1, ColumnBounds
<1>4. CASE \E u \in 0 .. d - 1 : s = <<u, Column(d, m, u)>>
  <2>1. PICK u \in 0 .. d - 1 : s = <<u, Column(d, m, u)>>
    BY <1>4
  <2>2. PICK v \in 0 .. m : v = Column(d, m, u)
    BY <1>3
  <2>3. PICK x \in Int, y \in Int : /\ x = d * v /\ y = m * u
                                    /\ 1 - d <= 2 * x - 2 * y /\ 2 * x - 2 * y <= d
    BY <1>3, <2>2
  <2>4. 2 * x - 2 * y <= 3 * d /\ 2 * y - 2 * x <= 3 * d
    BY <2>3
  <2>5. s = <<u, v>> /\ u \in 0 .. d
    BY <2>1, <2>2, <1>3
  <2> QED BY <2>3, <2>4, <2>5
<1>5. CASE \E u \in 0 .. d - 1 : s = <<u + 1, Column(d, m, u)>>
  <2>1. PICK u \in 0 .. d - 1 : s = <<u + 1, Column(d, m, u)>>
    BY <1>5
  <2>2. PICK v \in 0 .. m : v = Column(d, m, u)
    BY <1>3
  <2>3. PICK x \in Int, y \in Int : /\ x = d * v /\ y = m * u
                                    /\ 1 - d <= 2 * x - 2 * y /\ 2 * x - 2 * y <= d
    BY <1>3, <2>2
  <2>4. m * (u + 1) = y + m
    BY <1>3, <2>3
  <2>5. 2 * x - 2 * (y + m) <= 3 * d /\ 2 * (y + m) - 2 * x <= 3 * d
    BY <2>3
  <2>6. s = <<u + 1, v>> /\ u + 1 \in 0 .. d
    BY <2>1, <2>2, <1>3
  <2>7. y + m \in Int
    OBVIOUS
  <2> QED BY <2>3, <2>4, <2>5, <2>6, <2>7
<1> QED BY <1>2, <1>4, <1>5, StairsAre

\* A pixel right on the line is one of them, unless it is the end of the walk.
LEMMA StairsMeetTheLine ==
  ASSUME NEW d \in Nat, NEW m \in 0 .. d, NEW u \in 0 .. d - 1, NEW v \in 0 .. m, d * v = m * u
  PROVE  <<u, v>> \in Stairs(d, m)
<1>1. d \in Nat \ {0} /\ u \in 0 .. d /\ m \in Nat
  OBVIOUS
<1>2. PICK c \in 0 .. m : c = Column(d, m, u)
  BY <1>1, ColumnBounds
<1>3. PICK x \in Int, y \in Int : x = d * c /\ y = m * u /\ 1 - d <= 2 * x - 2 * y /\ 2 * x - 2 * y <= d
  BY <1>1, <1>2, ColumnBounds
<1>4. d * v = v * d /\ d * c = c * d
  OBVIOUS
<1>5. ~(c < v)
  <2> SUFFICES ASSUME c < v PROVE FALSE
    OBVIOUS
  <2>1. c * d + d <= v * d
    BY <1>1, Multiples
  <2> QED BY <1>1, <1>3, <1>4, <2>1
<1>6. ~(v < c)
  <2> SUFFICES ASSUME v < c PROVE FALSE
    OBVIOUS
  <2>1. v * d + d <= c * d
    BY <1>1, Multiples
  <2> QED BY <1>1, <1>3, <1>4, <2>1
<1>7. v = c
  BY <1>5, <1>6
<1> QED BY <1>1, <1>2, <1>7, StairsAre

-------------------------------------------------------------------------------
(* Figures: points beside a line.                                          *)

\* The lesser and the greater of two numbers.
LEMMA OfTwo ==
  ASSUME NEW a \in Int, NEW b \in Int
  PROVE  /\ Min({a, b}) = IF a <= b THEN a ELSE b
         /\ Max({a, b}) = IF a <= b THEN b ELSE a
<1> DEFINE lo == IF a <= b THEN a ELSE b
           hi == IF a <= b THEN b ELSE a
<1>1. \A x \in {a, b} : (\A y \in {a, b} : x <= y) <=> x = lo
  OBVIOUS
<1>2. \A x \in {a, b} : (\A y \in {a, b} : x >= y) <=> x = hi
  OBVIOUS
<1>3. lo \in {a, b} /\ hi \in {a, b}
  OBVIOUS
<1> HIDE DEF lo, hi
<1>4. Min({a, b}) = lo
  BY <1>1, <1>3 DEF Min
<1>5. Max({a, b}) = hi
  BY <1>2, <1>3 DEF Max
<1> QED BY <1>4, <1>5 DEF lo, hi

\* The numbers between a and b are those on the way from a to b.
LEMMA OnTheWay ==
  ASSUME NEW a \in Int, NEW b \in Int
  PROVE  /\ Abs(b - a) \in Nat /\ Sign(b - a) \in {-1, 1}
         /\ b = a + Sign(b - a) * Abs(b - a)
         /\ \A k \in 0 .. Abs(b - a) : a + Sign(b - a) * k \in Min({a, b}) .. Max({a, b})
         /\ \A x \in Min({a, b}) .. Max({a, b}) :
               Abs(x - a) \in 0 .. Abs(b - a) /\ x = a + Sign(b - a) * Abs(x - a)
<1>1. CASE b < a
  <2>1. Abs(b - a) = a - b /\ Sign(b - a) = -1
    BY <1>1 DEF Abs, Sign
  <2>2. Min({a, b}) = b /\ Max({a, b}) = a
    BY <1>1, OfTwo
  <2>3. \A k \in Int : (-1) * k = -k
    OBVIOUS
  <2>4. ASSUME NEW x \in b .. a
        PROVE  Abs(x - a) \in 0 .. a - b /\ x = a + (-1) * Abs(x - a)
    <3>1. Abs(x - a) = a - x
      BY <1>1 DEF Abs
    <3> QED BY <1>1, <3>1
  <2>5. \A k \in 0 .. a - b : a + (-1) * k \in b .. a
    BY <1>1
  <2>6. a - b \in Nat /\ b = a + (-1) * (a - b)
    BY <1>1
  <2> QED BY <2>1, <2>2, <2>4, <2>5, <2>6
<1>2. CASE ~(b < a)
  <2>1. Abs(b - a) = b - a /\ Sign(b - a) = 1
    BY <1>2 DEF Abs, Sign
  <2>2. Min({a, b}) = a /\ Max({a, b}) = b
    BY <1>2, OfTwo
  <2>3. \A k \in Int : 1 * k = k
    OBVIOUS
  <2>4. ASSUME NEW x \in a .. b
        PROVE  Abs(x - a) \in 0 .. b - a /\ x = a + 1 * Abs(x - a)
    <3>1. Abs(x - a) = x - a
      BY <1>2 DEF Abs
    <3> QED BY <1>2, <3>1
  <2>5. \A k \in 0 .. b - a : a + 1 * k \in a .. b
    BY <1>2
  <2>6. b - a \in Nat /\ b = a + 1 * (b - a)
    BY <1>2
  <2> QED BY <2>1, <2>2, <2>4, <2>5, <2>6
<1> QED BY <1>1, <1>2

\* The point r is i columns and j rows on the way from p that goes in the directions sx, sy.
Reached(p, r, sx, sy, i, j) ==
    /\ sx \in {-1, 1} /\ sy \in {-1, 1} /\ i \in Int /\ j \in Int
    /\ r[1] = p[1] + sx * i /\ r[2] = p[2] + sy * j

\* The cross product of a point that is i columns and j rows on the way.
LEMMA CrossOnTheWay ==
  ASSUME NEW p \in Int \X Int, NEW q \in Int \X Int, NEW r \in Int \X Int,
         NEW sx, NEW sy, NEW X, NEW Y, Reached(p, q, sx, sy, X, Y),
         NEW i, NEW j, Reached(p, r, sx, sy, i, j)
  PROVE  /\ X * j \in Int /\ Y * i \in Int
         /\ \/ Cross(p, q, r) = X * j - Y * i /\ Cross(q, p, r) = Y * i - X * j
            \/ Cross(p, q, r) = Y * i - X * j /\ Cross(q, p, r) = X * j - Y * i
<1>0. /\ sx \in {-1, 1} /\ sy \in {-1, 1} /\ i \in Int /\ j \in Int /\ X \in Int /\ Y \in Int
      /\ q[1] = p[1] + sx * X /\ q[2] = p[2] + sy * Y
      /\ r[1] = p[1] + sx * i /\ r[2] = p[2] + sy * j
  BY DEF Reached
<1>1. PICK x \in Int, y \in Int : x = p[1] /\ y = p[2]
  OBVIOUS
<1>2. X * j \in Int /\ Y * i \in Int
  BY <1>0
<1>3. /\ q[1] - p[1] = sx * X /\ q[2] - p[2] = sy * Y
      /\ r[1] - p[1] = sx * i /\ r[2] - p[2] = sy * j
      /\ p[1] - q[1] = -(sx * X) /\ p[2] - q[2] = -(sy * Y)
      /\ r[1] - q[1] = sx * i - sx * X /\ r[2] - q[2] = sy * j - sy * Y
  <2>1. PICK a \in Int, b \in Int, c \in Int, d \in Int :
           a = sx * X /\ b = sy * Y /\ c = sx * i /\ d = sy * j
    BY <1>0
  <2> QED BY <1>0, <1>1, <2>1
<1>4. Cross(p, q, r) = (sx * X) * (sy * j) - (sx * i) * (sy * Y)
  BY <1>3 DEF Cross
<1>5. Cross(q, p, r) = (-(sx * X)) * (sy * j - sy * Y) - (sx * i - sx * X) * (-(sy * Y))
  BY <1>3 DEF Cross
<1>6. CASE sx = sy
  <2>1. (sx * X) * (sy * j) - (sx * i) * (sy * Y) = X * j - Y * i
    <3>1. CASE sx = 1
      BY <1>0, <1>6, <3>1
    <3>2. CASE sx = -1
      BY <1>0, <1>6, <3>2
    <3> QED BY <1>0, <3>1, <3>2
  <2>2. (-(sx * X)) * (sy * j - sy * Y) - (sx * i - sx * X) * (-(sy * Y)) = Y * i - X * j
    <3>1. CASE sx = 1
      BY <1>0, <1>6, <3>1
    <3>2. CASE sx = -1
      BY <1>0, <1>6, <3>2
    <3> QED BY <1>0, <3>1, <3>2
  <2> QED BY <1>2, <1>4, <1>5, <2>1, <2>2
<1>7. CASE sx # sy
  <2>1. (sx * X) * (sy * j) - (sx * i) * (sy * Y) = Y * i - X * j
    <3>1. CASE sx = 1 /\ sy = -1
      BY <1>0, <3>1
    <3>2. CASE sx = -1 /\ sy = 1
      BY <1>0, <3>2
    <3> QED BY <1>0, <1>7, <3>1, <3>2
  <2>2. (-(sx * X)) * (sy * j - sy * Y) - (sx * i - sx * X) * (-(sy * Y)) = X * j - Y * i
    <3>1. CASE sx = 1 /\ sy = -1
      BY <1>0, <3>1
    <3>2. CASE sx = -1 /\ sy = 1
      BY <1>0, <3>2
    <3> QED BY <1>0, <1>7, <3>1, <3>2
  <2> QED BY <1>2, <1>4, <1>5, <2>1, <2>2
<1> QED BY <1>6, <1>7

\* A segment: the pixels of a walk along the longer side of it.
LEMMA SegmentIs ==
  ASSUME NEW p \in Int \X Int, NEW q \in Int \X Int,
         NEW X, X = Abs(q[1] - p[1]), NEW Y, Y = Abs(q[2] - p[2]),
         NEW sx, sx = Sign(q[1] - p[1]), NEW sy, sy = Sign(q[2] - p[2])
  PROVE  /\ Y > X => Segment(p, q) = {<<p[1] + sx * s[2], p[2] + sy * s[1]>> : s \in Stairs(Y, X)}
         /\ ~(Y > X) => Segment(p, q) = {<<p[1] + sx * s[1], p[2] + sy * s[2]>> : s \in Stairs(X, Y)}
  BY DEF Segment

\* Every pixel of a segment is between its ends, and beside it at most one and a half
\* pixels.
LEMMA SegmentIsNear ==
  ASSUME NEW p \in Int \X Int, NEW q \in Int \X Int, NEW r \in Segment(p, q)
  PROVE  r \in Int \X Int /\ NearLine(p, q, r, 3)
<1> DEFINE X == Abs(q[1] - p[1])
           Y == Abs(q[2] - p[2])
           sx == Sign(q[1] - p[1])
           sy == Sign(q[2] - p[2])
<1>1. p[1] \in Int /\ p[2] \in Int /\ q[1] \in Int /\ q[2] \in Int
  OBVIOUS
<1>2. /\ X \in Nat /\ sx \in {-1, 1} /\ q[1] = p[1] + sx * X
      /\ \A k \in 0 .. X : p[1] + sx * k \in Min({p[1], q[1]}) .. Max({p[1], q[1]})
  BY <1>1, OnTheWay
<1>3. /\ Y \in Nat /\ sy \in {-1, 1} /\ q[2] = p[2] + sy * Y
      /\ \A k \in 0 .. Y : p[2] + sy * k \in Min({p[2], q[2]}) .. Max({p[2], q[2]})
  BY <1>1, OnTheWay
<1>4. Steps(p, q) = IF X > Y THEN X ELSE Y
  BY DEF Steps
<1>5. /\ Y > X => Segment(p, q) = {<<p[1] + sx * s[2], p[2] + sy * s[1]>> : s \in Stairs(Y, X)}
      /\ ~(Y > X) => Segment(p, q) = {<<p[1] + sx * s[1], p[2] + sy * s[2]>> : s \in Stairs(X, Y)}
  BY SegmentIs
<1> HIDE DEF X, Y, sx, sy
<1>6. \E i \in 0 .. X, j \in 0 .. Y :
         /\ r = <<p[1] + sx * i, p[2] + sy * j>>
         /\ X * j \in Int /\ Y * i \in Int
         /\ 2 * (X * j) - 2 * (Y * i) <= 3 * Steps(p, q)
         /\ 2 * (Y * i) - 2 * (X * j) <= 3 * Steps(p, q)
  <2>1. CASE Y > X
    <3>1. PICK s \in Stairs(Y, X) : r = <<p[1] + sx * s[2], p[2] + sy * s[1]>>
      BY <1>5, <2>1
    <3>2. X \in 0 .. Y /\ Steps(p, q) = Y
      BY <1>2, <1>3, <1>4, <2>1
    <3>3. PICK u \in 0 .. Y, v \in 0 .. X :
             /\ s = <<u, v>> /\ Y * v \in Int /\ X * u \in Int
             /\ 2 * (Y * v) - 2 * (X * u) <= 3 * Y
             /\ 2 * (X * u) - 2 * (Y * v) <= 3 * Y
      BY <1>3, <3>2, StairsAreNear
    <3> QED BY <3>1, <3>2, <3>3
  <2>2. CASE ~(Y > X)
    <3>1. PICK s \in Stairs(X, Y) : r = <<p[1] + sx * s[1], p[2] + sy * s[2]>>
      BY <1>5, <2>2
    <3>2. Y \in 0 .. X /\ Steps(p, q) = X
      BY <1>2, <1>3, <1>4, <2>2
    <3>3. PICK u \in 0 .. X, v \in 0 .. Y :
             /\ s = <<u, v>> /\ X * v \in Int /\ Y * u \in Int
             /\ 2 * (X * v) - 2 * (Y * u) <= 3 * X
             /\ 2 * (Y * u) - 2 * (X * v) <= 3 * X
      BY <1>2, <3>2, StairsAreNear
    <3> QED BY <3>1, <3>2, <3>3
  <2> QED BY <2>1, <2>2
<1>7. PICK i \in 0 .. X, j \in 0 .. Y :
         /\ r = <<p[1] + sx * i, p[2] + sy * j>>
         /\ 2 * (X * j) - 2 * (Y * i) <= 3 * Steps(p, q)
         /\ 2 * (Y * i) - 2 * (X * j) <= 3 * Steps(p, q)
  BY <1>6
<1>8. sx * i \in Int /\ sy * j \in Int /\ i \in Int /\ j \in Int /\ X \in Int /\ Y \in Int
  BY <1>2, <1>3
<1>9. r \in Int \X Int /\ r[1] = p[1] + sx * i /\ r[2] = p[2] + sy * j
  BY <1>1, <1>7, <1>8
<1>10. Between(p, q, r)
  <2>1. r[1] \in Min({p[1], q[1]}) .. Max({p[1], q[1]})
    BY <1>2, <1>9
  <2>2. r[2] \in Min({p[2], q[2]}) .. Max({p[2], q[2]})
    BY <1>3, <1>9
  <2> QED BY <2>1, <2>2 DEF Between
<1>11. PICK x \in Int, y \in Int : x = X * j /\ y = Y * i
  BY <1>8
<1>12. \/ Cross(p, q, r) = x - y /\ Cross(q, p, r) = y - x
       \/ Cross(p, q, r) = y - x /\ Cross(q, p, r) = x - y
  <2>1. r \in Int \X Int /\ Reached(p, q, sx, sy, X, Y) /\ Reached(p, r, sx, sy, i, j)
    BY <1>2, <1>3, <1>8, <1>9 DEF Reached
  <2>2. \/ Cross(p, q, r) = X * j - Y * i /\ Cross(q, p, r) = Y * i - X * j
        \/ Cross(p, q, r) = Y * i - X * j /\ Cross(q, p, r) = X * j - Y * i
    BY <2>1, CrossOnTheWay
  <2> QED BY <1>11, <2>2
<1>13. 2 * (x - y) <= 3 * Steps(p, q) /\ 2 * (y - x) <= 3 * Steps(p, q)
  BY <1>7, <1>11
<1>14. Steps(q, p) = Steps(p, q)
  <2>1. Abs(p[1] - q[1]) = Abs(q[1] - p[1]) /\ Abs(p[2] - q[2]) = Abs(q[2] - p[2])
    BY <1>1 DEF Abs
  <2> QED BY <2>1 DEF Steps
<1> QED BY <1>9, <1>10, <1>12, <1>13, <1>14 DEF NearLine, Off

\* A segment runs through every point between its ends that lies right on it, but for the
\* last.
LEMMA SegmentMeetsTheLine ==
  ASSUME NEW p \in Int \X Int, NEW q \in Int \X Int, NEW r \in Int \X Int,
         r # q, Between(p, q, r), Cross(p, q, r) = 0
  PROVE  r \in Segment(p, q)
<1> DEFINE X == Abs(q[1] - p[1])
           Y == Abs(q[2] - p[2])
           sx == Sign(q[1] - p[1])
           sy == Sign(q[2] - p[2])
<1>1. p[1] \in Int /\ p[2] \in Int /\ q[1] \in Int /\ q[2] \in Int
  OBVIOUS
<1>2. /\ r[1] \in Min({p[1], q[1]}) .. Max({p[1], q[1]})
      /\ r[2] \in Min({p[2], q[2]}) .. Max({p[2], q[2]})
  BY DEF Between
<1>3. X \in Nat /\ sx \in {-1, 1} /\ q[1] = p[1] + sx * X /\ \E k \in 0 .. X : r[1] = p[1] + sx * k
  <2>1. X \in Nat /\ sx \in {-1, 1} /\ q[1] = p[1] + sx * X
    BY <1>1, OnTheWay
  <2>2. PICK a \in Int, b \in Int, x \in Int : a = p[1] /\ b = q[1] /\ x = r[1]
    OBVIOUS
  <2>3. x \in Min({a, b}) .. Max({a, b})
    BY <1>2, <2>2
  <2>4. \A y \in Min({a, b}) .. Max({a, b}) :
           Abs(y - a) \in 0 .. Abs(b - a) /\ y = a + Sign(b - a) * Abs(y - a)
    BY OnTheWay
  <2>5. Abs(x - a) \in 0 .. Abs(b - a) /\ x = a + Sign(b - a) * Abs(x - a)
    BY <2>3, <2>4, Zenon
  <2> QED BY <2>1, <2>2, <2>5
<1>4. Y \in Nat /\ sy \in {-1, 1} /\ q[2] = p[2] + sy * Y /\ \E k \in 0 .. Y : r[2] = p[2] + sy * k
  <2>1. Y \in Nat /\ sy \in {-1, 1} /\ q[2] = p[2] + sy * Y
    BY <1>1, OnTheWay
  <2>2. PICK a \in Int, b \in Int, x \in Int : a = p[2] /\ b = q[2] /\ x = r[2]
    OBVIOUS
  <2>3. x \in Min({a, b}) .. Max({a, b})
    BY <1>2, <2>2
  <2>4. \A y \in Min({a, b}) .. Max({a, b}) :
           Abs(y - a) \in 0 .. Abs(b - a) /\ y = a + Sign(b - a) * Abs(y - a)
    BY OnTheWay
  <2>5. Abs(x - a) \in 0 .. Abs(b - a) /\ x = a + Sign(b - a) * Abs(x - a)
    BY <2>3, <2>4, Zenon
  <2> QED BY <2>1, <2>2, <2>5
<1>5. /\ Y > X => Segment(p, q) = {<<p[1] + sx * s[2], p[2] + sy * s[1]>> : s \in Stairs(Y, X)}
      /\ ~(Y > X) => Segment(p, q) = {<<p[1] + sx * s[1], p[2] + sy * s[2]>> : s \in Stairs(X, Y)}
  BY SegmentIs
<1> HIDE DEF X, Y, sx, sy
<1>6. PICK i \in 0 .. X : r[1] = p[1] + sx * i
  BY <1>3
<1>7. PICK j \in 0 .. Y : r[2] = p[2] + sy * j
  BY <1>4
<1>8. X * j = Y * i /\ X * j \in Int /\ Y * i \in Int
  <2>1. Reached(p, q, sx, sy, X, Y) /\ Reached(p, r, sx, sy, i, j)
    BY <1>3, <1>4, <1>6, <1>7 DEF Reached
  <2>2. /\ X * j \in Int /\ Y * i \in Int
        /\ \/ Cross(p, q, r) = X * j - Y * i
           \/ Cross(p, q, r) = Y * i - X * j
    BY <2>1, CrossOnTheWay
  <2>3. PICK x \in Int, y \in Int : x = X * j /\ y = Y * i
    BY <2>2
  <2> QED BY <2>2, <2>3
<1>9. r = <<r[1], r[2]>> /\ q = <<q[1], q[2]>>
  OBVIOUS
<1>10. ~(i = X /\ j = Y)
  BY <1>3, <1>4, <1>6, <1>7, <1>9
<1>11. CASE Y > X
  <2>1. j # Y
    <3> SUFFICES ASSUME j = Y PROVE FALSE
      OBVIOUS
    <3>1. X * Y = Y * X /\ Y \in Nat \ {0}
      BY <1>3, <1>4, <1>11
    <3>2. X * Y = i * Y
      BY <1>8, <3>1
    <3>3. i < X
      BY <1>3, <1>10
    <3>4. i * Y + Y <= X * Y
      BY <1>3, <3>1, <3>3, Multiples
    <3> QED BY <3>1, <3>2, <3>4, <1>8
  <2>2. j \in 0 .. Y - 1 /\ X \in 0 .. Y /\ Y * i = X * j
    BY <1>3, <1>4, <1>8, <1>11, <2>1
  <2>3. <<j, i>> \in Stairs(Y, X)
    BY <1>4, <2>2, StairsMeetTheLine
  <2>4. r = <<p[1] + sx * <<j, i>>[2], p[2] + sy * <<j, i>>[1]>>
    BY <1>6, <1>7, <1>9
  <2> QED BY <1>5, <1>11, <2>3, <2>4
<1>12. CASE ~(Y > X)
  <2>1. i # X
    <3> SUFFICES ASSUME i = X PROVE FALSE
      OBVIOUS
    <3>1. j < Y /\ X \in Nat \ {0}
      BY <1>3, <1>4, <1>10, <1>12
    <3>2. X * Y = Y * X /\ X * j = j * X
      BY <1>3, <1>4
    <3>3. j * X + X <= Y * X
      BY <1>4, <3>1, Multiples
    <3> QED BY <3>1, <3>2, <3>3, <1>8
  <2>2. i \in 0 .. X - 1 /\ Y \in 0 .. X
    BY <1>3, <1>4, <1>12, <2>1
  <2>3. <<i, j>> \in Stairs(X, Y)
    BY <1>3, <1>8, <2>2, StairsMeetTheLine
  <2>4. r = <<p[1] + sx * <<i, j>>[1], p[2] + sy * <<i, j>>[2]>>
    BY <1>6, <1>7, <1>9
  <2> QED BY <1>5, <1>12, <2>3, <2>4
<1> QED BY <1>11, <1>12

-------------------------------------------------------------------------------
(* Figures: what is on the screen is not clipped.                          *)

Points == Int \X Int

\* The lines that Clipped tells apart at once, and what it goes on with for the others.
Decided(ends) ==
    \/ code(ends[1]) = {} /\ code(ends[2]) = {}
    \/ code(ends[1]) \cap code(ends[2]) # {}

Shortened(ends) ==
    IF code(ends[1]) # {} THEN <<Intersection(ends[1], ends[2], code(ends[1])), ends[2]>>
    ELSE <<ends[1], Intersection(ends[1], ends[2], code(ends[2]))>>

\* The division of C has a result for every divisor but zero.
LEMMA QuotientExists ==
  ASSUME NEW a \in Int, NEW b \in Int \ {0}
  PROVE  Quotient(a, b) \in Int
<1>1. Abs(a) \in Int /\ Abs(b) \in Nat \ {0}
  BY DEF Abs
<1>2. PICK q \in Int : q = Abs(a) \div Abs(b)
  BY <1>1, Divided
<1>3. -q \in Int
  OBVIOUS
<1> QED BY <1>2, <1>3 DEF Quotient

\* A point off the screen and one that is not beyond the same sides have a point of the
\* side between them: no coordinate is divided by zero.
LEMMA IntersectionIsPoint ==
  ASSUME NEW p \in Points, NEW q \in Points, code(p) # {}, code(p) \cap code(q) = {}
  PROVE  Intersection(p, q, code(p)) \in Points /\ Intersection(q, p, code(p)) \in Points
<1>1. p[1] \in Int /\ p[2] \in Int /\ q[1] \in Int /\ q[2] \in Int
  BY DEF Points
<1>2. GL_width \in Nat /\ GL_height \in Nat
  BY ScreenAssumption DEF GL_width, GL_height, WidthOf, HeightOf
<1>3. /\ code(p) \subseteq {"LEFT", "RIGHT", "BOTTOM", "TOP"}
      /\ "TOP" \in code(p) <=> p[2] > GL_height - 1
      /\ "BOTTOM" \in code(p) <=> p[2] < 0
      /\ "RIGHT" \in code(p) <=> p[1] > GL_width - 1
      /\ "LEFT" \in code(p) <=> p[1] < 0
  BY DEF code
<1>4. /\ "TOP" \in code(q) <=> q[2] > GL_height - 1
      /\ "BOTTOM" \in code(q) <=> q[2] < 0
      /\ "RIGHT" \in code(q) <=> q[1] > GL_width - 1
      /\ "LEFT" \in code(q) <=> q[1] < 0
  BY DEF code
<1>5. ASSUME NEW a \in Points, NEW b \in Points, NEW y \in Int, a[2] # b[2]
      PROVE  AtY(a, b, y) \in Points
  <2>1. /\ a[1] \in Int /\ b[1] \in Int /\ (b[1] - a[1]) * (y - a[2]) \in Int
        /\ b[2] - a[2] \in Int \ {0}
    BY <1>5 DEF Points
  <2>2. Quotient((b[1] - a[1]) * (y - a[2]), b[2] - a[2]) \in Int
    BY <2>1, QuotientExists
  <2> QED BY <2>1, <2>2 DEF AtY, Points
<1>6. ASSUME NEW a \in Points, NEW b \in Points, NEW x \in Int, a[1] # b[1]
      PROVE  AtX(a, b, x) \in Points
  <2>1. /\ a[2] \in Int /\ b[2] \in Int /\ (b[2] - a[2]) * (x - a[1]) \in Int
        /\ b[1] - a[1] \in Int \ {0}
    BY <1>6 DEF Points
  <2>2. Quotient((b[2] - a[2]) * (x - a[1]), b[1] - a[1]) \in Int
    BY <2>1, QuotientExists
  <2> QED BY <2>1, <2>2 DEF AtX, Points
<1>7. CASE "TOP" \in code(p)
  <2>1. p[2] # q[2] /\ GL_height - 1 \in Int
    BY <1>1, <1>2, <1>3, <1>4, <1>7
  <2> QED BY <1>5, <1>7, <2>1 DEF Intersection
<1>8. CASE "TOP" \notin code(p) /\ "BOTTOM" \in code(p)
  <2>1. p[2] # q[2]
    BY <1>1, <1>3, <1>4, <1>8
  <2> QED BY <1>5, <1>8, <2>1 DEF Intersection
<1>9. CASE "TOP" \notin code(p) /\ "BOTTOM" \notin code(p) /\ "RIGHT" \in code(p)
  <2>1. p[1] # q[1] /\ GL_width - 1 \in Int
    BY <1>1, <1>2, <1>3, <1>4, <1>9
  <2> QED BY <1>6, <1>9, <2>1 DEF Intersection
<1>10. CASE "TOP" \notin code(p) /\ "BOTTOM" \notin code(p) /\ "RIGHT" \notin code(p)
  <2>1. "LEFT" \in code(p)
    BY <1>3, <1>10
  <2>2. p[1] # q[1]
    BY <1>1, <1>3, <1>4, <2>1
  <2> QED BY <1>6, <1>10, <2>2 DEF Intersection
<1> QED BY <1>7, <1>8, <1>9, <1>10

LEMMA ShortenedIsLine ==
  ASSUME NEW ends \in Points \X Points, ~Decided(ends)
  PROVE  Shortened(ends) \in Points \X Points
<1>1. ends[1] \in Points /\ ends[2] \in Points
  OBVIOUS
<1>2. code(ends[1]) \cap code(ends[2]) = {} /\ (code(ends[1]) # {} \/ code(ends[2]) # {})
  BY DEF Decided
<1>3. CASE code(ends[1]) # {}
  BY <1>1, <1>2, <1>3, IntersectionIsPoint DEF Shortened
<1>4. CASE code(ends[1]) = {}
  <2> SUFFICES Intersection(ends[1], ends[2], code(ends[2])) \in Points
    BY <1>1, <1>4 DEF Shortened
  <2>1. code(ends[2]) # {} /\ code(ends[2]) \cap code(ends[1]) = {}
    BY <1>2, <1>4
  <2> QED BY <1>1, <2>1, IntersectionIsPoint
<1> QED BY <1>3, <1>4

\* f is the function on D that knows what is done and asks itself about what is not.
AsksItself(f, D, Done, out, next) ==
    /\ f = [x \in D |-> f[x]]
    /\ \A x \in D : f[x] = IF x \in Done THEN out[x] ELSE f[next[x]]

\* A function that asks itself once more, or not, exists: where the asking ends it is what
\* comes out there, where it does not end it is anything. The results that a line leads to
\* are the least relation that holds those of the lines that are done and passes them on.
LEMMA TailRecursion ==
  ASSUME NEW D, NEW Done, Done \subseteq D, NEW out, NEW next, next \in [D -> D]
  PROVE  \E f : AsksItself(f, D, Done, out, next)
<1> DEFINE V == {out[x] : x \in Done}
           Closed_(S) == /\ \A x \in Done : <<x, out[x]>> \in S
                         /\ \A x \in D \ Done, v \in V : <<next[x], v>> \in S => <<x, v>> \in S
           G == {e \in D \X V : \A S \in SUBSET (D \X V) : Closed_(S) => e \in S}
           val(x) == {v \in V : <<x, v>> \in G}
           f == [x \in D |-> CHOOSE v : v \in val(x)]
<1>1. Closed_(G)
  <2>1. ASSUME NEW x \in Done PROVE <<x, out[x]>> \in G
    <3>1. <<x, out[x]>> \in D \X V
      OBVIOUS
    <3> QED BY <3>1
  <2>2. ASSUME NEW x \in D \ Done, NEW v \in V, <<next[x], v>> \in G
        PROVE  <<x, v>> \in G
    <3>1. <<x, v>> \in D \X V
      OBVIOUS
    <3>2. ASSUME NEW S \in SUBSET (D \X V), Closed_(S)
          PROVE  <<x, v>> \in S
      <4>1. <<next[x], v>> \in S
        BY <2>2, <3>2
      <4> HIDE DEF V
      <4> QED BY <3>2, <4>1
    <3> HIDE DEF Closed_, V
    <3> QED BY <3>1, <3>2
  <2> HIDE DEF G, V
  <2> QED BY <2>1, <2>2
\* A closed relation holds all of G.
<1>2. ASSUME NEW S \in SUBSET (D \X V), Closed_(S) PROVE G \subseteq S
  <2> HIDE DEF Closed_, V
  <2> QED BY <1>2
<1>3. G \subseteq D \X V
  <2> HIDE DEF Closed_, V
  <2> QED OBVIOUS
<1>4. \A x \in Done : out[x] \in V
  OBVIOUS
<1> HIDE DEF V, G
<1>5. ASSUME NEW x \in Done, NEW v \in V, <<x, v>> \in G
      PROVE  v = out[x]
  <2> SUFFICES ASSUME v # out[x] PROVE FALSE
    OBVIOUS
  <2> DEFINE S == G \ {<<x, v>>}
  <2>1. \A y \in Done : <<y, out[y]>> \in S
    <3> SUFFICES ASSUME NEW y \in Done PROVE <<y, out[y]>> # <<x, v>>
      BY <1>1
    <3> QED OBVIOUS
  <2>2. \A y \in D \ Done, w \in V : <<next[y], w>> \in S => <<y, w>> \in S
    <3> SUFFICES ASSUME NEW y \in D \ Done, NEW w \in V, <<next[y], w>> \in S
                 PROVE  <<y, w>> \in S
      OBVIOUS
    <3>1. <<y, w>> \in G
      BY <1>1
    <3>2. <<y, w>> # <<x, v>>
      OBVIOUS
    <3> QED BY <3>1, <3>2
  <2>3. S \in SUBSET (D \X V)
    BY <1>3
  <2>4. Closed_(S)
    <3> HIDE DEF S
    <3> QED BY <2>1, <2>2
  <2>5. G \subseteq S
    <3> HIDE DEF S, Closed_
    <3> QED BY <1>2, <2>3, <2>4
  <2> QED BY <1>5, <2>5
<1>6. ASSUME NEW x \in D \ Done, NEW v \in V, <<x, v>> \in G
      PROVE  <<next[x], v>> \in G
  <2> SUFFICES ASSUME <<next[x], v>> \notin G PROVE FALSE
    OBVIOUS
  <2> DEFINE S == G \ {<<x, v>>}
  <2>1. \A y \in Done : <<y, out[y]>> \in S
    <3> SUFFICES ASSUME NEW y \in Done PROVE <<y, out[y]>> # <<x, v>>
      BY <1>1
    <3> QED OBVIOUS
  <2>2. \A y \in D \ Done, w \in V : <<next[y], w>> \in S => <<y, w>> \in S
    <3> SUFFICES ASSUME NEW y \in D \ Done, NEW w \in V, <<next[y], w>> \in S
                 PROVE  <<y, w>> \in S
      OBVIOUS
    <3>1. <<y, w>> \in G /\ <<next[y], w>> \in G
      BY <1>1
    <3>2. <<y, w>> # <<x, v>>
      BY <3>1
    <3> QED BY <3>1, <3>2
  <2>3. S \in SUBSET (D \X V)
    BY <1>3
  <2>4. Closed_(S)
    <3> HIDE DEF S
    <3> QED BY <2>1, <2>2
  <2>5. G \subseteq S
    <3> HIDE DEF S, Closed_
    <3> QED BY <1>2, <2>3, <2>4
  <2> QED BY <1>6, <2>5
<1>7. \A x \in Done : val(x) = {out[x]}
  BY <1>1, <1>4, <1>5
<1>8. \A x \in D \ Done : val(x) = val(next[x])
  BY <1>1, <1>6
<1>9. ASSUME NEW x \in D
      PROVE  f[x] = IF x \in Done THEN out[x] ELSE f[next[x]]
  <2>1. f[x] = CHOOSE v : v \in val(x)
    OBVIOUS
  <2>2. next[x] \in D /\ f[next[x]] = CHOOSE v : v \in val(next[x])
    OBVIOUS
  <2> HIDE DEF val, f
  <2>3. CASE x \in Done
    <3>1. val(x) = {out[x]}
      BY <1>7, <2>3
    <3>2. (CHOOSE v : v \in {out[x]}) = out[x]
      OBVIOUS
    <3> QED BY <2>1, <2>3, <3>1, <3>2
  <2>4. CASE x \notin Done
    <3>1. val(x) = val(next[x])
      BY <1>8, <2>4
    <3> QED BY <2>1, <2>2, <2>4, <3>1
  <2> QED BY <2>3, <2>4
<1>10. f = [x \in D |-> f[x]]
  <2> DEFINE w(x) == CHOOSE v : v \in val(x)
  <2>1. f = [x \in D |-> w(x)]
    OBVIOUS
  <2> HIDE DEF w, f
  <2> QED BY <2>1
<1> HIDE DEF f
<1> QED BY <1>9, <1>10 DEF AsksItself

\* So Clipped is what its definition says.
LEMMA ClippedIs ==
  ASSUME NEW ends \in Points \X Points
  PROVE  /\ Decided(ends) =>
               Clipped[ends] = IF code(ends[1]) = {} /\ code(ends[2]) = {} THEN ends ELSE <<>>
         /\ ~Decided(ends) => Clipped[ends] = Clipped[Shortened(ends)]
<1> DEFINE D == Points \X Points
           out == [e \in D |-> IF code(e[1]) = {} /\ code(e[2]) = {} THEN e ELSE <<>>]
           Done == {e \in D : Decided(e)}
           next == [e \in D |-> IF Decided(e) THEN e ELSE Shortened(e)]
           body(g) == [e \in (Int \X Int) \X (Int \X Int) |->
                          LET p == e[1]
                              q == e[2]
                          IN IF code(p) = {} /\ code(q) = {} THEN e
                             ELSE IF code(p) \cap code(q) # {} THEN <<>>
                             ELSE IF code(p) # {} THEN g[<<Intersection(p, q, code(p)), q>>]
                             ELSE g[<<p, Intersection(p, q, code(q))>>]]
           f == CHOOSE g : g = body(g)
<1>1. Clipped = f
  BY DEF Clipped
<1>2. next \in [D -> D]
  BY ShortenedIsLine
<1>3. PICK h : /\ h = [e \in D |-> h[e]]
               /\ \A e \in D : h[e] = IF e \in Done THEN out[e] ELSE h[next[e]]
  <2>1. Done \subseteq D
    OBVIOUS
  <2> HIDE DEF D, Done, next, out
  <2>2. \E h : AsksItself(h, D, Done, out, next)
    BY <1>2, <2>1, TailRecursion
  <2> QED BY <2>2 DEF AsksItself
<1>4. ASSUME NEW g
      PROVE  body(g) = [e \in D |-> IF e \in Done THEN out[e] ELSE g[next[e]]]
  <2>1. ASSUME NEW e \in D
        PROVE  (LET p == e[1]
                    q == e[2]
                IN IF code(p) = {} /\ code(q) = {} THEN e
                   ELSE IF code(p) \cap code(q) # {} THEN <<>>
                   ELSE IF code(p) # {} THEN g[<<Intersection(p, q, code(p)), q>>]
                   ELSE g[<<p, Intersection(p, q, code(q))>>])
               = IF e \in Done THEN out[e] ELSE g[next[e]]
    BY DEF Decided, Shortened
  <2> QED BY <2>1 DEF Points
<1>5. h = body(h)
  <2>1. body(h) = [e \in D |-> IF e \in Done THEN out[e] ELSE h[next[e]]]
    BY <1>4
  <2> HIDE DEF body, D, Done, out, next
  <2> QED BY <1>3, <2>1
<1>6. f = body(f)
  <2> HIDE DEF body
  <2> QED BY <1>5
<1> HIDE DEF f
<1>7. f = [e \in D |-> IF e \in Done THEN out[e] ELSE f[next[e]]]
  <2>1. body(f) = [e \in D |-> IF e \in Done THEN out[e] ELSE f[next[e]]]
    BY <1>4
  <2> HIDE DEF body, D, Done, out, next
  <2> QED BY <1>6, <2>1
<1>8. Decided(ends) => f[ends] = out[ends]
  <2> HIDE DEF out, next, body
  <2> QED BY <1>7
<1>9. ~Decided(ends) => f[ends] = f[Shortened(ends)]
  <2>1. ~Decided(ends) => next[ends] = Shortened(ends)
    OBVIOUS
  <2> HIDE DEF out, next, body
  <2> QED BY <1>7, <2>1
<1> QED BY <1>1, <1>8, <1>9

\* A line that is on the screen is drawn from end to end.
LEMMA LineOnScreen ==
  ASSUME NEW p \in Int \X Int, NEW q \in Int \X Int, code(p) = {}, code(q) = {}
  PROVE  GL_line(p, q) = Segment(p, q)
<1> DEFINE e == <<p, q>>
<1>1. e \in Points \X Points /\ e[1] = p /\ e[2] = q /\ e # <<>>
  BY DEF Points
<1>2. Decided(e)
  BY <1>1 DEF Decided
<1>3. Clipped[e] = e
  <2> HIDE DEF e
  <2> QED BY <1>1, <1>2, ClippedIs
<1> QED BY <1>1, <1>3 DEF GL_line, FGA_line

===============================================================================
