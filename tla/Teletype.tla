------------------------------- MODULE Teletype --------------------------------
(***************************************************************************)
(* What a terminal promises: the last lines of what was printed, the       *)
(* oldest one on top.  A line that is full ends by itself.  The paper      *)
(* moves when the first character comes that needs a new line below the    *)
(* last one.                                                               *)
(***************************************************************************)
EXTENDS Integers

CONSTANTS Chars, Space, COLUMNS, LINES

VARIABLES text,             \* the lines, from 0 on top
          row, column       \* where the next character goes; row LINES is below the last one

textVars == <<text, row, column>>

EmptyLine == [c \in 0 .. COLUMNS - 1 |-> Space]
EmptyText == [l \in 0 .. LINES - 1 |-> EmptyLine]

Init == text = EmptyText /\ row = 0 /\ column = 0

\* The paper with the line of the cursor on it, and that line.
Paper ==
    IF row < LINES THEN text
    ELSE [l \in 0 .. LINES - 1 |-> IF l < LINES - 1 THEN text[l + 1] ELSE EmptyLine]

Line == IF row < LINES THEN row ELSE LINES - 1

Type(c) ==
    /\ text' = [Paper EXCEPT ![Line][column] = c]
    /\ column' = (column + 1) % COLUMNS
    /\ row' = IF column + 1 = COLUMNS THEN Line + 1 ELSE Line

NewLine ==
    /\ text' = Paper
    /\ column' = 0
    /\ row' = Line + 1

Back ==
    /\ text' = Paper
    /\ column' = IF column > 0 THEN column - 1 ELSE 0
    /\ row' = Line

Place(l, c) ==
    /\ row' = l
    /\ column' = c
    /\ UNCHANGED text

Erase == text' = EmptyText /\ UNCHANGED <<row, column>>

Restart == text' = EmptyText /\ row' = 0 /\ column' = 0

Next ==
    \/ Restart
    \/ Erase
    \/ \E c \in Chars : Type(c)
    \/ NewLine
    \/ Back
    \/ \E l \in 0 .. LINES - 1, c \in 0 .. COLUMNS - 1 : Place(l, c)

Spec == Init /\ [][Next]_textVars

===============================================================================
