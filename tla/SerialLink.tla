------------------------------ MODULE SerialLink ------------------------------
(***************************************************************************)
(* What one direction of a serial line promises: a byte under way arrives  *)
(* unchanged and once, in a box that holds one byte; a read empties the    *)
(* box, and the box may be emptied without a read of a break only.  A byte *)
(* that arrives while another one is in the box replaces it.               *)
(***************************************************************************)
CONSTANTS Byte, None,
          BREAK             \* the byte that interrupts the program

VARIABLES line,             \* the byte under way
          box,              \* the last one received, until it is read
          read              \* what a read in the last step returned

linkVars == <<line, box, read>>

Init ==
    /\ line = None
    /\ box \in Byte \cup {None}
    /\ read = None

MaySend ==
    \/ line' = line
    \/ line = None /\ line' \in Byte

\* Nothing is lost but by a read or a break, and nothing is read twice.
Keep    == MaySend /\ box' = box /\ read' = None
Read    == MaySend /\ box' = None /\ read' = box
Discard == MaySend /\ box = BREAK /\ box' = None /\ read' = None

\* A byte that arrives in the step of a read is not lost with the one read.  The
\* next one may follow at once.
Arrive ==
    /\ line # None
    /\ line' \in Byte \cup {None}
    /\ box' = line
    /\ read' \in {None, box}

Next ==
    \/ Keep
    \/ Read
    \/ Discard
    \/ Arrive

Spec == Init /\ [][Next]_linkVars

===============================================================================
