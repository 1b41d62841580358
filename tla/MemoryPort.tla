------------------------------ MODULE MemoryPort ------------------------------
(***************************************************************************)
(* What a memory that is slower than the processor promises: it is busy    *)
(* from the clock after the strobe until it holds the word of the address  *)
(* that was asked for, and it keeps this word until it is asked again.     *)
(* In return it is never asked while it is busy.                           *)
(***************************************************************************)
EXTENDS Integers

CONSTANTS Addresses,        \* the addresses that may be asked for
          Words             \* the word at each of them

VARIABLES busy, asked, word

portVars == <<busy, asked, word>>

Init ==
    /\ busy = FALSE
    /\ asked = -1
    /\ word = <<>>

Ask ==
    /\ ~busy
    /\ busy' = TRUE
    /\ asked' \in Addresses

\* While the port is busy the word has no meaning.
Work ==
    /\ busy
    /\ busy' = TRUE
    /\ UNCHANGED asked

Answer ==
    /\ busy
    /\ busy' = FALSE
    /\ word' = Words[asked]
    /\ UNCHANGED asked

Next ==
    \/ Ask
    \/ Work
    \/ Answer

Spec == Init /\ [][Next]_portVars

===============================================================================
