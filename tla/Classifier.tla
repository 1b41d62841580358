------------------------------ MODULE Classifier ------------------------------
(***************************************************************************)
(* What the accelerator promises, whatever its pipeline looks like: a      *)
(* question is put while the classifier is free, it is then busy, and it   *)
(* ends by showing one of the answers that were right for the question     *)
(* when it was put.  A reset forgets the question and shows 0.             *)
(***************************************************************************)
EXTENDS Integers

CONSTANT Answer             \* the answers there are, 0 among them

VARIABLES busy,             \* a question is being worked on
          asked,            \* the right answers to the last question
          answer            \* what is shown; NoAnswer while busy

NoAnswer == -1

classifierVars == <<busy, asked, answer>>

Init ==
    /\ busy = FALSE
    /\ asked = {}
    /\ answer = 0

Ask ==
    /\ ~busy
    /\ busy' = TRUE
    /\ asked' \in (SUBSET Answer) \ {{}}
    /\ answer' = NoAnswer

Reply ==
    /\ busy
    /\ busy' = FALSE
    /\ answer' \in asked
    /\ UNCHANGED asked

Reset ==
    /\ busy' = FALSE
    /\ asked' = {}
    /\ answer' = 0

Next == Ask \/ Reply \/ Reset

SafetySpec == Init /\ [][Next]_classifierVars

===============================================================================
