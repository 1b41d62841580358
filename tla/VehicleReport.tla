----------------------------- MODULE VehicleReport -----------------------------
(***************************************************************************)
(* What the accuracy test shows to someone who watches the probes: one     *)
(* report per test sample, in order and without a gap, pass after pass.    *)
(* Each report gives the sample, the class expected, a class that the      *)
(* forest gives to that sample, and the number of matches of this pass up  *)
(* to this sample.  A reset starts again with the first sample.            *)
(***************************************************************************)
EXTENDS Integers

CONSTANTS LastSample,       \* number of the last sample
          Expected,         \* class expected of each sample
          Predictions       \* classes the forest may give to each sample

VARIABLES sample,           \* the sample to be reported next
          matches,          \* matches of this pass so far
          report            \* the report on show, or NoReport

NoReport == [shown |-> FALSE]

reportVars == <<sample, matches, report>>

Init ==
    /\ sample = 0
    /\ matches = 0
    /\ report = NoReport

Count(class) == matches + (IF class = Expected[sample] THEN 1 ELSE 0)

Show(class) ==
    report' = [shown |-> TRUE, sample |-> sample, expected |-> Expected[sample],
               pred |-> class, correct |-> Count(class)]

Advance(class) ==
    IF sample < LastSample
    THEN sample' = sample + 1 /\ matches' = Count(class)
    ELSE sample' = 0 /\ matches' = 0

StartAgain == sample' = 0 /\ matches' = 0

Report == \E class \in Predictions[sample] : Show(class) /\ Advance(class)

Hide ==
    /\ report' = NoReport
    /\ UNCHANGED <<sample, matches>>

\* A break may let the report through that was just being made.
Restart ==
    /\ StartAgain
    /\ \/ report' = NoReport
       \/ \E class \in Predictions[sample] : Show(class)

Next == Report \/ Hide \/ Restart

Spec == Init /\ [][Next]_reportVars

===============================================================================
