------------------------------ MODULE MCVehicleSoC ------------------------------
(***************************************************************************)
(* One tree of depth one, two features and two samples that fall on both   *)
(* sides of its comparison.                                                *)
(***************************************************************************)
EXTENDS VehicleSoC, TLC

Word(f, t, c) == [feature_idx |-> f, threshold_x2 |-> t, class |-> c]

MCForest == [a \in Address |-> << Word(0, 1, 0), Word(0, 0, 1), Word(0, 0, 2) >>[a + 1]]

\* What the memory holds at power-up: an old forest.
MCPowerUpForests     == { [a \in Address |-> Word(2, 2, 3)] }
MCPowerUpFeatures    == { [s \in Slot |-> 3] }
MCPowerUpPredictions == { [t \in Trees |-> 0] }

\* The forest gives classes 1 and 2; the label of the second disagrees.
MCSamples  == [s \in Sample |-> << 0 :> 1 @@ 1 :> 2, 0 :> 2 @@ 1 :> 3 >>[s + 1]]
MCExpected == [s \in Sample |-> <<1, 2>>[s + 1]]
MCLabels   == [s \in Sample |-> <<1, 3>>[s + 1]]

===============================================================================
