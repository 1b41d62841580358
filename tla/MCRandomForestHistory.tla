------------------------- MODULE MCRandomForestHistory -------------------------
(***************************************************************************)
(* Trees of one comparison each, one feature register and a feature field  *)
(* wide enough to name a register that does not exist.  Two trees for      *)
(* safety, one for liveness.                                               *)
(***************************************************************************)
EXTENDS RandomForestHistory

Word(f, t, c) == [feature_idx |-> f, threshold_x2 |-> t, class |-> c]

\* The word kinds the environment loads: a test of register 0, a test of a
\* missing register, and a leaf of a class above the four vote counters.
MCWords == { Word(0, 0, 1), Word(1, 0, 2), Word(0, 1, 7) }

\* All trees alike, every combination of the words in one tree.
MCPowerUpForests ==
    { [a \in Address |-> tree[a % 3]] : tree \in [0 .. 2 -> MCWords] }

MCPowerUpFeatures == { [s \in Slot |-> v] : v \in FeatureValue }

MCPowerUpPredictions == [Trees -> Class]

MCFeatureWrites == { NoWrite, WriteTo(0, 0), WriteTo(0, 1), WriteTo(1, 1) }

MCTreeWrites ==
    {NoWrite, WriteTo(6, Word(0, 0, 1)), WriteTo(5, Word(0, 1, 7)),
     WriteTo(0, Word(0, 0, 1)), WriteTo(0, Word(1, 0, 2))}

===============================================================================
