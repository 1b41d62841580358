---------------------------- MODULE VehicleFirmware ----------------------------
(***************************************************************************)
(* vehicle_rf_accuracy_test.c: loads the forest once, then for ever takes  *)
(* the test samples in turn: writes the features, starts an inference,     *)
(* polls, fetches the result, counts the matches, reports the sample in    *)
(* the debug registers and shows the class on the LEDs.                    *)
(*                                                                         *)
(* The program is seen through the instructions by which it touches a      *)
(* device.  pc names the next of them; the C code up to the one after it   *)
(* (loop counters, comparisons, the copy of a0) belongs to the step that   *)
(* executes it.  The cycle counter is not modelled: the difference of two  *)
(* of its readings is some value of CycleValues.                           *)
(***************************************************************************)
EXTENDS RfPeripheral

CONSTANTS FOREST,           \* vehicle_forest_nodes
          TEST_COUNT,       \* VEHICLE_TEST_COUNT
          SAMPLES,          \* vehicle_test_features_x2
          EXPECTED,         \* vehicle_expected_predictions
          LABELS,           \* vehicle_true_labels
          CycleValues       \* what after - before may be

Sample == 0 .. TEST_COUNT - 1

ASSUME FirmwareAssumption ==
    /\ FOREST \in Forest
    /\ TEST_COUNT \in Nat \ {0}
    /\ SAMPLES \in [Sample -> FeatureBank]
    /\ EXPECTED \in [Sample -> 0 .. 3]
    /\ LABELS \in [Sample -> 0 .. 3]
    /\ CycleValues \subseteq Nat

VARIABLES pc,               \* next device access of the program
          address,          \* of rf_load_vehicle_forest
          feature_index,    \* of rf_classify_vehicle
          sample_index, prediction, reference_matches, label_matches,
          last_cycles,      \* of main
          access            \* position in a fixed sequence of stores

firmwareVars == <<pc, address, feature_index, sample_index, prediction,
                  reference_matches, label_matches, last_cycles, access>>

Accesses == {"tree_write", "feature_write", "start", "status", "result",
             "dbg_addr", "dbg_data", "show_class", "summary"}

-------------------------------------------------------------------------------
(* The sequences of stores. *)

\* Mutant: the count of matches is written after the pulse.
DebugSequenceCyclesFirst ==
    << [reg |-> 0, value |-> sample_index],
       [reg |-> 1, value |-> EXPECTED[sample_index]],
       [reg |-> 2, value |-> prediction % 4],
       [reg |-> 3, value |-> last_cycles],
       [reg |-> 4, value |-> reference_matches] >>

\* debug_write_inference: the register whose write raises dbg_pulse is last.
DebugSequence == << [reg |-> 0, value |-> sample_index],
                    [reg |-> 1, value |-> EXPECTED[sample_index]],
                    [reg |-> 2, value |-> prediction % 4],
                    [reg |-> 4, value |-> reference_matches],
                    [reg |-> 3, value |-> last_cycles] >>

\* show_led_value(1 << class): the value, then 0.
ClassSequence == << <<1, 2, 4, 8>>[1 + (prediction % 4)], 0 >>

\* The end of a pass: two blinks, then the three counters.
SummarySequence == << 15, 0, 15, 0, reference_matches % 16, 0,
                      label_matches % 16, 0, last_cycles % 16, 0 >>

\* The access that pc stands for, as the bus cycle its instruction makes.
CurrentAccess ==
    CASE pc = "tree_write"    -> Custom(7, address, FOREST[address])
      [] pc = "feature_write" ->
             Custom(3, feature_index, SAMPLES[sample_index][feature_index])
      [] pc = "start"         -> Custom(2, 0, 0)
      [] pc = "status"        -> Custom(1, 0, 0)
      [] pc = "result"        -> Custom(0, 0, 0)
      [] pc = "dbg_addr"      -> Store("DBG_ADDR", DebugSequence[access].reg)
      [] pc = "dbg_data"      -> Store("DBG_DATA", DebugSequence[access].value)
      [] pc = "show_class"    -> Store("LEDS", ClassSequence[access])
      [] pc = "summary"       -> Store("LEDS", SummarySequence[access])

-------------------------------------------------------------------------------
(* The steps of the program; rdata is what the instruction returns. *)

counters == <<reference_matches, label_matches, last_cycles>>

\* Mutant: the counters survive a reset.
RestartKeepsCounters ==
    /\ pc' = "tree_write"
    /\ address' = 0
    /\ feature_index' = 0
    /\ sample_index' = 0
    /\ prediction' = 0
    /\ access' = 1
    /\ UNCHANGED counters

\* main from its first line; no variable keeps its value through a reset.
Restart ==
    /\ pc' = "tree_write"
    /\ address' = 0
    /\ feature_index' = 0
    /\ sample_index' = 0
    /\ prediction' = 0
    /\ reference_matches' = 0
    /\ label_matches' = 0
    /\ last_cycles' = 0
    /\ access' = 1

\* Mutant: the loop condition is address <= VEHICLE_TOTAL_NODES.
TreeWriteOneMore ==
    /\ pc = "tree_write"
    /\ IF address \in Address
       THEN address' = address + 1 /\ UNCHANGED pc
       ELSE pc' = "feature_write" /\ UNCHANGED address
    /\ UNCHANGED <<feature_index, sample_index, prediction, counters, access>>

TreeWrite ==
    /\ pc = "tree_write"
    /\ IF address + 1 \in Address
       THEN address' = address + 1 /\ UNCHANGED pc
       ELSE pc' = "feature_write" /\ UNCHANGED address
    /\ UNCHANGED <<feature_index, sample_index, prediction, counters, access>>

\* Mutant: the last feature is not written.
FeatureWriteOneLess ==
    /\ pc = "feature_write"
    /\ IF feature_index + 2 \in Slot
       THEN feature_index' = feature_index + 1 /\ UNCHANGED pc
       ELSE pc' = "start" /\ UNCHANGED feature_index
    /\ UNCHANGED <<address, sample_index, prediction, counters, access>>

FeatureWrite ==
    /\ pc = "feature_write"
    /\ IF feature_index + 1 \in Slot
       THEN feature_index' = feature_index + 1 /\ UNCHANGED pc
       ELSE pc' = "start" /\ UNCHANGED feature_index
    /\ UNCHANGED <<address, sample_index, prediction, counters, access>>

\* Mutant: the result is fetched without a poll.
StartWithoutPoll ==
    /\ pc = "start"
    /\ pc' = "result"
    /\ UNCHANGED <<address, feature_index, sample_index, prediction, counters,
                   access>>

Start ==
    /\ pc = "start"
    /\ pc' = "status"
    /\ UNCHANGED <<address, feature_index, sample_index, prediction, counters,
                   access>>

Poll(rdata) ==
    /\ pc = "status"
    /\ pc' = IF rdata % 2 = 0 THEN "status" ELSE "result"
    /\ UNCHANGED <<address, feature_index, sample_index, prediction, counters,
                   access>>

\* Whether a prediction agrees with one of the two tables.
Match(class, table) == IF class % 4 = table[sample_index] THEN 1 ELSE 0

FetchResult(rdata) ==
    /\ pc = "result"
    /\ pc' = "dbg_addr"
    /\ access' = 1
    /\ prediction' = rdata
    /\ last_cycles' \in CycleValues
    /\ reference_matches' = reference_matches + Match(rdata, EXPECTED)
    /\ label_matches' = label_matches + Match(rdata, LABELS)
    /\ UNCHANGED <<address, feature_index, sample_index>>

DebugSelect ==
    /\ pc = "dbg_addr"
    /\ pc' = "dbg_data"
    /\ UNCHANGED <<address, feature_index, sample_index, prediction, counters,
                   access>>

DebugData ==
    /\ pc = "dbg_data"
    /\ IF access < 5
       THEN pc' = "dbg_addr" /\ access' = access + 1
       ELSE pc' = "show_class" /\ access' = 1
    /\ UNCHANGED <<address, feature_index, sample_index, prediction, counters>>

\* After the second store the loop takes the next sample or ends the pass.
ShowClass ==
    /\ pc = "show_class"
    /\ \/ /\ access = 1
          /\ access' = 2
          /\ UNCHANGED <<pc, feature_index, sample_index>>
       \/ /\ access = 2
          /\ sample_index + 1 \in Sample
          /\ sample_index' = sample_index + 1
          /\ feature_index' = 0
          /\ pc' = "feature_write"
          /\ access' = 1
       \/ /\ access = 2
          /\ sample_index + 1 \notin Sample
          /\ pc' = "summary"
          /\ access' = 1
          /\ UNCHANGED <<feature_index, sample_index>>
    /\ UNCHANGED <<address, prediction, counters>>

Summary ==
    /\ pc = "summary"
    /\ IF access < 10
       THEN /\ access' = access + 1
            /\ UNCHANGED <<pc, feature_index, sample_index, counters>>
       ELSE /\ access' = 1
            /\ pc' = "feature_write"
            /\ feature_index' = 0
            /\ sample_index' = 0
            /\ reference_matches' = 0
            /\ label_matches' = 0
            /\ last_cycles' = 0
    /\ UNCHANGED <<address, prediction>>

FirmwareInit ==
    /\ pc = "tree_write"
    /\ address = 0
    /\ feature_index = 0
    /\ sample_index = 0
    /\ prediction = 0
    /\ reference_matches = 0
    /\ label_matches = 0
    /\ last_cycles = 0
    /\ access = 1

FirmwareTypeOK ==
    /\ pc \in Accesses
    /\ address \in Address
    /\ feature_index \in Slot
    /\ sample_index \in Sample
    /\ prediction \in Results
    /\ reference_matches \in Nat
    /\ label_matches \in Nat
    /\ last_cycles \in Nat
    /\ access \in 1 .. 10

===============================================================================
