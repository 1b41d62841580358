------------------------------ MODULE VehicleSoC ------------------------------
(***************************************************************************)
(* The system on chip of femtosoc.v in its configuration with the random   *)
(* forest, the debug registers and the LEDs, running the Vehicle accuracy  *)
(* test.  One step is one positive edge of clk, at which the reset counter,*)
(* the processor, the peripheral, the debug registers and the LEDs all     *)
(* move.  The actions are the cases of the processor's state machine.      *)
(*                                                                         *)
(* Between two device accesses the compiled program executes instructions  *)
(* that touch no device, any number of them and of any duration.           *)
(***************************************************************************)
EXTENDS VehicleFirmware, Quark

vars == <<engineVars, peripheralVars, debugVars, led_state, firmwareVars,
          quarkVars, resetVars>>

\* The bus cycle of the instruction in EXECUTE.
bus == IF custom_valid \/ io_wstrb THEN instr.bus ELSE Nothing

-------------------------------------------------------------------------------
(* Instructions. *)

\* The access that the program makes next.
ProgramInstr ==
    IF CurrentAccess.kind = "custom"
    THEN [op |-> "CUSTOM0", bus |-> CurrentAccess]
    ELSE [op |-> "STORE", io |-> TRUE, bus |-> CurrentAccess]

\* Everything in between.
OtherInstrs ==
    {[op |-> "ALU"], [op |-> "LOAD"]}
        \cup { [op |-> "SHIFT", shamt |-> n] : n \in 0 .. SHAMT_MAX }

-------------------------------------------------------------------------------
(* Everything but the processor, at one clock edge. *)

Devices ==
    /\ ResetCounter
    /\ Pins
    /\ PeripheralClk(reset, bus)
    /\ DebugClk(reset, bus)
    /\ LedsClk(bus)

-------------------------------------------------------------------------------
(* The processor's cases.  io_rbusy and io_wbusy are 0: neither the LEDs   *)
(* nor the forest wait.                                                    *)

CpuReset ==
    /\ ~cpuReset
    /\ HoldReset
    /\ Restart
    /\ Devices

Fetch ==
    /\ cpuReset
    /\ FetchInstr
    /\ UNCHANGED firmwareVars
    /\ Devices

LatchOther ==
    /\ cpuReset
    /\ \E i \in OtherInstrs : WaitInstr(FALSE, i)
    /\ UNCHANGED firmwareVars
    /\ Devices

LatchAccess ==
    /\ cpuReset
    /\ WaitInstr(FALSE, ProgramInstr)
    /\ UNCHANGED firmwareVars
    /\ Devices

Wait ==
    /\ cpuReset
    /\ WaitAluOrMem(FALSE, FALSE)
    /\ UNCHANGED firmwareVars
    /\ Devices

ExecuteOther ==
    /\ cpuReset
    /\ Execute
    /\ bus = Nothing
    /\ UNCHANGED firmwareVars
    /\ Devices

\* An access and the program's step up to the next one.
ExecuteAccess(step) ==
    /\ cpuReset
    /\ Execute
    /\ bus # Nothing
    /\ step
    /\ Devices

ExecTreeWrite    == ExecuteAccess(TreeWrite)
ExecFeatureWrite == ExecuteAccess(FeatureWrite)
ExecStart        == ExecuteAccess(Start)
ExecPoll         == ExecuteAccess(Poll(custom_rdata(1)))
ExecFetchResult  == ExecuteAccess(FetchResult(custom_rdata(0)))
ExecDebugSelect  == ExecuteAccess(DebugSelect)
ExecDebugData    == ExecuteAccess(DebugData)
ExecShowClass    == ExecuteAccess(ShowClass)
ExecSummary      == ExecuteAccess(Summary)

Next ==
    \/ CpuReset
    \/ Fetch
    \/ LatchOther
    \/ LatchAccess
    \/ Wait
    \/ ExecuteOther
    \/ ExecTreeWrite
    \/ ExecFeatureWrite
    \/ ExecStart
    \/ ExecPoll
    \/ ExecFetchResult
    \/ ExecDebugSelect
    \/ ExecDebugData
    \/ ExecShowClass
    \/ ExecSummary

Init ==
    /\ PeripheralInit
    /\ DebugInit
    /\ FirmwareInit
    /\ QuarkInit
    /\ ResetInit

\* The clock runs, and the code between two accesses is straight-line code
\* and finite loops: an access that may be the next instruction again and
\* again is fetched in the end.
Fairness ==
    /\ WF_vars(Next)
    /\ SF_vars(LatchAccess)

Spec == Init /\ [][Next]_vars /\ Fairness

-------------------------------------------------------------------------------
\* The classes the forest gives to sample s.
Right(s) == Classify(FOREST, SAMPLES[s])

\* Every register and every variable of the firmware holds a value its width
\* and its use allow.
TypeOK ==
    /\ PeripheralTypeOK
    /\ DebugTypeOK
    /\ FirmwareTypeOK
    /\ state \in States
    /\ aluShamt \in 0 .. SHAMT_MAX
    /\ reset_cnt \in 0 .. RESET_CNT_MAX
    /\ RESET \in BOOLEAN
    /\ uart_brk \in BOOLEAN

-------------------------------------------------------------------------------
(* Safety. *)

\* An inference begins only with the whole forest and all the features of one
\* sample in the engine's memories, of the current sample if the firmware
\* waits for it, although they are filled by as many separate instructions
\* and a reset may fall between any two of them.
StartsOnLoadedInputs ==
    rf_start_pulse =>
        /\ tree_memory = FOREST
        /\ \E s \in Sample : features = SAMPLES[s]
        /\ pc = "status" => features = SAMPLES[sample_index]

\* The start pulse reaches the engine when it can take it; a pulse that comes
\* while an inference runs would be dropped without a trace.
StartIsNeverDropped ==
    rf_start_pulse => Accept(rf_start_pulse)

\* start reaches the engine one clock late and ready falls one clock after
\* that: a poll that came earlier would see the ready of the inference before
\* and fetch its result.
PollSeesNoStaleReady ==
    custom_valid /\ cpuReset /\ pc = "status" /\ ready = 1 =>
        /\ rf_state = "IDLE"
        /\ ~rf_start_pulse
        /\ result \in Right(sample_index)

\* The prediction that the firmware works with is one of the forest's for the
\* sample it is about.
PredictionIsRight ==
    pc \in {"dbg_addr", "dbg_data", "show_class"} =>
        prediction \in Right(sample_index)

\* When dbg_pulse makes the analyser sample the registers, all of them belong
\* to one sample, also when a reset cuts a report short.
ReportIsOfOneSample ==
    dbg_pulse =>
        /\ dbg_sample \in Sample
        /\ dbg_expected = EXPECTED[dbg_sample]
        /\ \E class \in Right(dbg_sample) : dbg_pred = class % 4
        /\ dbg_correct <= dbg_sample + 1
        /\ dbg_pred = dbg_expected => dbg_correct >= 1

\* No write to the engine's memories changes what an inference that the
\* firmware waits for works on.
InputsHeldWhileRunning ==
    [][(rf_state \in {"PREDICT", "AGGREGATE"} /\ pc = "status") =>
           UNCHANGED <<tree_memory, features>>]_vars

-------------------------------------------------------------------------------
(* The reports, as VehicleReport describes them. *)

Reported == pc \in {"show_class", "summary"}
Counted  == pc \in {"dbg_addr", "dbg_data"}

\* Of a pass that is over nothing counts any more.
LastOfPass == sample_index + 1 \notin Sample

R == INSTANCE VehicleReport WITH
        LastSample  <- TEST_COUNT - 1,
        Expected    <- EXPECTED,
        Predictions <- [s \in Sample |-> { c % 4 : c \in Right(s) }],
        sample      <- IF ~Reported THEN sample_index
                       ELSE IF LastOfPass THEN 0 ELSE sample_index + 1,
        matches     <- IF Reported /\ LastOfPass THEN 0
                       ELSE IF Counted
                       THEN reference_matches - Match(prediction, EXPECTED)
                       ELSE reference_matches,
        report      <- IF dbg_pulse
                       THEN [shown |-> TRUE, sample |-> dbg_sample,
                             expected |-> dbg_expected, pred |-> dbg_pred,
                             correct |-> dbg_correct]
                       ELSE [shown |-> FALSE]

\* The reports are those of VehicleReport: every sample in order, no report
\* lost, doubled or mixed from two samples, the right running count.
ReportsInOrder == R!Spec

-------------------------------------------------------------------------------
(* Liveness. *)

\* Once the resets are over, every sample is reported again and again: no
\* inference stays open and no poll goes on for ever.
EverySampleReported ==
    <>[](~RESET /\ ~uart_brk) =>
        \A s \in Sample : []<>(dbg_pulse /\ dbg_sample = s)

-------------------------------------------------------------------------------
(* The inductive invariant.                                                *)

\* The instruction in EXECUTE is the program's next access or touches nothing.
InstrInv == state = "EXECUTE" => instr \in OtherInstrs \cup {ProgramInstr}

\* Positions in the sequences of stores.
AccessInv ==
    /\ pc \in {"dbg_addr", "dbg_data"} => access <= 5
    /\ pc = "show_class" => access <= 2

\* What is written so far.
LoadInv ==
    /\ IF pc = "tree_write"
       THEN \A a \in 0 .. address - 1 : tree_memory[a] = FOREST[a]
       ELSE tree_memory = FOREST
    /\ pc = "tree_write" => feature_index = 0
    /\ pc = "feature_write" =>
          \A i \in 0 .. feature_index - 1 : features[i] = SAMPLES[sample_index][i]
    /\ pc \in {"start", "status"} => features = SAMPLES[sample_index]
    /\ rf_start_pulse => /\ tree_memory = FOREST
                         /\ \E s \in Sample : features = SAMPLES[s]

\* The first clock cycle of all: the engine's registers hold anything.
PowerUp == ~reset /\ ~rf_start_pulse /\ pc = "tree_write"

Resting == rf_state = "IDLE" /\ ~rf_start_pulse

\* How far the processor may be while the engine is on its way.  It is waited
\* for, or was started by a program that has been restarted since.
Phase ==
    /\ ready = 1 <=> rf_state = "IDLE"
    /\ rf_start_pulse => rf_state = "IDLE"
    /\ \/ Resting
       \/ /\ pc = "status"
          /\ rf_start_pulse => state = "FETCH_INSTR"
          /\ rf_state = "PREDICT" => state = "WAIT_INSTR"
       \/ /\ pc = "tree_write"
          /\ rf_start_pulse => state = "WAIT_ALU_OR_MEM"
          /\ rf_state = "PREDICT" => state \in {"WAIT_ALU_OR_MEM", "FETCH_INSTR"}
          /\ rf_state = "AGGREGATE" => state # "EXECUTE"

\* Where the right answer is.
AnswerInv ==
    /\ pc = "status" /\ rf_state = "AGGREGATE" =>
          aggregate_predictions(tree_predictions) \in Right(sample_index)
    /\ pc = "status" /\ (rf_state = "DONE" \/ Resting) =>
          result \in Right(sample_index)
    /\ pc = "result" => result \in Right(sample_index)
    /\ PredictionIsRight

SystemInv ==
    /\ TypeOK
    /\ InstrInv
    /\ AccessInv
    /\ LoadInv
    /\ PowerUp \/ Phase
    /\ AnswerInv

\* How much of a report the registers hold, and what the counts may be.
ReportInv ==
    /\ pc = "dbg_data" => dbg_reg_sel = DebugSequence[access].reg
    /\ Counted =>
          /\ access > 1 => dbg_sample = sample_index
          /\ access > 2 => dbg_expected = EXPECTED[sample_index]
          /\ access > 3 => dbg_pred = prediction % 4
          /\ access > 4 => dbg_correct = reference_matches
          /\ reference_matches >= Match(prediction, EXPECTED)
    /\ reference_matches <= sample_index + (IF Counted \/ Reported THEN 1 ELSE 0)
    /\ pc = "summary" => LastOfPass
    /\ ReportIsOfOneSample

===============================================================================
