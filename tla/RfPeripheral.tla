----------------------------- MODULE RfPeripheral -----------------------------
(***************************************************************************)
(* The devices of femtosoc.v that the vehicle firmware uses: the random    *)
(* forest block (the two ways the processor reaches the engine, custom-0   *)
(* instructions and two memory-mapped registers, the register that delays  *)
(* start by one clock, and the engine itself), the five registers that an  *)
(* on-chip logic analyser probes, written through a selector and a data    *)
(* port, and the LEDs. The analyser takes a sample at dbg_pulse, which     *)
(* follows a write of DBG_REG_CYCLES.  reset is active low here and active *)
(* high at the engine.                                                     *)
(***************************************************************************)
EXTENDS RandomForest

\* The addresses on the bus have 5 and 8 bits.
ASSUME WidthAssumption ==
    /\ FEATURE_COUNT <= 32
    /\ TREE_COUNT * NODES_PER_TREE <= 256

-------------------------------------------------------------------------------
(* What the processor drives towards the devices in one clock cycle:       *)
(*   Nothing            neither a custom instruction nor a store           *)
(*   Custom(f, a, b)    custom_valid with funct3, rs1 and rs2              *)
(*   Store(s, d)        io_wstrb at the device register s with io_wdata d  *)
(* The IO page is decoded 1-hot, so a register is a name.  A data word is  *)
(* a number or, for the tree memory, a node word.                          *)
Nothing         == [kind |-> "none"]
Custom(f, a, b) == [kind |-> "custom", funct3 |-> f, rs1 |-> a, rs2 |-> b]
Store(s, d)     == [kind |-> "store", sel |-> s, data |-> d]

CustomIs(bus, f) == bus.kind = "custom" /\ bus.funct3 = f
StoresTo(bus, s) == bus.kind = "store" /\ bus.sel = s

-------------------------------------------------------------------------------
(* The random forest block.                                                *)
RF_REG_FADDR  == 2
RF_REG_FDATA  == 3
RF_REG_TADDR  == 6
RF_REG_TMEM   == 7
RF_REG_START  == 8

VARIABLES rf_reg_sel,       \* register the data port is aimed at
          rf_feature_addr,
          rf_tree_addr,
          rf_start_pulse    \* start, one clock after it was asked for

peripheralVars ==
    <<rf_reg_sel, rf_feature_addr, rf_tree_addr, rf_start_pulse>>

-------------------------------------------------------------------------------
(* Decoding of the current bus cycle. *)

custom_rf_start(bus)   == CustomIs(bus, 2)
custom_rf_feature(bus) == CustomIs(bus, 3)
custom_rf_tmem(bus)    == CustomIs(bus, 7)

\* The value a custom instruction writes to rd: ready or the result.
custom_rdata(funct3) == IF funct3 = 1 THEN ready ELSE result

DataStore(bus, reg) == StoresTo(bus, "RF_DATA") /\ rf_reg_sel = reg

FeaturePort(bus) ==
    IF custom_rf_feature(bus) THEN WriteTo(bus.rs1 % 32, bus.rs2)
    ELSE IF DataStore(bus, RF_REG_FDATA) THEN WriteTo(rf_feature_addr, bus.data)
    ELSE NoWrite

TreePort(bus) ==
    IF custom_rf_tmem(bus) THEN WriteTo(bus.rs1 % 256, bus.rs2)
    ELSE IF DataStore(bus, RF_REG_TMEM) THEN WriteTo(rf_tree_addr, bus.data)
    ELSE NoWrite

-------------------------------------------------------------------------------
\* The registers of the block.
RegistersClk(reset, bus) ==
    /\ rf_start_pulse' = (reset /\ (\/ custom_rf_start(bus)
                                    \/ DataStore(bus, RF_REG_START)))
    /\ rf_reg_sel' = IF ~reset THEN 0
                     ELSE IF StoresTo(bus, "RF_ADDR") THEN bus.data % 16
                     ELSE rf_reg_sel
    /\ rf_feature_addr' = IF ~reset THEN 0
                          ELSE IF DataStore(bus, RF_REG_FADDR) THEN bus.data % 32
                          ELSE rf_feature_addr
    /\ rf_tree_addr' = IF ~reset THEN 0
                       ELSE IF DataStore(bus, RF_REG_TADDR) THEN bus.data % 256
                       ELSE rf_tree_addr

\* One clock edge of the block.
PeripheralClk(reset, bus) ==
    /\ RegistersClk(reset, bus)
    /\ EngineClk(~reset, rf_start_pulse, FeaturePort(bus), TreePort(bus))

PeripheralInit ==
    /\ EngineInit
    /\ rf_reg_sel = 0
    /\ rf_feature_addr = 0
    /\ rf_tree_addr = 0
    /\ rf_start_pulse = FALSE

PeripheralTypeOK ==
    /\ EngineTypeOK
    /\ rf_reg_sel \in 0 .. 15
    /\ rf_feature_addr \in 0 .. 31
    /\ rf_tree_addr \in 0 .. 255
    /\ rf_start_pulse \in BOOLEAN

-------------------------------------------------------------------------------
(* The debug registers and the LEDs.                                       *)
DBG_REG_SAMPLE   == 0
DBG_REG_EXPECTED == 1
DBG_REG_PRED     == 2
DBG_REG_CYCLES   == 3
DBG_REG_CORRECT  == 4

VARIABLES dbg_reg_sel, dbg_sample, dbg_expected, dbg_pred, dbg_cycles,
          dbg_correct, dbg_pulse,
          led_state         \* of module LEDDriver

debugVars == <<dbg_reg_sel, dbg_sample, dbg_expected, dbg_pred, dbg_cycles,
               dbg_correct, dbg_pulse>>

\* The value of a register after the edge.
Loaded(reset, bus, reg, old) ==
    IF ~reset THEN 0
    ELSE IF StoresTo(bus, "DBG_DATA") /\ dbg_reg_sel = reg THEN bus.data
    ELSE old

\* One clock edge of the registers; reset is active low.
DebugClk(reset, bus) ==
    /\ dbg_reg_sel' = IF ~reset THEN 0
                      ELSE IF StoresTo(bus, "DBG_ADDR") THEN bus.data % 16
                      ELSE dbg_reg_sel
    /\ dbg_sample'   = Loaded(reset, bus, DBG_REG_SAMPLE, dbg_sample)
    /\ dbg_expected' = Loaded(reset, bus, DBG_REG_EXPECTED, dbg_expected)
    /\ dbg_pred'     = Loaded(reset, bus, DBG_REG_PRED, dbg_pred)
    /\ dbg_cycles'   = Loaded(reset, bus, DBG_REG_CYCLES, dbg_cycles)
    /\ dbg_correct'  = Loaded(reset, bus, DBG_REG_CORRECT, dbg_correct)
    /\ dbg_pulse'    = /\ reset
                       /\ StoresTo(bus, "DBG_DATA")
                       /\ dbg_reg_sel = DBG_REG_CYCLES

\* The LEDs keep their state through a reset.
LedsClk(bus) ==
    led_state' = IF StoresTo(bus, "LEDS") THEN bus.data % 16 ELSE led_state

DebugInit ==
    /\ dbg_reg_sel = 0
    /\ dbg_sample = 0
    /\ dbg_expected = 0
    /\ dbg_pred = 0
    /\ dbg_cycles = 0
    /\ dbg_correct = 0
    /\ dbg_pulse = FALSE
    /\ led_state = 0

DebugTypeOK ==
    /\ dbg_reg_sel \in 0 .. 15
    /\ dbg_sample \in Nat
    /\ dbg_expected \in Nat
    /\ dbg_pred \in Nat
    /\ dbg_cycles \in Nat
    /\ dbg_correct \in Nat
    /\ dbg_pulse \in BOOLEAN
    /\ led_state \in 0 .. 15

===============================================================================
