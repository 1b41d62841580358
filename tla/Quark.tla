--------------------------------- MODULE Quark ---------------------------------
(***************************************************************************)
(* The control of the processor FemtoRV32 quark: the four-state machine,   *)
(* the strobes it drives and the serial shifter it waits for.  One step is *)
(* one positive clock edge; reset is active low.                           *)
(*                                                                         *)
(* An instruction is a record whose op says which of the decoder's wires   *)
(* it raises.  What it computes is left to the modules that run programs.  *)
(*   ALU                    any instruction that never waits               *)
(*   LOAD                                                                  *)
(*   SHIFT with shamt       an ALU instruction of the serial shifter       *)
(*   STORE with io, bus     a store, io when the address is an IO address  *)
(*   CUSTOM0 with bus       a custom-0 instruction                         *)
(***************************************************************************)
EXTENDS Integers

CONSTANT SHAMT_MAX          \* largest shift amount (31)

ASSUME ShamtAssumption == SHAMT_MAX \in Nat

VARIABLES state,            \* of the machine, one-hot in the source
          instr,            \* the latched instruction
          aluShamt          \* shifts still to do

quarkVars == <<state, instr, aluShamt>>

States == {"FETCH_INSTR", "WAIT_INSTR", "EXECUTE", "WAIT_ALU_OR_MEM"}

\* All bits zero: the code of a load, and what instr powers up with.
ZeroWord == [op |-> "LOAD"]

isLoad    == instr.op = "LOAD"
isStore   == instr.op = "STORE"
isShift   == instr.op = "SHIFT"
isCUSTOM0 == instr.op = "CUSTOM0"

needToWait == isLoad \/ (isStore /\ instr.io) \/ isShift

\* The strobes.
Executing    == state = "EXECUTE"
custom_valid == Executing /\ isCUSTOM0
io_wstrb     == Executing /\ isStore /\ instr.io
aluBusy      == aluShamt # 0

\* Starts in EXECUTE, then counts down; runs on through a reset.  A shift in
\* progress wins over one that starts.
Shifter ==
    aluShamt' = IF aluBusy THEN aluShamt - 1
                ELSE IF Executing /\ isShift THEN instr.shamt
                ELSE 0

-------------------------------------------------------------------------------
(* The transitions. *)

\* "Just waiting for !mem_wbusy".
HoldReset ==
    /\ state' = "WAIT_ALU_OR_MEM"
    /\ Shifter
    /\ UNCHANGED instr

FetchInstr ==
    /\ state = "FETCH_INSTR"
    /\ state' = "WAIT_INSTR"
    /\ Shifter
    /\ UNCHANGED instr

\* Latches the word i that the memory returns, once it is no longer busy.
WaitInstr(mem_rbusy, i) ==
    /\ state = "WAIT_INSTR"
    /\ IF mem_rbusy
       THEN UNCHANGED <<state, instr>>
       ELSE state' = "EXECUTE" /\ instr' = i
    /\ Shifter

Execute ==
    /\ state = "EXECUTE"
    /\ state' = IF needToWait THEN "WAIT_ALU_OR_MEM" ELSE "FETCH_INSTR"
    /\ Shifter
    /\ UNCHANGED instr

WaitAluOrMem(mem_rbusy, mem_wbusy) ==
    /\ state = "WAIT_ALU_OR_MEM"
    /\ state' = IF aluBusy \/ mem_rbusy \/ mem_wbusy
                THEN "WAIT_ALU_OR_MEM" ELSE "FETCH_INSTR"
    /\ Shifter
    /\ UNCHANGED instr

QuarkInit ==
    /\ state \in States
    /\ instr = ZeroWord
    /\ aluShamt \in 0 .. SHAMT_MAX

-------------------------------------------------------------------------------
(* The resets of femtosoc.v.  The reset pin, or a PLL that is not locked,  *)
(* clears a counter, and the devices and the processor are held in reset   *)
(* until it is full.  A break of the UART resets the processor alone.      *)
CONSTANTS RESET_CNT_MAX,    \* all ones of reset_cnt (2^21 - 1)
          UART              \* TRUE when NRV_IO_UART is configured

ASSUME SoCAssumption ==
    /\ RESET_CNT_MAX \in Nat \ {0}
    /\ UART \in BOOLEAN

VARIABLES reset_cnt,
          RESET,            \* the reset pin, or the PLL not locked
          uart_brk          \* break from the UART: resets the processor only

resetVars == <<reset_cnt, RESET, uart_brk>>

reset    == reset_cnt = RESET_CNT_MAX
cpuReset == reset /\ ~uart_brk

ResetCounter ==
    reset_cnt' = IF RESET THEN 0
                 ELSE IF ~reset THEN reset_cnt + 1
                 ELSE reset_cnt

Pins ==
    /\ RESET' \in BOOLEAN
    /\ uart_brk' \in (IF UART THEN BOOLEAN ELSE {FALSE})

ResetInit ==
    /\ reset_cnt = 0
    /\ RESET \in BOOLEAN
    /\ uart_brk = FALSE

===============================================================================
