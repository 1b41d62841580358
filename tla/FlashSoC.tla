------------------------------- MODULE FlashSoC -------------------------------
(***************************************************************************)
(* A program that runs from the SPI flash and the RAM, on the quark, with  *)
(* resets and breaks at any clock, in the middle of a read of the flash    *)
(* included: the memory bus of femtosoc.v, what the processor fetches,     *)
(* loads and stores over it, and the driver of the flash, of which it sees *)
(* the wires rbusy and rdata.                                              *)
(*                                                                         *)
(* The program is any program: what a word decodes to, where a jump leads  *)
(* and which address a load or store computes is left open.                *)
(***************************************************************************)
EXTENDS Quark, MappedSPIFlash

CONSTANTS RESET_ADDR,       \* where the program starts
          CodeAddress,      \* where it may jump
          DataAddress,      \* what it loads and stores
          RamWord,          \* words of the RAM
          RamValue          \* values of a word

ASSUME MemoryAssumption ==
    /\ RESET_ADDR \in CodeAddress
    /\ CodeAddress \cup DataAddress
           \subseteq [page : {"ram"}, word : RamWord] \cup [page : {"flash"}, word : FlashWord]

VARIABLES PC, loadstore_addr, rs2, RAM, ram_rdata,
          loading,          \* TRUE while a load of the running program waits
          asked             \* the word address of the last strobe of the flash, -1
                            \* before the processor has run: it may power up strobing

busVars == <<quarkVars, resetVars, PC, loadstore_addr, rs2, RAM, ram_rdata, loading, asked>>

mem_address ==
    IF state \in {"WAIT_INSTR", "FETCH_INSTR"} THEN PC ELSE loadstore_addr

mem_rstrb == (Executing /\ isLoad) \/ state = "FETCH_INSTR"
mem_wstrb == Executing /\ isStore

is(page) == mem_address.page = page

\* The processor waits after a store to any page but the RAM's
\* (NRV_IS_IO_ADDR).
Instrs == {[op |-> "ALU"], [op |-> "LOAD"]} \cup [op : {"STORE"}, io : BOOLEAN]

\* What decoding the word just fetched may lead to.
Latch(mem_rbusy) ==
    \E i \in Instrs :
        /\ WaitInstr(mem_rbusy, i)
        /\ IF mem_rbusy
           THEN UNCHANGED <<loadstore_addr, rs2>>
           ELSE /\ loadstore_addr' \in DataAddress
                /\ rs2' \in RamValue
                /\ i.op = "STORE" => (i.io <=> loadstore_addr'.page # "ram")

\* Mutant: a reset starts with the first fetch.
ProcessorClkFetchesInReset(mem_rbusy, mem_wbusy) ==
    IF ~cpuReset
    THEN /\ state' = "FETCH_INSTR"
         /\ Shifter
         /\ PC' = RESET_ADDR
         /\ UNCHANGED <<instr, loadstore_addr, rs2>>
    ELSE \/ FetchInstr /\ UNCHANGED <<PC, loadstore_addr, rs2>>
         \/ Latch(mem_rbusy) /\ UNCHANGED PC
         \/ Execute /\ PC' \in CodeAddress /\ UNCHANGED <<loadstore_addr, rs2>>
         \/ WaitAluOrMem(mem_rbusy, mem_wbusy) /\ UNCHANGED <<PC, loadstore_addr, rs2>>

ProcessorClk(mem_rbusy, mem_wbusy) ==
    IF ~cpuReset
    THEN /\ HoldReset
         /\ PC' = RESET_ADDR
         /\ UNCHANGED <<loadstore_addr, rs2>>
    ELSE \/ FetchInstr /\ UNCHANGED <<PC, loadstore_addr, rs2>>
         \/ Latch(mem_rbusy) /\ UNCHANGED PC
         \/ Execute /\ PC' \in CodeAddress /\ UNCHANGED <<loadstore_addr, rs2>>
         \/ WaitAluOrMem(mem_rbusy, mem_wbusy) /\ UNCHANGED <<PC, loadstore_addr, rs2>>

\* The RAM reads what it held before the edge.  An address of another page
\* selects some word of it.
RamClk ==
    /\ RAM' = IF mem_wstrb /\ is("ram") THEN [RAM EXCEPT ![mem_address.word] = rs2] ELSE RAM
    /\ ram_rdata' \in IF is("ram") THEN {RAM[mem_address.word]} ELSE { RAM[w] : w \in RamWord }

Loading ==
    loading' = /\ cpuReset
               /\ isLoad
               /\ Executing \/ loading
               /\ state' = "WAIT_ALU_OR_MEM"

\* The processor takes the word on the bus at the next edge: an instruction,
\* or what it has loaded.  After a reset it waits in the same state as a load
\* does, for nothing.
TakesWord == cpuReset /\ (state = "WAIT_INSTR" \/ (loading /\ ~aluBusy))

flash_rstrb == mem_rstrb /\ is("flash")

BusClk ==
    /\ ProcessorClk(rbusy, FALSE)
    /\ RamClk
    /\ Loading
    /\ ResetCounter
    /\ Pins
    /\ asked' = IF flash_rstrb /\ (cpuReset \/ asked # -1) THEN mem_address.word ELSE asked

BusInit ==
    /\ QuarkInit
    /\ ResetInit
    /\ PC \in CodeAddress
    /\ loadstore_addr \in DataAddress
    /\ rs2 \in RamValue
    /\ RAM \in [RamWord -> RamValue]
    /\ ram_rdata \in RamValue
    /\ loading = FALSE
    /\ asked = -1

-------------------------------------------------------------------------------
(* The system.                                                             *)

\* The counters have run out before the processor leaves its first reset.
ASSUME DrainAssumption == RESET_CNT_MAX > SND + 2 * COUNT_MAX

vars == <<busVars, flashVars>>

Next ==
    /\ BusClk
    /\ FlashClk(flash_rstrb, mem_address.word)

Init ==
    /\ BusInit
    /\ FlashInit

Spec == Init /\ [][Next]_vars /\ WF_vars(Next)

-------------------------------------------------------------------------------
\* Whatever the processor takes from the bus, an instruction or data, is the
\* word at the address it drives, from the RAM or the flash, and in spite of
\* the resets that may have cut a read short.
TakesTheRightWord ==
    TakesWord /\ ~rbusy =>
        IF is("ram") THEN ram_rdata = RAM[mem_address.word]
        ELSE rdata = FlashWords[mem_address.word]

\* The driver keeps the promise of a slow memory, and the processor its own:
\* the flash is not strobed again before it has answered.
ImplementsPort ==
    INSTANCE MemoryPort WITH
        Addresses <- FlashWord, Words <- FlashWords,
        busy <- rbusy /\ asked # -1, asked <- asked,
        word <- IF asked = -1 THEN <<>> ELSE rdata

ReadsThroughPort == ImplementsPort!Spec

\* Once the resets and breaks are over the program goes on for ever: no read
\* of the flash, cut short or not, leaves the processor waiting.
ProgramRuns == <>[](~RESET /\ ~uart_brk) => []<>(cpuReset /\ Executing)

-------------------------------------------------------------------------------
(* The inductive invariant.                                                *)

\* How many bits the order of a read has, and the bit that goes to the chip as
\* number i of it; ones follow the order.
ORDER == Len(Command) + ADDRESS_BITS

OrderBit(a, i) == IF i <= ORDER THEN (Command \o ByteAddress(a))[i] ELSE 1

\* The chip has taken n bits of the order to read word a.
Taken(a, n) ==
    /\ Len(got) = n
    /\ \A i \in 1 .. n : got[i] = OrderBit(a, i)

\* The register ends with the first n bits of word a.
Received(a, n) == \A i \in 1 .. n : rcv_data[RCV - n + i] = BitFrom(BYTES * a, i - 1)

Sending(a) ==
    /\ sending /\ ~receiving
    /\ snd_bitcount <= SND
    /\ \A i \in 1 .. ORDER : cmd_addr[i] = OrderBit(a, i + (SND - snd_bitcount))
    /\ Taken(a, SND - snd_bitcount)
    /\ out = 0

Receiving(a) ==
    /\ ~sending
    /\ rcv_bitcount <= RCV
    /\ Taken(a, SND)
    /\ receiving => out = RCV - rcv_bitcount + 1
    /\ Received(a, RCV - rcv_bitcount)

\* A read of word a is under way.
Reading(a) == rbusy /\ (Sending(a) \/ Receiving(a))

Quiet == ~rbusy /\ ~flash_busy

\* Once the counters are drained the driver rests on the word it was last asked
\* for, or reads it.  What the processor asked for as it was reset for the first
\* time is read as well, but counts for nothing.
DriverInv ==
    \/ Quiet /\ (asked # -1 => Received(asked, RCV))
    \/ \E a \in FlashWord : Reading(a) /\ asked \in {a, -1}

\* The processor waits while the driver reads, and for the word it needs.
BusInv ==
    /\ rbusy => state \in {"WAIT_INSTR", "WAIT_ALU_OR_MEM"}
    /\ loading => state = "WAIT_ALU_OR_MEM"
    /\ state = "WAIT_INSTR" \/ loading =>
          IF is("ram") THEN ram_rdata = RAM[mem_address.word] ELSE asked = mem_address.word

\* The clocks until the driver rests, whatever the counters hold, unless it is
\* strobed again.
ClocksLeft ==
    (IF sending THEN snd_bitcount + COUNT_MAX ELSE rcv_bitcount) + (IF rbusy THEN 1 ELSE 0)

\* The first clock, at which the processor may do anything, and the reset that
\* is long enough for the driver to come to rest.
PowerUp ==
    /\ reset_cnt = 0
    /\ ~loading
    /\ asked = -1
    /\ ~rbusy

Draining ==
    /\ state = "WAIT_ALU_OR_MEM"
    /\ ~loading
    /\ asked = -1
    /\ reset_cnt + ClocksLeft <= RESET_CNT_MAX

\* The widths of the registers.
FlashTypeOK ==
    /\ state \in States
    /\ reset_cnt \in 0 .. RESET_CNT_MAX
    /\ PC \in CodeAddress
    /\ loadstore_addr \in DataAddress
    /\ asked \in FlashWord \cup {-1}
    /\ snd_bitcount \in 0 .. COUNT_MAX
    /\ rcv_bitcount \in 0 .. COUNT_MAX
    /\ cmd_addr \in Seq({0, 1}) /\ Len(cmd_addr) = ORDER
    /\ rcv_data = [i \in 1 .. RCV |-> rcv_data[i]]
    /\ got \in Seq({0, 1})
    /\ out \in Nat

FlashInv ==
    /\ FlashTypeOK
    /\ PowerUp \/ Draining \/ (BusInv /\ DriverInv)

===============================================================================
