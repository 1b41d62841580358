------------------------------- MODULE DisplaySoC -------------------------------
(***************************************************************************)
(* A program on the quark that stores to the LED matrix, the OLED display  *)
(* and other devices, with resets and breaks at any clock.  The processor  *)
(* waits after every store to the IO page until no display is busy.        *)
(***************************************************************************)
EXTENDS Quark, MAX7219, SSD1351

displayVars == <<quarkVars, resetVars, ledmtxVars, oledVars>>

LedmtxStore == [sel : {"max7219"}, word : LedmtxWord]
OtherStore  == [sel |-> "other"]

Instrs ==
    {[op |-> "ALU"], [op |-> "LOAD"], [op |-> "STORE", io |-> FALSE]}
    \cup [op : {"STORE"}, io : {TRUE}, bus : LedmtxStore \cup OledStore \cup {OtherStore}]

io_wbusy == SSD1351_wbusy \/ max7219_wbusy

\* The store on the bus.
IoStore == IF io_wstrb THEN instr.bus ELSE OtherStore

ToLedmtx == IoStore \in LedmtxStore

\* Mutant: a reset starts with the first fetch.
ProcessorClkFetchesInReset ==
    IF ~cpuReset THEN state' = "FETCH_INSTR" /\ Shifter /\ UNCHANGED instr
    ELSE \/ FetchInstr
         \/ \E i \in Instrs : WaitInstr(FALSE, i)
         \/ Execute
         \/ WaitAluOrMem(FALSE, io_wbusy)

ProcessorClk ==
    IF ~cpuReset THEN HoldReset
    ELSE \/ FetchInstr
         \/ \E i \in Instrs : WaitInstr(FALSE, i)
         \/ Execute
         \/ WaitAluOrMem(FALSE, io_wbusy)

DisplayNext ==
    /\ ProcessorClk
    /\ LET word == IF ToLedmtx THEN IoStore.word ELSE ledmtx_shifter
       IN  /\ LedmtxClk(io_wstrb, ToLedmtx, word)
           /\ LedmtxChipClk(io_wstrb, ToLedmtx, word)
    /\ OledClk(io_wstrb, IoStore)
    /\ OledChipClk(io_wstrb, IoStore)
    /\ ResetCounter
    /\ Pins

DisplayInit ==
    /\ QuarkInit
    /\ ResetInit
    /\ LedmtxInit
    /\ OledInit

DisplaySpec == DisplayInit /\ [][DisplayNext]_displayVars /\ WF_displayVars(DisplayNext)

-------------------------------------------------------------------------------
\* The LED matrix takes every word that is stored and nothing else, although a
\* store to any device stops its shifter and not its clock, and a reset lets the
\* program start again while a word is under way.
LedmtxLink ==
    INSTANCE DisplayLink WITH
        Items <- { <<Meaning(w)>> : w \in LedmtxWord },
        pending <- ledmtx_pending, shown <- ledmtx_shown

LedmtxTakesWhatIsStored == LedmtxLink!Spec

\* The OLED display takes every byte that is stored, as a command or as data,
\* and nothing else: "last tick deactivates CS (high)" before the clock that
\* never stops has sent it a byte that nobody stored.
OledLink ==
    INSTANCE DisplayLink WITH
        Items <- { OledItems(s) : s \in OledStore } \ {<<>>},
        pending <- oled_pending, shown <- oled_shown

OledTakesWhatIsStored == OledLink!Spec

\* Once the resets are over the program goes on for ever: every display is done
\* with its store in the end.
ProgramRuns == <>[](~RESET /\ ~uart_brk) => []<>(cpuReset /\ Executing)

-------------------------------------------------------------------------------
(* The inductive invariants. *)

\* The processor waits after a store, so the next one finds both displays at rest.
ProcessorWaits ==
    /\ state \in States
    /\ instr \in Instrs
    /\ state # "WAIT_ALU_OR_MEM" => ledmtx_bitcount = 0 /\ oled_bitcount = 0

\* n of the bits are shifted out of a register.
ShiftedOut(register, width, bits, n) ==
    \A i \in 1 .. width : register[i] = IF i + n <= width THEN bits[i + n] ELSE 0

\* The chip has taken m bits of w, the first of which may be what was on the wire before.
LedmtxTaken(w, m) == \A i \in 2 .. m : ledmtx_got[WORD_BITS - m + i] = w[i]

\* The chip takes a bit when CLK rises, the driver shifts when it falls.
LedmtxSends(w) ==
    LET n == WORD_BITS - ledmtx_bitcount
    IN  /\ ledmtx_pending = <<Meaning(w)>>
        /\ ShiftedOut(ledmtx_shifter, WORD_BITS, w, n)
        /\ LedmtxTaken(w, IF slow_clk THEN n + 1 ELSE n)

LedmtxInv ==
    /\ ledmtx_divider \in 0 .. LEDMTX_DIVIDER - 1
    /\ ledmtx_bitcount \in 0 .. WORD_BITS
    /\ ledmtx_shifter \in [1 .. WORD_BITS -> {0, 1}]
    /\ ledmtx_got \in [1 .. WORD_BITS -> {0, 1}]
    /\ IF ledmtx_sending THEN \E w \in LedmtxWord : LedmtxSends(w) ELSE ledmtx_pending = <<>>

\* The stores to the OLED display that send something.
OledData == { s \in OledStore : s.sel # "cntl" }

\* The chip has taken j bytes of s and r bits of the next one.
OledTaken(s, j, r) ==
    /\ oled_got = [i \in 1 .. r |-> Loaded(s)[j * BYTE_BITS + i]]
    /\ oled_pending = [i \in 1 .. Len(s.bytes) - j |-> OledItems(s)[i + j]]

\* Before the first falling edge the display is not selected; then it takes a bit when
\* CLK rises and the driver shifts when it falls.
OledSends(s) ==
    LET n == BYTE_BITS * Len(s.bytes) - oled_bitcount
    IN  /\ oled_RST
        /\ oled_DC = (s.sel # "cmd")
        /\ n >= 0
        /\ ShiftedOut(oled_shifter, 2 * BYTE_BITS, Loaded(s), n)
        /\ IF oled_CS THEN n = 0 /\ OledTaken(s, 0, 0)
           ELSE \E j \in 0 .. Len(s.bytes), r \in 0 .. BYTE_BITS - 1 :
                    /\ n + oled_slow_cnt = j * BYTE_BITS + r
                    /\ OledTaken(s, j, r)

\* Selected with nothing to send the display is deselected before the next store, and the
\* chip takes one bit at most meanwhile.
OledRests ==
    /\ oled_pending = <<>>
    /\ ~oled_CS /\ oled_slow_cnt = 0 => state = "WAIT_ALU_OR_MEM" /\ oled_got = <<>>
    /\ ~oled_CS /\ oled_slow_cnt = 1 => /\ state \in {"WAIT_ALU_OR_MEM", "FETCH_INSTR"}
                                        /\ oled_got \in {<<>>, <<0>>, <<1>>}

\* This takes a clock of period 2: with a longer one a store to another device can come
\* with the very edge that would deselect the display.
OledInv ==
    /\ oled_slow_cnt \in {0, 1}
    /\ oled_bitcount \in Nat
    /\ oled_shifter \in [1 .. 2 * BYTE_BITS -> {0, 1}]
    /\ oled_CS \in BOOLEAN /\ oled_RST \in BOOLEAN
    /\ IF oled_sending THEN \E s \in OledData : OledSends(s) ELSE OledRests

DisplayInv == ProcessorWaits /\ LedmtxInv /\ OledInv

===============================================================================
