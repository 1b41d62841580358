--------------------------------- MODULE MAX7219 ---------------------------------
(***************************************************************************)
(* The driver of the LED matrix, and the MAX7219 on its wires: it shifts   *)
(* at every rising CLK, whether it is selected or not, and takes the last  *)
(* WORD_BITS bits when CS rises.  Names have the prefix of the wires of    *)
(* femtosoc.v.  One step is one positive clock edge.                       *)
(***************************************************************************)
EXTENDS Integers, Sequences

CONSTANTS LEDMTX_DIVIDER,   \* clocks per bit (2^3)
          WORD_BITS,        \* (16)
          DONT_CARE,        \* first bits of a word that the chip ignores (4)
          LedmtxWord        \* the words in use

ASSUME LedmtxAssumption ==
    /\ LEDMTX_DIVIDER \in Nat \ {0, 1}
    /\ WORD_BITS \in Nat \ {0} /\ DONT_CARE \in 1 .. WORD_BITS - 1
    /\ LedmtxWord \subseteq [1 .. WORD_BITS -> {0, 1}]

VARIABLES ledmtx_divider, ledmtx_bitcount, ledmtx_shifter,
          ledmtx_got,       \* the shift register of the chip
          ledmtx_pending,   \* the word stored that the chip has yet to take
          ledmtx_shown      \* the last word it took

ledmtxDriver == <<ledmtx_divider, ledmtx_bitcount, ledmtx_shifter>>
ledmtxChip   == <<ledmtx_got, ledmtx_pending, ledmtx_shown>>
ledmtxVars   == <<ledmtxDriver, ledmtxChip>>

slow_clk       == ledmtx_divider = 0
ledmtx_sending == ledmtx_bitcount # 0
max7219_wbusy  == ledmtx_sending
ledmtx_DIN     == ledmtx_shifter[1]
ledmtx_CS      == ~ledmtx_sending
ledmtx_CLK     == ledmtx_sending /\ slow_clk

Meaning(word) == SubSeq(word, DONT_CARE + 1, WORD_BITS)

\* Mutant: the counter starts one lower.
LedmtxClkShort(wstrb, sel, wdata) ==
    /\ ledmtx_divider' = (ledmtx_divider + 1) % LEDMTX_DIVIDER
    /\ IF wstrb
       THEN /\ ledmtx_shifter' = IF sel THEN wdata ELSE ledmtx_shifter
            /\ ledmtx_bitcount' = IF sel THEN WORD_BITS - 1 ELSE ledmtx_bitcount
       ELSE /\ ledmtx_shifter' = IF ledmtx_CLK THEN Append(Tail(ledmtx_shifter), 0)
                                 ELSE ledmtx_shifter
            /\ ledmtx_bitcount' = IF ledmtx_CLK THEN ledmtx_bitcount - 1 ELSE ledmtx_bitcount

\* A store to another device stops the shifter for a clock, but not CLK.
LedmtxClk(wstrb, sel, wdata) ==
    /\ ledmtx_divider' = (ledmtx_divider + 1) % LEDMTX_DIVIDER
    /\ IF wstrb
       THEN /\ ledmtx_shifter' = IF sel THEN wdata ELSE ledmtx_shifter
            /\ ledmtx_bitcount' = IF sel THEN WORD_BITS ELSE ledmtx_bitcount
       ELSE /\ ledmtx_shifter' = IF ledmtx_CLK THEN Append(Tail(ledmtx_shifter), 0)
                                 ELSE ledmtx_shifter
            /\ ledmtx_bitcount' = IF ledmtx_CLK THEN ledmtx_bitcount - 1 ELSE ledmtx_bitcount

\* CLK may rise with the very edge that loads the shifter: the chip then takes
\* the old bit or the new one.
LedmtxChipClk(wstrb, sel, wdata) ==
    /\ IF ledmtx_CLK' /\ ~ledmtx_CLK
       THEN \E din \in {ledmtx_DIN, ledmtx_DIN'} : ledmtx_got' = Append(Tail(ledmtx_got), din)
       ELSE UNCHANGED ledmtx_got
    /\ LET takes == ledmtx_CS' /\ ~ledmtx_CS
       IN  /\ ledmtx_shown' = IF takes THEN Meaning(ledmtx_got) ELSE ledmtx_shown
           /\ ledmtx_pending' = IF wstrb /\ sel THEN <<Meaning(wdata)>>
                                ELSE IF takes THEN <<>> ELSE ledmtx_pending

LedmtxInit ==
    /\ ledmtx_divider \in 0 .. LEDMTX_DIVIDER - 1
    /\ ledmtx_bitcount = 0
    /\ ledmtx_shifter = [i \in 1 .. WORD_BITS |-> 0]
    /\ ledmtx_got = [i \in 1 .. WORD_BITS |-> 0]
    /\ ledmtx_pending = <<>>
    /\ ledmtx_shown = Meaning(ledmtx_got)

===============================================================================
