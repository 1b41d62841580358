--------------------------------- MODULE SSD1351 ---------------------------------
(***************************************************************************)
(* The driver of the OLED display, and the SSD1351 on its wires: while CS  *)
(* is low it takes a bit at every rising CLK and a byte after BYTE_BITS of *)
(* them, a command or data as DC says; when CS is high it forgets the bits *)
(* of a byte that is not complete.  CLK never stops.  Names have the       *)
(* prefix of the wires of femtosoc.v.  One step is one positive clock edge.*)
(***************************************************************************)
EXTENDS Integers, Sequences

CONSTANTS OLED_PERIOD,      \* of the clock divider: 2 ^ width clocks, by NRV_FREQ
          BYTE_BITS,        \* (8)
          OledByte,         \* the bytes in use
          OledCntl          \* the values of the control register in use

ASSUME OledAssumption ==
    /\ OLED_PERIOD \in {2, 4, 8}
    /\ BYTE_BITS \in Nat \ {0, 1}
    /\ OledByte \subseteq [1 .. BYTE_BITS -> {0, 1}]
    /\ OledCntl \subseteq [CS : BOOLEAN, RST : BOOLEAN]

VARIABLES oled_slow_cnt, oled_bitcount, oled_shifter, oled_CS, oled_DC, oled_RST,
          oled_got,         \* bits of the chip's current byte
          oled_pending,     \* the bytes stored that the chip has yet to take
          oled_shown        \* the last byte it took

oledDriver == <<oled_slow_cnt, oled_bitcount, oled_shifter, oled_CS, oled_DC, oled_RST>>
oledChip   == <<oled_got, oled_pending, oled_shown>>
oledVars   == <<oledDriver, oledChip>>

CLK_falling_edge == oled_slow_cnt = OLED_PERIOD - 1
oled_CLK         == oled_slow_cnt >= OLED_PERIOD \div 2
oled_DIN         == oled_shifter[1]
oled_sending     == oled_bitcount # 0
SSD1351_wbusy    == oled_sending

\* Stores: to the control register, and of a command, a byte or two of data.
OledStore ==
    [sel : {"cntl"}, cntl : OledCntl]
    \cup [sel : {"cmd", "dat"}, bytes : { <<b>> : b \in OledByte }]
    \cup [sel : {"dat16"}, bytes : OledByte \X OledByte]

\* The bytes of a store as the chip should take them.
OledItems(s) ==
    IF s.sel = "cntl" THEN <<>>
    ELSE [i \in 1 .. Len(s.bytes) |-> [DC |-> s.sel # "cmd", bits |-> s.bytes[i]]]

Zeros(n)    == [i \in 1 .. n |-> 0]
Loaded(s)   == IF s.sel = "dat16" THEN s.bytes[1] \o s.bytes[2]
               ELSE s.bytes[1] \o Zeros(BYTE_BITS)

OledControl(s) ==
    /\ oled_CS' = s.cntl.CS
    /\ oled_RST' = s.cntl.RST
    /\ UNCHANGED <<oled_bitcount, oled_shifter, oled_DC>>

OledSend(s) ==
    /\ oled_RST' = TRUE
    /\ oled_DC' = (s.sel # "cmd")
    /\ oled_shifter' = Loaded(s)
    /\ oled_bitcount' = BYTE_BITS * Len(s.bytes)
    /\ oled_CS' = TRUE

\* Mutant: no tick selects the display.
OledShiftNeverSelects ==
    /\ IF CLK_falling_edge /\ oled_sending /\ ~oled_CS
       THEN /\ oled_bitcount' = oled_bitcount - 1
            /\ oled_shifter' = Append(Tail(oled_shifter), 0)
       ELSE UNCHANGED <<oled_bitcount, oled_shifter>>
    /\ oled_CS' = IF CLK_falling_edge /\ ~oled_sending THEN TRUE ELSE oled_CS
    /\ UNCHANGED <<oled_DC, oled_RST>>

\* The first falling edge of CLK selects the display, each of the next ones
\* shifts, and one more deselects it.
OledShift ==
    /\ IF CLK_falling_edge /\ oled_sending /\ ~oled_CS
       THEN /\ oled_bitcount' = oled_bitcount - 1
            /\ oled_shifter' = Append(Tail(oled_shifter), 0)
       ELSE UNCHANGED <<oled_bitcount, oled_shifter>>
    /\ oled_CS' = IF CLK_falling_edge THEN ~oled_sending ELSE oled_CS
    /\ UNCHANGED <<oled_DC, oled_RST>>

\* The store s, to this device or, when s is not one of its stores, another.
OledClk(wstrb, s) ==
    /\ oled_slow_cnt' = (oled_slow_cnt + 1) % OLED_PERIOD
    /\ IF ~wstrb THEN OledShift
       ELSE IF s \notin OledStore
            THEN UNCHANGED <<oled_bitcount, oled_shifter, oled_CS, oled_DC, oled_RST>>
       ELSE IF s.sel = "cntl" THEN OledControl(s) ELSE OledSend(s)

\* CS and DIN may change with the very edge at which CLK rises: the chip then
\* takes the old value or the new one.
OledChipClk(wstrb, s) ==
    \E cs \in {oled_CS, oled_CS'}, din \in {oled_DIN, oled_DIN'} :
        LET kept  == IF oled_CS \/ ~oled_RST THEN <<>> ELSE oled_got
            bits  == IF oled_CLK' /\ ~oled_CLK /\ ~cs /\ oled_RST THEN Append(kept, din) ELSE kept
            takes == Len(bits) = BYTE_BITS
        IN  /\ oled_got' = IF takes THEN <<>> ELSE bits
            /\ oled_shown' = IF takes THEN [DC |-> oled_DC, bits |-> bits] ELSE oled_shown
            /\ oled_pending' = IF wstrb /\ s \in OledStore /\ s.sel # "cntl" THEN OledItems(s)
                               ELSE IF takes /\ oled_pending # <<>> THEN Tail(oled_pending)
                               ELSE oled_pending

OledInit ==
    /\ oled_slow_cnt \in 0 .. OLED_PERIOD - 1
    /\ oled_bitcount = 0
    /\ oled_shifter = Zeros(2 * BYTE_BITS)
    /\ oled_CS = TRUE
    /\ oled_DC = FALSE
    /\ oled_RST = FALSE
    /\ oled_got = <<>>
    /\ oled_pending = <<>>
    /\ oled_shown = [DC |-> FALSE, bits |-> Zeros(BYTE_BITS)]

===============================================================================
