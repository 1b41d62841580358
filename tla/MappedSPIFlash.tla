---------------------------- MODULE MappedSPIFlash ----------------------------
(***************************************************************************)
(* The driver of the SPI flash in its variants SPI_FLASH_READ and          *)
(* SPI_FLASH_FAST_READ, which differ in the number of clocks they send,    *)
(* and the flash chip on the other end of the wires.  One step is one      *)
(* positive clock edge.                                                    *)
(*                                                                         *)
(* CLK is the inverted clock while CS_N is low: the chip takes MOSI in the *)
(* middle of a cycle and moves MISO at its end.                            *)
(*                                                                         *)
(* Bits are 0 and 1 and a register is the sequence of its bits, the most   *)
(* significant one first.                                                  *)
(***************************************************************************)
EXTENDS Integers, Sequences

CONSTANTS Command,          \* the bits of the command (8'h03, 8'h0b)
          ADDRESS_BITS,     \* of a byte address (24)
          CHIP_BYTES,       \* that the chip holds (at most 2^24)
          DUMMY_CLOCKS,     \* between the address and the data (0, 8)
          BYTES,            \* of a word (4)
          BYTE_BITS,        \* (8)
          FlashWord,        \* the word addresses in use
          Contents          \* the bytes of the chip

RCV == BYTES * BYTE_BITS

\* What is left of n without its k low bits, k up to w.
Halved(n, w) == LET h[k \in 0 .. w] == IF k = 0 THEN n ELSE h[k - 1] \div 2 IN h

ASSUME FlashAssumption ==
    /\ Command \in Seq({0, 1})
    /\ ADDRESS_BITS \in Nat \ {0}
    /\ DUMMY_CLOCKS \in Nat
    /\ BYTES \in Nat \ {0}
    /\ BYTE_BITS \in Nat \ {0}
    /\ FlashWord \subseteq Nat
    /\ \A a \in FlashWord : Halved(BYTES * a, ADDRESS_BITS)[ADDRESS_BITS] = 0
    /\ CHIP_BYTES \in Nat /\ BYTES <= CHIP_BYTES
    /\ Contents \in [0 .. CHIP_BYTES - 1 -> [1 .. BYTE_BITS -> {0, 1}]]

\* The bits of n, a number of w bits.
Bits(n, w) == [i \in 1 .. w |-> Halved(n, w)[w - i] % 2]

\* The number with these bits.
ValueOf(bits) ==
    LET value[i \in 0 .. Len(bits)] == IF i = 0 THEN 0 ELSE 2 * value[i - 1] + bits[i]
    IN  value[Len(bits)]

ByteAddress(word_address) == Bits(BYTES * word_address, ADDRESS_BITS)

\* Register r after it has shifted these bits in.
Shifted(r, bits) == SubSeq(r \o bits, Len(bits) + 1, Len(r) + Len(bits))

\* "Least significant bytes are read first, we need to swizzle": the bytes of
\* the word in the low end of register r, the least significant one first.
Swizzled(r) ==
    [i \in 0 .. BYTES - 1 |->
        LET last == Len(r) - (BYTES - 1 - i) * BYTE_BITS
        IN  SubSeq(r, last - BYTE_BITS + 1, last)]

\* What the chip sends, wrapping around at its end, from its first byte at this
\* address: bit i, counted from zero.
CHIP_BITS       == BYTE_BITS * CHIP_BYTES
ChipByte(b)     == Contents[b % CHIP_BYTES]
BitFrom(b, i)   == ChipByte(b + i \div BYTE_BITS)[(i % BYTE_BITS) + 1]

\* The words of the chip, in the form of Swizzled.
FlashWords ==
    [a \in FlashWord |-> [i \in 0 .. BYTES - 1 |-> ChipByte(BYTES * a + i)]]

-------------------------------------------------------------------------------
(* The driver and the chip.                                                *)
CONSTANT COUNT_MAX          \* largest value of a bit counter (2^6 - 1)

SND == Len(Command) + ADDRESS_BITS + DUMMY_CLOCKS

ASSUME CountAssumption ==
    COUNT_MAX \in Nat /\ SND <= COUNT_MAX /\ RCV <= COUNT_MAX

VARIABLES snd_bitcount, rcv_bitcount, cmd_addr, rcv_data, CS_N,
          got,              \* the bits the chip has taken since CS_N fell
          out               \* the number of the bit on MISO, 0 for none

driverVars == <<snd_bitcount, rcv_bitcount, cmd_addr, rcv_data, CS_N>>
chipVars   == <<got, out>>
flashVars  == <<driverVars, chipVars>>

sending   == snd_bitcount # 0
receiving == rcv_bitcount # 0
flash_busy == sending \/ receiving
rbusy     == ~CS_N
MOSI      == Head(cmd_addr)

rdata == Swizzled(rcv_data)

-------------------------------------------------------------------------------
(* The chip. *)

AddressTaken == ValueOf(SubSeq(got, Len(Command) + 1, Len(Command) + ADDRESS_BITS))

MISO ==
    IF out # 0 /\ SubSeq(got, 1, Len(Command)) = Command
    THEN BitFrom(AddressTaken, out - 1)
    ELSE 1

ChipClk ==
    IF CS_N
    THEN got' = <<>> /\ out' = 0
    ELSE /\ got' = IF Len(got) < SND THEN Append(got, MOSI) ELSE got
         /\ out' = IF Len(got') = SND THEN (out % CHIP_BITS) + 1 ELSE 0

-------------------------------------------------------------------------------
(* The driver. *)

\* Mutant: a bit less is sent.
FlashReadShort(word_address) ==
    /\ CS_N' = FALSE
    /\ cmd_addr' = Command \o ByteAddress(word_address)
    /\ snd_bitcount' = SND - 1
    /\ UNCHANGED <<rcv_bitcount, rcv_data>>

\* The strobe, which wins over whatever is under way.
FlashRead(word_address) ==
    /\ CS_N' = FALSE
    /\ cmd_addr' = Command \o ByteAddress(word_address)
    /\ snd_bitcount' = SND
    /\ UNCHANGED <<rcv_bitcount, rcv_data>>

\* Mutant: the chip stays selected.
FlashShiftKeepsChip ==
    /\ snd_bitcount' = IF sending THEN snd_bitcount - 1 ELSE snd_bitcount
    /\ cmd_addr' = IF sending THEN Shifted(cmd_addr, <<1>>) ELSE cmd_addr
    /\ rcv_bitcount' = IF receiving THEN rcv_bitcount - 1
                       ELSE IF snd_bitcount = 1 THEN RCV
                       ELSE rcv_bitcount
    /\ rcv_data' = IF receiving THEN Shifted(rcv_data, <<MISO>>) ELSE rcv_data
    /\ UNCHANGED CS_N

\* Any other clock.  A reception under way wins over one that would start.
FlashShift ==
    /\ snd_bitcount' = IF sending THEN snd_bitcount - 1 ELSE snd_bitcount
    /\ cmd_addr' = IF sending THEN Shifted(cmd_addr, <<1>>) ELSE cmd_addr
    /\ rcv_bitcount' = IF receiving THEN rcv_bitcount - 1
                       ELSE IF snd_bitcount = 1 THEN RCV
                       ELSE rcv_bitcount
    /\ rcv_data' = IF receiving THEN Shifted(rcv_data, <<MISO>>) ELSE rcv_data
    /\ CS_N' = IF flash_busy THEN CS_N ELSE TRUE

FlashClk(rstrb, word_address) ==
    /\ IF rstrb THEN FlashRead(word_address) ELSE FlashShift
    /\ ChipClk

FlashInit ==
    /\ snd_bitcount \in 0 .. COUNT_MAX
    /\ rcv_bitcount \in 0 .. COUNT_MAX
    /\ cmd_addr = Command \o ByteAddress(0)
    /\ rcv_data = [i \in 1 .. RCV |-> 1]
    /\ CS_N = TRUE
    /\ got = <<>>
    /\ out = 0

===============================================================================
