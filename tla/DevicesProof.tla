----------------------------- MODULE DevicesProof -----------------------------
(***************************************************************************)
(* Both directions of the UART carry every byte, for every divider, every  *)
(* number of bits and every clock of the host that TypingAssumption and    *)
(* ReadingAssumption allow; and each display shows what is stored for it.  *)
(*                                                                         *)
(* They are arguments about clocks.  Sample k of the receiver falls into   *)
(* bit k of the frame, so the register holds the first k bits of the frame *)
(* that is typed; sample j of the host falls into bit j of the frame that  *)
(* is shifted out, the last one before the next store.  What a display     *)
(* driver has shifted out its panel has taken, at the edge of CLK between. *)
(***************************************************************************)
EXTENDS Serial, DisplaySoC, SequenceTheorems, TLAPS

-------------------------------------------------------------------------------
(* Clocks and bits of a frame. *)

\* Slots of p clocks: a later slot begins when the earlier one is over.
LEMMA LaterSlot ==
  ASSUME NEW p \in Nat, NEW i \in Nat, NEW j \in Nat, i < j
  PROVE  /\ i * p \in Nat /\ j * p \in Nat
         /\ (i + 1) * p = i * p + p
         /\ i * p + p <= j * p
<1> DEFINE d == j - (i + 1)
<1>1. d \in Nat /\ j = (i + 1) + d
  OBVIOUS
<1>2. (i + 1) * p = i * p + p /\ i * p \in Nat /\ d * p \in Nat
  BY <1>1
<1>3. ((i + 1) + d) * p = (i + 1) * p + d * p
  BY <1>1
<1> QED
  BY <1>1, <1>2, <1>3

\* A clock is in one slot only.
LEMMA SameSlot ==
  ASSUME NEW p \in Nat, NEW i \in Nat, NEW j \in Nat, NEW m \in 0 .. p - 1, NEW t \in Int,
         t = i * p + m, j * p <= t, t < j * p + p
  PROVE  i = j
<1>1. i * p \in Nat /\ j * p \in Nat
  OBVIOUS
<1>2. ~(i < j)
  <2> SUFFICES ASSUME i < j PROVE FALSE
    OBVIOUS
  <2>1. i * p + p <= j * p
    BY LaterSlot
  <2> QED
    BY <1>1, <2>1
<1>3. ~(j < i)
  <2> SUFFICES ASSUME j < i PROVE FALSE
    OBVIOUS
  <2>1. j * p + p <= i * p
    BY LaterSlot
  <2> QED
    BY <1>1, <2>1
<1> QED
  BY <1>2, <1>3

\* The constants of the UART.
LEMMA Widths ==
  /\ divider \in Nat \ {0} /\ DATA_BITS \in Nat \ {0}
  /\ half_baud_init \in Nat \ {0} /\ baud_init = divider
  /\ LAST_BIT = DATA_BITS + 2
<1>1. divider \div 2 \in Nat
  BY BaudAssumption
<1> QED
  BY <1>1, BaudAssumption DEF half_baud_init, baud_init, LAST_BIT

\* Samples are divider + 2 clocks apart.
LEMMA SampleClocks ==
  ASSUME NEW k \in Nat
  PROVE  /\ SampleClock(k) \in Nat
         /\ SampleClock(k + 1) = SampleClock(k) + divider + 2
         /\ SampleClock(0) = half_baud_init + 2
<1>1. k * (divider + 2) \in Nat /\ 0 * (divider + 2) = 0
  BY Widths
<1>2. (k + 1) * (divider + 2) = k * (divider + 2) + (divider + 2)
  BY Widths
<1> HIDE DEF half_baud_init
<1> QED
  BY <1>1, <1>2, Widths DEF SampleClock

\* What the assumption says of one host.
LEMMA SampleInBit ==
  ASSUME NEW p \in TypingPeriods, NEW k \in 0 .. DATA_BITS + 1
  PROVE  /\ p \in Nat /\ k * p \in Nat
         /\ k * p <= SampleClock(k) /\ SampleClock(k) < k * p + p
<1>1. p \in Nat /\ k \in Nat
  BY TypingAssumption, Widths
<1>2. k * p <= SampleClock(k) /\ SampleClock(k) < (k + 1) * p
  BY TypingAssumption
<1>3. (k + 1) * p = k * p + p /\ k * p \in Nat
  BY <1>1
<1> QED
  BY <1>1, <1>2, <1>3

\* A bit lasts longer than the receiver waits for its first sample.
LEMMA LongBits ==
  ASSUME NEW p \in TypingPeriods
  PROVE  p \in Nat /\ p > half_baud_init + 2
<1>1. SampleClock(0) < 0 * p + p /\ 0 * p = 0 /\ p \in Nat
  BY SampleInBit, Widths
<1> QED
  BY <1>1, SampleClocks

\* Sample k sees bit k: it is taken while the host sends bit number k + 1.
LEMMA SampleSeesBit ==
  ASSUME NEW p \in TypingPeriods, NEW k \in 0 .. DATA_BITS + 1,
         NEW b \in 1 .. LAST_BIT, NEW t \in 0 .. p - 1,
         (b - 1) * p + (p - 1 - t) = SampleClock(k)
  PROVE  b = k + 1
<1>1. p \in Nat /\ k \in Nat /\ b - 1 \in Nat /\ p - 1 - t \in 0 .. p - 1
  BY LongBits, Widths
<1>2. SampleClock(k) \in Int /\ k * p <= SampleClock(k) /\ SampleClock(k) < k * p + p
  BY SampleInBit, SampleClocks, <1>1
<1>3. b - 1 = k
  BY <1>1, <1>2, SameSlot
<1> QED
  BY <1>1, <1>3

\* The last sample has been taken when the frame ends, at the latest with its last clock.
LEMMA LastSample ==
  ASSUME NEW p \in TypingPeriods, NEW k \in 0 .. DATA_BITS + 1, NEW d \in Int, d >= -1,
         (LAST_BIT - 1) * p + (p - 1) = SampleClock(k) - d - 1
  PROVE  d = -1 /\ k = DATA_BITS + 1
<1> DEFINE e == (LAST_BIT - 1) * p
<1>1. LAST_BIT - 1 = DATA_BITS + 1 /\ DATA_BITS + 1 \in 0 .. DATA_BITS + 1 /\ k \in Nat
  BY Widths
<1>2. e \in Nat /\ p \in Nat /\ SampleClock(DATA_BITS + 1) < e + p
  BY <1>1, SampleInBit
<1>3. k # DATA_BITS + 1 => k * p + p <= e
  <2> SUFFICES ASSUME k # DATA_BITS + 1 PROVE k * p + p <= e
    OBVIOUS
  <2> k < DATA_BITS + 1 /\ DATA_BITS + 1 \in Nat
    BY Widths
  <2> QED
    BY <1>1, <1>2, LaterSlot
<1>4. SampleClock(k) < k * p + p /\ k * p \in Nat /\ SampleClock(k) \in Nat
  BY SampleInBit, SampleClocks, <1>1
<1>5. e + (p - 1) = SampleClock(k) - d - 1
  OBVIOUS
<1> HIDE DEF e
<1>6. k = DATA_BITS + 1
  BY <1>2, <1>3, <1>4, <1>5, Widths
<1> QED
  BY <1>2, <1>4, <1>5, <1>6

-------------------------------------------------------------------------------
(* The host that types. *)

TypingTypes ==
    /\ bit \in 0 .. LAST_BIT
    /\ typed \in Byte
    /\ period \in TypingPeriods
    /\ ticks \in 0 .. period - 1

\* The host begins with the next frame or rests.
NewFrame == bit' = 1 /\ ticks' = period' - 1

FrameEnds == bit = LAST_BIT /\ ticks = 0

\* The host keeps to the types.
LEMMA TypingClkTypes ==
  ASSUME TypingTypes, TypingClk
  PROVE  TypingTypes'
<1>1. /\ LAST_BIT \in Nat /\ 1 \in 0 .. LAST_BIT
      /\ \A p \in TypingPeriods : p \in Nat /\ p > 0
  BY Widths, LongBits
<1>2. CASE StartFrame
  BY <1>1, <1>2 DEF TypingTypes, StartFrame
<1>3. CASE bit = 0 /\ UNCHANGED <<bit, ticks, period, typed>>
  BY <1>3 DEF TypingTypes
<1>4. CASE bit # 0 /\ ticks > 0 /\ ticks' = ticks - 1 /\ UNCHANGED <<bit, period, typed>>
  BY <1>1, <1>4 DEF TypingTypes
<1>5. CASE /\ bit # 0
           /\ ticks = 0
           /\ bit' = IF bit = LAST_BIT THEN 0 ELSE bit + 1
           /\ ticks' = IF bit = LAST_BIT THEN 0 ELSE period - 1
           /\ UNCHANGED <<period, typed>>
  BY <1>1, <1>5 DEF TypingTypes
<1> QED
  BY <1>2, <1>3, <1>4, <1>5 DEF TypingClk

\* Within a frame its clock goes on and the byte stays.
LEMMA TypingGoesOn ==
  ASSUME TypingTypes, TypingClk, bit # 0, ~FrameEnds
  PROVE  /\ TypingClock \in Nat
         /\ TypingClock' = TypingClock + 1
         /\ bit' \in {bit, bit + 1} /\ bit' # 0
         /\ UNCHANGED <<typed, period>>
<1>1. /\ LAST_BIT \in Nat
      /\ bit \in 1 .. LAST_BIT /\ period \in Nat /\ period > 0 /\ ticks \in 0 .. period - 1
  BY Widths, LongBits DEF TypingTypes
<1> DEFINE e == (bit - 1) * period
<1>2. e \in Nat /\ bit * period = e + period
  BY <1>1
<1>3. TypingClock = e + (period - 1 - ticks)
  BY DEF TypingClock
<1>4. CASE ticks > 0
  <2>1. ticks' = ticks - 1 /\ UNCHANGED <<bit, period, typed>>
    BY <1>1, <1>4 DEF TypingClk, FrameEnds
  <2>2. TypingClock' = e + (period - 1 - (ticks - 1))
    BY <2>1 DEF TypingClock
  <2> HIDE DEF e
  <2> QED
    BY <1>1, <1>2, <1>3, <1>4, <2>1, <2>2
<1>5. CASE ticks = 0
  <2>1. bit # LAST_BIT
    BY <1>5 DEF FrameEnds
  <2>2. bit' = bit + 1 /\ ticks' = period - 1 /\ UNCHANGED <<period, typed>>
    BY <1>1, <1>5, <2>1 DEF TypingClk
  <2>3. TypingClock' = ((bit + 1) - 1) * period + (period - 1 - (period - 1))
    BY <2>2 DEF TypingClock
  <2>4. (bit + 1) - 1 = bit
    BY <1>1
  <2>5. TypingClock' = bit * period + 0
    BY <1>1, <2>3, <2>4
  <2> HIDE DEF e
  <2> QED
    BY <1>1, <1>2, <1>3, <1>5, <2>2, <2>5
<1> QED
  BY <1>1, <1>4, <1>5

\* Between frames the host rests or begins the next one.
LEMMA TypingBetween ==
  ASSUME TypingTypes, TypingClk, bit = 0 \/ FrameEnds
  PROVE  bit' = 0 \/ NewFrame
BY Widths DEF TypingTypes, TypingClk, StartFrame, FrameEnds, NewFrame

\* The wire shows the bit.
LEMMA Wire ==
  ASSUME bit # 0
  PROVE  RXD = FrameBit(typed, bit)
BY Widths DEF RXD, FrameBit

\* A frame is made of bits.
LEMMA FrameBitType ==
  ASSUME NEW c \in Byte, NEW j \in 1 .. LAST_BIT
  PROVE  FrameBit(c, j) \in {0, 1}
<1>1. CASE j # 1 /\ j # LAST_BIT
  <2>1. j - 1 \in 1 .. DATA_BITS
    BY <1>1, Widths
  <2> QED
    BY <1>1, <2>1 DEF Byte, FrameBit
<1> QED
  BY <1>1 DEF FrameBit

-------------------------------------------------------------------------------
(* The register of the receiver. *)

\* The register of the receiver, bit by bit.
LEMMA SampledType ==
  ASSUME NEW k \in 0 .. DATA_BITS + 1, typed \in Byte, Sampled(k)
  PROVE  /\ recv_pattern \in Seq({0, 1})
         /\ Len(recv_pattern) = DATA_BITS + 1
         /\ \A i \in 1 .. DATA_BITS + 1 :
               recv_pattern[i] = IF i + k > DATA_BITS + 1
                                 THEN 1 - FrameBit(typed, i + k - (DATA_BITS + 1)) ELSE 0
<1>1. DATA_BITS \in Nat /\ k \in Nat /\ LAST_BIT = DATA_BITS + 2
  BY Widths
<1>2. ASSUME NEW i \in 1 .. DATA_BITS + 1
      PROVE  recv_pattern[i] = IF i + k > DATA_BITS + 1
                               THEN 1 - FrameBit(typed, i + k - (DATA_BITS + 1)) ELSE 0
  BY DEF Sampled
<1>3. ASSUME NEW i \in 1 .. DATA_BITS + 1
      PROVE  recv_pattern[i] \in {0, 1}
  <2>1. CASE i + k > DATA_BITS + 1
    <3>1. i + k - (DATA_BITS + 1) \in 1 .. LAST_BIT
      BY <1>1, <2>1
    <3>2. FrameBit(typed, i + k - (DATA_BITS + 1)) \in {0, 1}
      BY <3>1, FrameBitType
    <3> QED
      BY <1>2, <2>1, <3>2
  <2> QED
    BY <1>2, <2>1
<1>4. recv_pattern = [i \in 1 .. DATA_BITS + 1 |-> recv_pattern[i]]
  BY DEF Sampled
<1>5. recv_pattern \in [1 .. DATA_BITS + 1 -> {0, 1}]
  BY <1>3, <1>4
<1> QED
  BY <1>1, <1>2, <1>5

\* The start bit comes out with the last bit, not before.
LEMMA StartBitOut ==
  ASSUME NEW k \in 0 .. DATA_BITS + 1, typed \in Byte, Sampled(k), recv_state = 1,
         recv_divcnt \in Int
  PROVE  Received <=> recv_divcnt < 0 /\ k = DATA_BITS + 1
<1>1. 1 \in 1 .. DATA_BITS + 1 /\ DATA_BITS \in Nat /\ k \in Nat
  BY Widths
<1>2. recv_pattern[1] = IF 1 + k > DATA_BITS + 1
                        THEN 1 - FrameBit(typed, 1 + k - (DATA_BITS + 1)) ELSE 0
  BY <1>1, SampledType
<1>3. CASE k = DATA_BITS + 1
  <2>1. 1 + k - (DATA_BITS + 1) = 1 /\ 1 + k > DATA_BITS + 1
    BY <1>1, <1>3
  <2>2. recv_pattern[1] = 1
    BY <1>2, <2>1 DEF FrameBit
  <2> QED
    BY <1>3, <2>2 DEF Received, recv_baud_clk
<1>4. CASE k # DATA_BITS + 1
  <2>1. ~(1 + k > DATA_BITS + 1)
    BY <1>1, <1>4
  <2>2. recv_pattern[1] = 0
    BY <1>2, <2>1
  <2> QED
    BY <1>4, <2>2 DEF Received, recv_baud_clk
<1> QED
  BY <1>3, <1>4

\* A shifted sequence.
LEMMA ShiftIn ==
  ASSUME NEW S, NEW r \in Seq(S), Len(r) > 0, NEW b \in S
  PROVE  /\ Append(Tail(r), b) = [i \in 1 .. Len(r) |-> IF i < Len(r) THEN r[i + 1] ELSE b]
<1> DEFINE a == Append(Tail(r), b)
<1>1. Tail(r) \in Seq(S) /\ Len(Tail(r)) = Len(r) - 1
      /\ \A i \in 1 .. Len(r) - 1 : Tail(r)[i] = r[i + 1]
  OBVIOUS
<1>2. a \in Seq(S) /\ Len(a) = Len(r)
  BY <1>1
<1>3. ASSUME NEW i \in 1 .. Len(r)
      PROVE  a[i] = IF i < Len(r) THEN r[i + 1] ELSE b
  <2>1. CASE i < Len(r)
    <3>1. i \in 1 .. Len(r) - 1
      BY <2>1
    <3>2. a[i] = Tail(r)[i]
      BY <1>1, <3>1
    <3> QED
      BY <1>1, <2>1, <3>1, <3>2
  <2>2. CASE i = Len(r)
    <3>1. a[Len(Tail(r)) + 1] = b
      BY <1>1
    <3>2. Len(Tail(r)) + 1 = i
      BY <1>1, <2>2
    <3> QED
      BY <2>2, <3>1, <3>2
  <2> QED
    BY <2>1, <2>2
<1> HIDE DEF a
<1>4. a \in [1 .. Len(r) -> S]
  BY <1>2
<1>5. a = [i \in 1 .. Len(r) |-> a[i]]
  BY <1>4
<1>6. a = [i \in 1 .. Len(r) |-> IF i < Len(r) THEN r[i + 1] ELSE b]
  BY <1>3, <1>5
<1> QED
  BY <1>6 DEF a

\* A sample moves the next bit of the frame into the register.
LEMMA SampleShifts ==
  ASSUME NEW k \in 0 .. DATA_BITS, typed \in Byte, typed' = typed, Sampled(k),
         recv_pattern' = Append(Tail(recv_pattern), 1 - FrameBit(typed, k + 1))
  PROVE  Sampled(k + 1)'
<1>1. DATA_BITS \in Nat /\ k \in Nat /\ k \in 0 .. DATA_BITS + 1 /\ k + 1 \in 1 .. LAST_BIT
  BY Widths
<1>2. 1 - FrameBit(typed, k + 1) \in {0, 1}
  BY <1>1, FrameBitType
<1>3. /\ recv_pattern \in Seq({0, 1}) /\ Len(recv_pattern) = DATA_BITS + 1
      /\ \A i \in 1 .. DATA_BITS + 1 :
            recv_pattern[i] = IF i + k > DATA_BITS + 1
                              THEN 1 - FrameBit(typed, i + k - (DATA_BITS + 1)) ELSE 0
  BY <1>1, SampledType
<1>4. recv_pattern' = [i \in 1 .. DATA_BITS + 1 |->
                         IF i < DATA_BITS + 1 THEN recv_pattern[i + 1]
                         ELSE 1 - FrameBit(typed, k + 1)]
  BY <1>1, <1>2, <1>3, ShiftIn
<1>5. ASSUME NEW i \in 1 .. DATA_BITS + 1
      PROVE  (IF i < DATA_BITS + 1 THEN recv_pattern[i + 1] ELSE 1 - FrameBit(typed, k + 1))
             = IF i + (k + 1) > DATA_BITS + 1
               THEN 1 - FrameBit(typed, i + (k + 1) - (DATA_BITS + 1)) ELSE 0
  <2>1. CASE i < DATA_BITS + 1
    <3>1. i + 1 \in 1 .. DATA_BITS + 1 /\ (i + 1) + k = i + (k + 1)
      BY <1>1, <2>1
    <3> QED
      BY <1>3, <2>1, <3>1
  <2>2. CASE i = DATA_BITS + 1
    <3>1. i + (k + 1) > DATA_BITS + 1 /\ i + (k + 1) - (DATA_BITS + 1) = k + 1
      BY <1>1, <2>2
    <3> QED
      BY <1>1, <2>2, <3>1
  <2> QED
    BY <1>1, <2>1, <2>2
<1>6. recv_pattern' = [i \in 1 .. DATA_BITS + 1 |->
                         IF i + (k + 1) > DATA_BITS + 1
                         THEN 1 - FrameBit(typed, i + (k + 1) - (DATA_BITS + 1)) ELSE 0]
  BY <1>4, <1>5
<1> QED
  BY <1>6 DEF Sampled

\* With the last sample the register holds the byte.
LEMMA ByteReceived ==
  ASSUME typed \in Byte, Sampled(DATA_BITS + 1)
  PROVE  Inverted(Tail(recv_pattern)) = typed
<1> DEFINE r == recv_pattern
<1>1. DATA_BITS \in Nat \ {0} /\ DATA_BITS + 1 \in 0 .. DATA_BITS + 1 /\ LAST_BIT = DATA_BITS + 2
  BY Widths
<1>2. /\ r \in Seq({0, 1}) /\ Len(r) = DATA_BITS + 1
      /\ \A i \in 1 .. DATA_BITS + 1 :
            r[i] = IF i + (DATA_BITS + 1) > DATA_BITS + 1
                   THEN 1 - FrameBit(typed, i + (DATA_BITS + 1) - (DATA_BITS + 1)) ELSE 0
  BY <1>1, SampledType
<1> HIDE DEF r
<1>3. /\ Len(Tail(r)) = DATA_BITS
      /\ \A i \in 1 .. DATA_BITS : Tail(r)[i] = r[i + 1]
  BY <1>1, <1>2
<1>4. ASSUME NEW i \in 1 .. DATA_BITS
      PROVE  1 - Tail(r)[i] = typed[i]
  <2>1. /\ i + 1 \in 1 .. DATA_BITS + 1
        /\ (i + 1) + (DATA_BITS + 1) > DATA_BITS + 1
        /\ (i + 1) + (DATA_BITS + 1) - (DATA_BITS + 1) = i + 1
        /\ i + 1 # 1 /\ i + 1 # LAST_BIT /\ (i + 1) - 1 = i
    BY <1>1
  <2>2. r[i + 1] = 1 - FrameBit(typed, i + 1)
    BY <1>2, <2>1
  <2>3. FrameBit(typed, i + 1) = typed[i]
    BY <2>1 DEF FrameBit
  <2>4. typed[i] \in {0, 1}
    BY DEF Byte
  <2> QED
    BY <1>3, <2>2, <2>3, <2>4
<1>5. typed = [i \in 1 .. DATA_BITS |-> typed[i]]
  BY DEF Byte
<1> QED
  BY <1>3, <1>4, <1>5 DEF Inverted, r

-------------------------------------------------------------------------------
(* A clock of the receiver. *)

ReceiverInv ==
    /\ TypingTypes
    /\ recv_divcnt \in Int
    /\ \/ recv_state = 0 /\ Waiting
       \/ recv_state = 1 /\ Sampling

\* What is under way.
Line == IF bit = 0 \/ (bit = LAST_BIT /\ recv_state = 0) THEN None ELSE typed

LineGoesOn == Line' = Line \/ (Line = None /\ Line' \in Byte)

\* The frame that the receiver is waiting for begins, or none.
LEMMA WaitStep ==
  ASSUME ReceiverInv, recv_state = 0, TypingClk, WaitStart(RXD)
  PROVE  /\ ReceiverInv'
         /\ UNCHANGED recv_buf_data
         /\ recv_state' = 1 => recv_divcnt' = half_baud_init
         /\ LineGoesOn
<1>1. TypingTypes /\ TypingTypes' /\ recv_divcnt \in Int /\ Waiting
  BY TypingClkTypes DEF ReceiverInv
<1>2. /\ LAST_BIT \in Nat /\ LAST_BIT > 2 /\ half_baud_init \in Nat
      /\ \A p \in TypingPeriods : p \in Nat /\ p > 2
  BY Widths, LongBits
<1>3. CASE bit \in {0, LAST_BIT}
  <2>1. RXD = 1
    BY <1>3 DEF RXD
  <2>2. recv_state' = 0 /\ UNCHANGED <<recv_divcnt, recv_buf_data>>
    BY <2>1 DEF WaitStart
  <2>3. Waiting' /\ LineGoesOn
    <3>1. CASE bit = 0 \/ FrameEnds
      <4>1. bit' = 0 \/ NewFrame
        BY <1>1, <3>1, TypingBetween
      <4>2. typed' \in Byte
        BY <1>1 DEF TypingTypes
      <4> QED
        BY <1>2, <1>3, <2>2, <4>1, <4>2 DEF Waiting, NewFrame, LineGoesOn, Line
    <3>2. CASE bit = LAST_BIT /\ ~FrameEnds
      <4>1. bit' \in {bit, bit + 1} /\ bit' \in 0 .. LAST_BIT
        BY <1>1, <1>2, <3>2, TypingGoesOn DEF TypingTypes
      <4>2. bit' = LAST_BIT
        BY <1>2, <3>2, <4>1
      <4> QED
        BY <2>2, <3>2, <4>2 DEF Waiting, LineGoesOn, Line
    <3> QED
      BY <1>3, <3>1, <3>2
  <2> QED
    BY <1>1, <2>2, <2>3 DEF ReceiverInv
<1>4. CASE bit = 1 /\ ticks = period - 1
  <2>1. RXD = 0
    BY <1>2, <1>4, Wire DEF FrameBit
  <2>2. /\ recv_state' = 1 /\ recv_divcnt' = half_baud_init /\ UNCHANGED recv_buf_data
        /\ recv_pattern' = [i \in 1 .. DATA_BITS + 1 |-> 0]
    BY <2>1 DEF WaitStart
  <2>3. ticks > 0 /\ period \in Nat
    BY <1>1, <1>2, <1>4 DEF TypingTypes
  <2>4. bit' = 1 /\ ticks' = period - 2 /\ UNCHANGED <<typed, period>>
    BY <1>2, <1>4, <2>3 DEF TypingClk
  <2>5. TypingClock' = (1 - 1) * period + (period - 1 - (period - 2))
    BY <2>4 DEF TypingClock
  <2>6. TypingClock' = SampleClock(0) - half_baud_init - 1
    <3>1. TypingClock' = 1
      BY <2>3, <2>5
    <3> QED
      BY <1>2, <3>1, SampleClocks
  <2>7. Sampled(0)'
    <3>1. \A i \in 1 .. DATA_BITS + 1 : ~(i + 0 > DATA_BITS + 1)
      BY Widths
    <3> QED
      BY <2>2, <3>1 DEF Sampled
  <2>8. Sampling'
    <3>1. 0 \in 0 .. DATA_BITS + 1
      BY Widths
    <3>2. half_baud_init >= -1
      BY <1>2
    <3>3. SampleClock(0)' = SampleClock(0)
      BY DEF SampleClock, half_baud_init
    <3> QED
      BY <2>2, <2>4, <2>6, <2>7, <3>1, <3>2, <3>3 DEF Sampling
  <2> QED
    BY <1>1, <1>2, <1>4, <2>2, <2>4, <2>8 DEF ReceiverInv, LineGoesOn, Line
<1> QED
  BY <1>1, <1>3, <1>4 DEF Waiting

\* A frame does not end before its last sample.
LEMMA NotYetOver ==
  ASSUME TypingTypes, recv_divcnt \in Int, bit # 0, recv_divcnt >= -1,
         NEW k \in 0 .. DATA_BITS + 1,
         TypingClock = SampleClock(k) - recv_divcnt - 1,
         recv_divcnt # -1 \/ k # DATA_BITS + 1
  PROVE  ~FrameEnds
<1> SUFFICES ASSUME FrameEnds PROVE FALSE
  OBVIOUS
<1>1. period \in TypingPeriods /\ period \in Nat
  BY LongBits DEF TypingTypes
<1>2. TypingClock = (LAST_BIT - 1) * period + (period - 1)
  BY <1>1 DEF FrameEnds, TypingClock
<1> QED
  BY <1>1, <1>2, LastSample

\* Between two samples the receiver is on its way to the next one.
LEMMA CountStep ==
  ASSUME ReceiverInv, recv_state = 1, TypingClk, CountDown
  PROVE  /\ ReceiverInv' /\ recv_state' = 1
         /\ UNCHANGED recv_buf_data
         /\ LineGoesOn
<1>1. TypingTypes /\ TypingTypes' /\ recv_divcnt \in Int /\ Sampling
  BY TypingClkTypes DEF ReceiverInv
<1>2. PICK k \in 0 .. DATA_BITS + 1 :
         TypingClock = SampleClock(k) - recv_divcnt - 1 /\ Sampled(k)
  BY <1>1 DEF Sampling
<1>3. bit # 0 /\ recv_divcnt >= 0
  BY <1>1 DEF Sampling, CountDown, recv_baud_clk
<1>4. /\ recv_divcnt' = recv_divcnt - 1
      /\ UNCHANGED <<recv_state, recv_pattern, recv_buf_data>>
  BY DEF CountDown
<1>5. ~FrameEnds
  BY <1>1, <1>2, <1>3, NotYetOver
<1>6. /\ TypingClock \in Nat /\ TypingClock' = TypingClock + 1
      /\ bit' # 0 /\ UNCHANGED <<typed, period>>
  BY <1>1, <1>3, <1>5, TypingGoesOn
<1>7. SampleClock(k) \in Nat /\ k \in Nat
  BY SampleClocks, Widths
<1>8. TypingClock' = SampleClock(k) - recv_divcnt' - 1
  BY <1>1, <1>2, <1>4, <1>6, <1>7
<1>9. Sampling'
  <2>1. Sampled(k)'
    BY <1>2, <1>4, <1>6 DEF Sampled
  <2>2. SampleClock(k)' = SampleClock(k)
    BY DEF SampleClock, half_baud_init
  <2>3. recv_divcnt' >= -1
    BY <1>1, <1>3, <1>4
  <2> QED
    BY <1>6, <1>8, <2>1, <2>2, <2>3 DEF Sampling
<1>10. recv_divcnt' \in Int
  BY <1>1, <1>4
<1> QED
  BY <1>1, <1>3, <1>4, <1>6, <1>9, <1>10 DEF ReceiverInv, LineGoesOn, Line

\* A sample that does not complete a byte: it is of the bit on the wire.
LEMMA SampleStep ==
  ASSUME ReceiverInv, recv_state = 1, TypingClk, Sample(RXD)
  PROVE  /\ ReceiverInv' /\ recv_state' = 1
         /\ UNCHANGED recv_buf_data
         /\ LineGoesOn
<1>1. TypingTypes /\ TypingTypes' /\ recv_divcnt \in Int /\ Sampling
  BY TypingClkTypes DEF ReceiverInv
<1>2. PICK k \in 0 .. DATA_BITS + 1 :
         TypingClock = SampleClock(k) - recv_divcnt - 1 /\ Sampled(k)
  BY <1>1 DEF Sampling
<1>3. bit # 0 /\ recv_divcnt = -1
  BY <1>1 DEF Sampling, Sample, recv_baud_clk
<1>4. /\ recv_divcnt' = divider
      /\ recv_pattern' = Append(Tail(recv_pattern), 1 - RXD)
      /\ UNCHANGED <<recv_state, recv_buf_data>>
  BY DEF Sample, baud_init
<1>5. typed \in Byte
  BY <1>1 DEF TypingTypes
<1>6. k # DATA_BITS + 1
  BY <1>1, <1>2, <1>3, <1>5, StartBitOut DEF Sample
<1>7. ~FrameEnds
  BY <1>1, <1>2, <1>3, <1>6, NotYetOver
<1>8. /\ TypingClock \in Nat /\ TypingClock' = TypingClock + 1
      /\ bit' # 0 /\ UNCHANGED <<typed, period>>
  BY <1>1, <1>3, <1>7, TypingGoesOn
<1>9. k \in 0 .. DATA_BITS /\ k \in Nat /\ k + 1 \in 0 .. DATA_BITS + 1
  BY <1>6, Widths
<1>10. SampleClock(k) \in Nat /\ SampleClock(k + 1) = SampleClock(k) + divider + 2
  BY <1>9, SampleClocks
<1>11. TypingClock = SampleClock(k)
  BY <1>2, <1>3, <1>10
<1>12. RXD = FrameBit(typed, k + 1)
  <2>1. bit \in 1 .. LAST_BIT /\ period \in TypingPeriods /\ ticks \in 0 .. period - 1
    BY <1>1, <1>3, Widths DEF TypingTypes
  <2>2. (bit - 1) * period + (period - 1 - ticks) = SampleClock(k)
    BY <1>11 DEF TypingClock
  <2>3. bit = k + 1
    BY <2>1, <2>2, SampleSeesBit
  <2> QED
    BY <1>3, <2>3, Wire
<1>13. Sampled(k + 1)'
  BY <1>2, <1>4, <1>5, <1>8, <1>9, <1>12, SampleShifts
<1>14. TypingClock' = SampleClock(k + 1) - recv_divcnt' - 1
  BY <1>4, <1>8, <1>10, <1>11, Widths
<1>15. Sampling'
  <2>1. SampleClock(k + 1)' = SampleClock(k + 1)
    BY DEF SampleClock, half_baud_init
  <2>2. recv_divcnt' >= -1
    BY <1>4, Widths
  <2> QED
    BY <1>8, <1>9, <1>13, <1>14, <2>1, <2>2 DEF Sampling
<1>16. recv_divcnt' \in Int
  BY <1>4, Widths
<1> QED
  BY <1>1, <1>3, <1>4, <1>8, <1>15, <1>16 DEF ReceiverInv, LineGoesOn, Line

\* The byte has arrived while its stop bit is on the wire.
LEMMA CompleteStep ==
  ASSUME ReceiverInv, TypingClk, Complete
  PROVE  /\ ReceiverInv' /\ recv_state' = 0
         /\ recv_buf_data' = typed
         /\ Line = typed /\ typed \in Byte
         /\ Line' \in Byte \cup {None}
<1>0. recv_state = 1 /\ Received /\ recv_state' = 0
  BY DEF Complete, Received
<1>1. TypingTypes /\ TypingTypes' /\ recv_divcnt \in Int /\ Sampling
  BY <1>0, TypingClkTypes DEF ReceiverInv
<1>2. PICK k \in 0 .. DATA_BITS + 1 :
         TypingClock = SampleClock(k) - recv_divcnt - 1 /\ Sampled(k)
  BY <1>1 DEF Sampling
<1>3. bit # 0 /\ recv_divcnt = -1
  BY <1>0, <1>1 DEF Sampling, Received, recv_baud_clk
<1>4. typed \in Byte /\ typed' \in Byte
  BY <1>1 DEF TypingTypes
<1>5. k = DATA_BITS + 1
  BY <1>0, <1>1, <1>2, <1>4, StartBitOut
<1>6. recv_buf_data' = typed
  BY <1>2, <1>4, <1>5, ByteReceived DEF Complete
<1>7. bit = LAST_BIT
  <2>1. bit \in 1 .. LAST_BIT /\ period \in TypingPeriods /\ ticks \in 0 .. period - 1
    BY <1>1, <1>3, Widths DEF TypingTypes
  <2>2. SampleClock(k) \in Nat
    BY <1>5, SampleClocks, Widths
  <2>3. (bit - 1) * period + (period - 1 - ticks) = SampleClock(k)
    BY <1>2, <1>3, <2>2 DEF TypingClock
  <2>4. bit = k + 1
    BY <2>1, <2>3, SampleSeesBit
  <2> QED
    BY <1>5, <2>4, Widths
<1>8. Waiting'
  <2>1. CASE FrameEnds
    <3>1. bit' = 0 \/ NewFrame
      BY <1>1, <2>1, TypingBetween
    <3> QED
      BY <3>1 DEF Waiting, NewFrame
  <2>2. CASE ~FrameEnds
    <3>1. bit' \in {bit, bit + 1} /\ bit' \in 0 .. LAST_BIT
      BY <1>1, <1>3, <2>2, TypingGoesOn DEF TypingTypes
    <3>2. bit' = LAST_BIT
      BY <1>7, <3>1, Widths
    <3> QED
      BY <3>2 DEF Waiting
  <2> QED
    BY <2>1, <2>2
<1>9. recv_divcnt' \in Int
  BY <1>1 DEF Complete
<1> QED
  BY <1>0, <1>1, <1>3, <1>4, <1>6, <1>8, <1>9 DEF ReceiverInv, Line

-------------------------------------------------------------------------------
(* What a program receives. *)

\* A clock of the receiver, without a byte that is complete or with it.
LEMMA ReceiverStep ==
  ASSUME ReceiverInv, TypingClk, NEW rd \in BOOLEAN, ReceiverClk(RXD, rd)
  PROVE  /\ ReceiverInv'
         /\ \/ /\ ~Received
               /\ UNCHANGED recv_buf_data
               /\ recv_state' = 1 => recv_state = 1 \/ recv_divcnt' = half_baud_init
               /\ LineGoesOn
            \/ /\ Received
               /\ recv_state = 1 /\ recv_state' = 0 /\ recv_divcnt < 0
               /\ recv_buf_data' = typed
               /\ Line = typed /\ typed \in Byte
               /\ Line' \in Byte \cup {None}
<1>1. CASE WaitStart(RXD)
  <2>1. recv_state = 0 /\ ~Received
    BY <1>1 DEF WaitStart, Received
  <2> QED
    BY <1>1, <2>1, WaitStep
<1>2. CASE CountDown
  <2>1. recv_state = 1 /\ ~Received
    BY <1>2 DEF CountDown, Received
  <2> QED
    BY <1>2, <2>1, CountStep
<1>3. CASE Sample(RXD)
  <2>1. recv_state = 1 /\ ~Received
    BY <1>3 DEF Sample
  <2> QED
    BY <1>3, <2>1, SampleStep
<1>4. CASE Complete
  <2>1. Received /\ recv_state = 1 /\ recv_divcnt < 0
    BY <1>4 DEF Complete, Received, recv_baud_clk
  <2> QED
    BY <1>4, <2>1, CompleteStep
<1> QED
  BY <1>1, <1>2, <1>3, <1>4 DEF ReceiverClk

\* The invariant of the direction "in" is that of the receiver and what a program sees.
LEMMA TypingParts ==
  TypingInv <=> /\ ReceiverInv
                /\ recv_buf_data \in Byte
                /\ recv_buf_valid \in BOOLEAN /\ brk \in BOOLEAN
                /\ BreakInTime
BY DEF TypingInv, ReceiverInv, TypingTypes

\* A byte takes its time, so a control-C has gone before the next byte is there.
LEMMA BreakStep ==
  ASSUME TypingInv, NEW rd \in BOOLEAN, Typing(rd)
  PROVE  TypingInv'
<1>1. /\ ReceiverInv /\ BreakInTime /\ recv_buf_data \in Byte
      /\ recv_buf_valid \in BOOLEAN /\ brk \in BOOLEAN
  BY TypingParts
<1>2. /\ ReceiverClk(RXD, rd) /\ TypingClk
      /\ recv_buf_valid' = (Received \/ (recv_buf_valid /\ ~rd /\ ~brk))
      /\ brk' = (recv_buf_valid /\ recv_buf_data = CTRL_C)
  BY DEF Typing, ReceiverClk, Valid, Break
<1>3. recv_buf_valid' \in BOOLEAN /\ brk' \in BOOLEAN
  BY <1>2
<1>4. recv_buf_valid' <=> Received \/ (recv_buf_valid /\ ~rd /\ ~brk)
  BY <1>2
<1>5. brk' <=> recv_buf_valid /\ recv_buf_data = CTRL_C
  BY <1>2
<1>6. half_baud_init \in Nat /\ half_baud_init' = half_baud_init /\ CTRL_C' = CTRL_C
  BY Widths DEF half_baud_init, CTRL_C
<1>7. CASE /\ ~Received
           /\ ReceiverInv'
           /\ UNCHANGED recv_buf_data
           /\ recv_state' = 1 => recv_state = 1 \/ recv_divcnt' = half_baud_init
  <2>1. BreakInTime'
    BY <1>1, <1>4, <1>5, <1>6, <1>7 DEF BreakInTime
  <2> QED
    BY <1>1, <1>3, <1>7, <2>1 DEF TypingInv, ReceiverInv, TypingTypes
<1>8. CASE /\ Received
           /\ ReceiverInv'
           /\ recv_state = 1 /\ recv_state' = 0 /\ recv_divcnt < 0
           /\ recv_buf_data' = typed /\ typed \in Byte
  <2>1. ~(recv_buf_valid /\ recv_buf_data = CTRL_C)
    BY <1>1, <1>6, <1>8 DEF BreakInTime
  <2>2. BreakInTime'
    BY <1>5, <1>8, <2>1 DEF BreakInTime
  <2> QED
    BY <1>3, <1>8, <2>2 DEF TypingInv, ReceiverInv, TypingTypes
<1> QED
  BY <1>1, <1>2, <1>7, <1>8, ReceiverStep

Box == IF recv_buf_valid THEN recv_buf_data ELSE None

\* Each step of the direction "in" is one of the link: a byte under way, its arrival, a read.
LEMMA TypingRefines ==
  ASSUME TypingInv, NEW rd \in BOOLEAN, Typing(rd)
  PROVE  InLink!Next
<1>1. /\ ReceiverInv /\ BreakInTime /\ recv_buf_data \in Byte
      /\ recv_buf_valid \in BOOLEAN /\ brk \in BOOLEAN
  BY TypingParts
<1>2. /\ ReceiverClk(RXD, rd) /\ TypingClk
      /\ recv_buf_valid' = (Received \/ (recv_buf_valid /\ ~rd /\ ~brk))
      /\ io_rdata' = IF rd /\ recv_buf_valid THEN recv_buf_data ELSE None
  BY DEF Typing, ReceiverClk, Valid
<1>3. recv_buf_valid' <=> Received \/ (recv_buf_valid /\ ~rd /\ ~brk)
  BY <1>2
<1>4. CASE ~Received /\ UNCHANGED recv_buf_data /\ LineGoesOn
  <2>1. InLink!MaySend
    BY <1>4 DEF InLink!MaySend, LineGoesOn, Line
  <2>2. CASE rd /\ recv_buf_valid
    <3>1. InLink!Read
      BY <1>2, <1>3, <1>4, <2>1, <2>2 DEF InLink!Read
    <3> QED
      BY <3>1 DEF InLink!Next
  <2>3. CASE ~rd /\ recv_buf_valid /\ brk
    <3>1. recv_buf_data = CTRL_C
      BY <1>1, <2>3 DEF BreakInTime
    <3>2. InLink!Discard
      BY <1>2, <1>3, <1>4, <2>1, <2>3, <3>1 DEF InLink!Discard
    <3> QED
      BY <3>2 DEF InLink!Next
  <2>4. CASE ~recv_buf_valid \/ (~rd /\ ~brk)
    <3>1. InLink!Keep
      BY <1>2, <1>3, <1>4, <2>1, <2>4 DEF InLink!Keep
    <3> QED
      BY <3>1 DEF InLink!Next
  <2> QED
    BY <2>2, <2>3, <2>4
<1>5. CASE /\ Received
           /\ recv_buf_data' = typed
           /\ Line = typed /\ typed \in Byte
           /\ Line' \in Byte \cup {None}
  <2>1. typed # None
    BY <1>5, TypingAssumption
  <2>2. InLink!Arrive
    BY <1>2, <1>3, <1>5, <2>1 DEF InLink!Arrive, Line
  <2> QED
    BY <2>2 DEF InLink!Next
<1> QED
  BY <1>1, <1>2, <1>4, <1>5, ReceiverStep

-------------------------------------------------------------------------------
(* The register of the transmitter. *)

\* The register of the transmitter, bit by bit.
LEMMA ShiftedType ==
  ASSUME NEW c \in Byte, NEW k \in 0 .. DATA_BITS + 1, Shifted(c, k)
  PROVE  /\ send_pattern \in Seq({0, 1}) /\ Len(send_pattern) = LAST_BIT
         /\ \A i \in 1 .. LAST_BIT :
               send_pattern[i] = IF i + k <= LAST_BIT THEN FrameBit(c, i + k) ELSE 0
<1>1. DATA_BITS \in Nat /\ k \in Nat /\ LAST_BIT = DATA_BITS + 2
  BY Widths
<1>2. ASSUME NEW i \in 1 .. LAST_BIT
      PROVE  send_pattern[i] = IF i + k <= LAST_BIT THEN FrameBit(c, i + k) ELSE 0
  BY DEF Shifted
<1>3. ASSUME NEW i \in 1 .. LAST_BIT
      PROVE  send_pattern[i] \in {0, 1}
  <2>1. CASE i + k <= LAST_BIT
    <3>1. i + k \in 1 .. LAST_BIT
      BY <1>1, <2>1
    <3>2. FrameBit(c, i + k) \in {0, 1}
      BY <3>1, FrameBitType
    <3> QED
      BY <1>2, <2>1, <3>2
  <2> QED
    BY <1>2, <2>1
<1>4. send_pattern = [i \in 1 .. LAST_BIT |-> send_pattern[i]]
  BY DEF Shifted
<1>5. send_pattern \in [1 .. LAST_BIT -> {0, 1}]
  BY <1>3, <1>4
<1> QED
  BY <1>1, <1>2, <1>5

\* After k shifts bit k is on the wire, and the transmitter is busy until the stop
\* bit is.
LEMMA ShiftedShows ==
  ASSUME NEW c \in Byte, NEW k \in 0 .. DATA_BITS + 1, Shifted(c, k)
  PROVE  /\ tx = FrameBit(c, k + 1)
         /\ busy <=> k <= DATA_BITS
<1>1. DATA_BITS \in Nat \ {0} /\ k \in Nat /\ LAST_BIT = DATA_BITS + 2 /\ 1 \in 1 .. LAST_BIT
  BY Widths
<1>2. \A i \in 1 .. LAST_BIT :
         send_pattern[i] = IF i + k <= LAST_BIT THEN FrameBit(c, i + k) ELSE 0
  BY ShiftedType
<1>3. tx = FrameBit(c, k + 1)
  <2>1. 1 + k <= LAST_BIT /\ 1 + k = k + 1
    BY <1>1
  <2> QED
    BY <1>1, <1>2, <2>1 DEF tx
<1>4. ASSUME k <= DATA_BITS PROVE busy
  <2>1. LAST_BIT - k \in 2 .. DATA_BITS + 2 /\ LAST_BIT - k \in 1 .. LAST_BIT
        /\ (LAST_BIT - k) + k = LAST_BIT
    BY <1>1, <1>4
  <2>2. send_pattern[LAST_BIT - k] = FrameBit(c, LAST_BIT)
    BY <1>1, <1>2, <2>1
  <2>3. FrameBit(c, LAST_BIT) = 1
    BY <1>1 DEF FrameBit
  <2> QED
    BY <2>1, <2>2, <2>3 DEF busy
<1>5. ASSUME ~(k <= DATA_BITS) PROVE ~busy
  <2>1. \A i \in 2 .. DATA_BITS + 2 : i \in 1 .. LAST_BIT /\ ~(i + k <= LAST_BIT)
    BY <1>1, <1>5
  <2>2. \A i \in 2 .. DATA_BITS + 2 : send_pattern[i] = 0
    BY <1>2, <2>1
  <2> QED
    BY <2>2 DEF busy
<1> QED
  BY <1>3, <1>4, <1>5

\* The transmitter shifts the next bit of the frame out.
LEMMA ShiftOut ==
  ASSUME NEW c \in Byte, NEW k \in 0 .. DATA_BITS, Shifted(c, k),
         send_pattern' = Append(Tail(send_pattern), 0)
  PROVE  Shifted(c, k + 1)'
<1>1. DATA_BITS \in Nat /\ k \in Nat /\ k \in 0 .. DATA_BITS + 1
      /\ LAST_BIT = DATA_BITS + 2 /\ LAST_BIT \in Nat /\ LAST_BIT > 0
  BY Widths
<1>2. /\ send_pattern \in Seq({0, 1}) /\ Len(send_pattern) = LAST_BIT
      /\ \A i \in 1 .. LAST_BIT :
            send_pattern[i] = IF i + k <= LAST_BIT THEN FrameBit(c, i + k) ELSE 0
  BY <1>1, ShiftedType
<1>3. send_pattern' = [i \in 1 .. LAST_BIT |->
                         IF i < LAST_BIT THEN send_pattern[i + 1] ELSE 0]
  <2>1. Len(send_pattern) > 0 /\ 0 \in {0, 1}
    BY <1>1, <1>2
  <2>2. Append(Tail(send_pattern), 0) =
          [i \in 1 .. Len(send_pattern) |->
             IF i < Len(send_pattern) THEN send_pattern[i + 1] ELSE 0]
    BY <1>2, <2>1, ShiftIn
  <2> QED
    BY <1>2, <2>2
<1>4. ASSUME NEW i \in 1 .. LAST_BIT
      PROVE  (IF i < LAST_BIT THEN send_pattern[i + 1] ELSE 0)
             = IF i + (k + 1) <= LAST_BIT THEN FrameBit(c, i + (k + 1)) ELSE 0
  <2>1. CASE i < LAST_BIT
    <3>1. i + 1 \in 1 .. LAST_BIT /\ (i + 1) + k = i + (k + 1)
      BY <1>1, <2>1
    <3> QED
      BY <1>2, <2>1, <3>1
  <2>2. CASE i = LAST_BIT
    BY <1>1, <2>2
  <2> QED
    BY <1>1, <2>1, <2>2
<1>5. send_pattern' = [i \in 1 .. LAST_BIT |->
                         IF i + (k + 1) <= LAST_BIT THEN FrameBit(c, i + (k + 1)) ELSE 0]
  BY <1>3, <1>4
<1> QED
  BY <1>5 DEF Shifted

\* A store fills it.
LEMMA StoreFills ==
  ASSUME NEW c \in Byte
  PROVE  <<0>> \o c \o <<1>> =
            [i \in 1 .. LAST_BIT |-> IF i + 0 <= LAST_BIT THEN FrameBit(c, i + 0) ELSE 0]
<1>1. DATA_BITS \in Nat \ {0} /\ LAST_BIT = DATA_BITS + 2
  BY Widths
<1> DEFINE f == <<0>> \o c \o <<1>>
<1>2. c \in Seq({0, 1}) /\ Len(c) = DATA_BITS
  BY <1>1 DEF Byte
<1>3. f \in Seq({0, 1}) /\ Len(f) = LAST_BIT
      /\ \A i \in 1 .. LAST_BIT : f[i] = IF i = 1 THEN 0 ELSE IF i = LAST_BIT THEN 1 ELSE c[i - 1]
  BY <1>1, <1>2
<1> HIDE DEF f
<1>4. f = [i \in 1 .. LAST_BIT |-> f[i]]
  <2>1. f \in [1 .. LAST_BIT -> {0, 1}]
    BY <1>3
  <2> QED
    BY <2>1
<1>5. \A i \in 1 .. LAST_BIT : f[i] = IF i + 0 <= LAST_BIT THEN FrameBit(c, i + 0) ELSE 0
  <2>1. \A i \in 1 .. LAST_BIT : i + 0 = i /\ i <= LAST_BIT
    BY <1>1
  <2> QED
    BY <1>3, <2>1 DEF FrameBit
<1>6. f = [i \in 1 .. LAST_BIT |-> IF i + 0 <= LAST_BIT THEN FrameBit(c, i + 0) ELSE 0]
  BY <1>4, <1>5
<1> QED
  BY <1>6 DEF f

\* At the end it is as it powers up.
LEMMA FrameShiftedOut ==
  ASSUME NEW c \in Byte
  PROVE  Shifted(c, DATA_BITS + 1) <=>
            send_pattern = [i \in 1 .. LAST_BIT |-> IF i = 1 THEN 1 ELSE 0]
<1>1. DATA_BITS \in Nat \ {0} /\ LAST_BIT = DATA_BITS + 2
  BY Widths
<1>2. ASSUME NEW i \in 1 .. LAST_BIT
      PROVE  (IF i + (DATA_BITS + 1) <= LAST_BIT THEN FrameBit(c, i + (DATA_BITS + 1)) ELSE 0)
             = IF i = 1 THEN 1 ELSE 0
  <2>1. CASE i = 1
    <3>1. i + (DATA_BITS + 1) = LAST_BIT /\ LAST_BIT # 1
      BY <1>1, <2>1
    <3> QED
      BY <1>1, <2>1, <3>1 DEF FrameBit
  <2>2. CASE i # 1
    <3>1. ~(i + (DATA_BITS + 1) <= LAST_BIT)
      BY <1>1, <2>2
    <3> QED
      BY <2>2, <3>1
  <2> QED
    BY <2>1, <2>2
<1> QED
  BY <1>2 DEF Shifted

-------------------------------------------------------------------------------
(* A clock of the transmitter. *)

\* Where a clock of the frame belongs.
LEMMA FrameClocks ==
  /\ FRAME \in Nat
  /\ \A k \in 0 .. DATA_BITS, m \in 0 .. divider + 1 :
        /\ k * (divider + 2) \in Nat
        /\ (k + 1) * (divider + 2) = k * (divider + 2) + (divider + 2)
        /\ k * (divider + 2) + (divider + 2) <= FRAME
        /\ k * (divider + 2) + m < FRAME
<1>1. FRAME \in Nat
  BY Widths DEF FRAME
<1>2. ASSUME NEW k \in 0 .. DATA_BITS, NEW m \in 0 .. divider + 1
      PROVE  /\ k * (divider + 2) \in Nat
             /\ (k + 1) * (divider + 2) = k * (divider + 2) + (divider + 2)
             /\ k * (divider + 2) + (divider + 2) <= FRAME
             /\ k * (divider + 2) + m < FRAME
  <2> DEFINE e == k * (divider + 2)
  <2>1. divider + 2 \in Nat /\ k \in Nat /\ DATA_BITS + 1 \in Nat /\ k < DATA_BITS + 1
    BY Widths
  <2>2. e \in Nat /\ (k + 1) * (divider + 2) = e + (divider + 2)
        /\ e + (divider + 2) <= FRAME
    BY <2>1, LaterSlot DEF FRAME
  <2> HIDE DEF e
  <2>3. e + m < FRAME
    BY <1>1, <2>1, <2>2, Widths
  <2> QED
    BY <2>2, <2>3 DEF e
<1> QED
  BY <1>1, <1>2

\* Unless there is a store, the frame goes on.
LEMMA TransmitterStep ==
  ASSUME NEW c \in Byte, NEW a \in Nat, Transmitting(c, a), send_divcnt \in Int,
         TransmitterClk(FALSE, None)
  PROVE  /\ Transmitting(c, a + 1)' /\ send_divcnt' \in Int
         /\ busy <=> a < FRAME
<1>1. /\ FRAME \in Nat /\ DATA_BITS \in Nat \ {0} /\ divider \in Nat \ {0}
      /\ FRAME' = FRAME
  BY FrameClocks, Widths DEF FRAME
<1>2. /\ send_pattern' = IF send_baud_clk /\ busy THEN Append(Tail(send_pattern), 0)
                         ELSE send_pattern
      /\ send_divcnt' = IF send_baud_clk THEN divider ELSE send_divcnt - 1
      /\ send_baud_clk <=> send_divcnt < 0
  BY DEF TransmitterClk, send_baud_clk, baud_init
<1>3. send_divcnt' \in Int
  BY <1>1, <1>2
<1>4. CASE a < FRAME
  <2>1. PICK k \in 0 .. DATA_BITS, m \in 0 .. divider + 1 :
           /\ a = k * (divider + 2) + m
           /\ send_divcnt = divider - m
           /\ Shifted(c, k)
    BY <1>4 DEF Transmitting
  <2> DEFINE e == k * (divider + 2)
  <2>2. k \in 0 .. DATA_BITS + 1 /\ k \in Nat /\ k <= DATA_BITS
    BY <1>1
  <2>3. busy
    BY <2>1, <2>2, ShiftedShows
  <2>4. /\ e \in Nat /\ (k + 1) * (divider + 2) = e + (divider + 2)
        /\ e + (divider + 2) <= FRAME
    BY FrameClocks, <1>1
  <2>5. a = e + m
    BY <2>1
  <2> HIDE DEF e
  <2>6. CASE m < divider + 1
    <3>1. /\ send_divcnt' = divider - (m + 1) /\ send_pattern' = send_pattern
          /\ m + 1 \in 0 .. divider + 1
          /\ a + 1 = e + (m + 1) /\ a + 1 < FRAME
      BY <1>1, <1>2, <2>1, <2>4, <2>5, <2>6
    <3>2. Shifted(c, k)'
      BY <2>1, <3>1 DEF Shifted
    <3> QED
      BY <1>1, <1>3, <1>4, <2>3, <3>1, <3>2 DEF Transmitting, e
  <2>7. CASE m = divider + 1
    <3>1. /\ send_divcnt' = divider - 0
          /\ send_pattern' = Append(Tail(send_pattern), 0)
          /\ a + 1 = e + (divider + 2)
      BY <1>1, <1>2, <2>1, <2>3, <2>4, <2>5, <2>7
    <3>2. Shifted(c, k + 1)'
      BY <2>1, <3>1, ShiftOut
    <3>3. CASE k < DATA_BITS
      <4>1. /\ k + 1 \in 0 .. DATA_BITS /\ 0 \in 0 .. divider + 1
            /\ a + 1 = (k + 1) * (divider + 2) + 0
        BY <1>1, <2>2, <2>4, <3>1, <3>3
      <4>2. a + 1 < FRAME
        BY <4>1, FrameClocks
      <4> QED
        BY <1>1, <1>3, <1>4, <2>3, <3>1, <3>2, <4>1, <4>2 DEF Transmitting
    <3>4. CASE k = DATA_BITS
      <4>1. a + 1 = FRAME
        BY <2>4, <3>1, <3>4 DEF FRAME
      <4>2. ~(a + 1 < FRAME)
        BY <1>1, <4>1
      <4>3. Shifted(c, DATA_BITS + 1)'
        BY <3>2, <3>4
      <4>4. Transmitting(c, a + 1)'
        BY <1>1, <4>2, <4>3 DEF Transmitting
      <4> QED
        BY <1>3, <1>4, <2>3, <4>4
    <3> QED
      BY <1>1, <2>2, <3>3, <3>4
  <2> QED
    BY <1>1, <2>6, <2>7
<1>5. CASE ~(a < FRAME)
  <2>1. Shifted(c, DATA_BITS + 1)
    BY <1>5 DEF Transmitting
  <2>2. DATA_BITS + 1 \in 0 .. DATA_BITS + 1 /\ ~(DATA_BITS + 1 <= DATA_BITS)
    BY <1>1
  <2>3. ~busy
    BY <2>1, <2>2, ShiftedShows
  <2>4. send_pattern' = send_pattern
    BY <1>2, <2>3
  <2>5. Shifted(c, DATA_BITS + 1)'
    BY <2>1, <2>4 DEF Shifted
  <2>6. ~(a + 1 < FRAME)
    BY <1>1, <1>5
  <2> QED
    BY <1>1, <1>3, <1>5, <2>3, <2>5, <2>6 DEF Transmitting
<1> QED
  BY <1>4, <1>5

\* Bit j is on the wire in its time, the stop bit until the next store.
LEMMA BitShows ==
  ASSUME NEW c \in Byte, NEW a \in Nat, Transmitting(c, a)
  PROVE  /\ \A j \in 0 .. DATA_BITS :
              j * (divider + 2) <= a /\ a < (j + 1) * (divider + 2) => tx = FrameBit(c, j + 1)
         /\ a >= FRAME => tx = 1 /\ Shifted(c, DATA_BITS + 1)
<1>1. FRAME \in Nat /\ DATA_BITS \in Nat \ {0} /\ divider \in Nat \ {0} /\ divider + 2 \in Nat
  BY FrameClocks, Widths
<1>2. ASSUME NEW j \in 0 .. DATA_BITS, j * (divider + 2) <= a, a < (j + 1) * (divider + 2)
      PROVE  tx = FrameBit(c, j + 1)
  <2>1. /\ j * (divider + 2) \in Nat
        /\ (j + 1) * (divider + 2) = j * (divider + 2) + (divider + 2)
        /\ j * (divider + 2) + (divider + 2) <= FRAME
    BY FrameClocks, <1>1
  <2>2. a < FRAME
    BY <1>1, <1>2, <2>1
  <2>3. PICK k \in 0 .. DATA_BITS, m \in 0 .. divider + 1 :
           a = k * (divider + 2) + m /\ Shifted(c, k)
    BY <2>2 DEF Transmitting
  <2>4. k = j
    <3>1. j \in Nat /\ k \in Nat /\ m \in 0 .. (divider + 2) - 1
      BY <1>1
    <3> QED
      BY <1>1, <1>2, <2>1, <2>3, <3>1, SameSlot
  <2>5. k \in 0 .. DATA_BITS + 1
    BY <1>1
  <2> QED
    BY <2>3, <2>4, <2>5, ShiftedShows
<1>3. ASSUME a >= FRAME
      PROVE  tx = 1 /\ Shifted(c, DATA_BITS + 1)
  <2>1. Shifted(c, DATA_BITS + 1)
    BY <1>1, <1>3 DEF Transmitting
  <2>2. DATA_BITS + 1 \in 0 .. DATA_BITS + 1 /\ (DATA_BITS + 1) + 1 = LAST_BIT /\ LAST_BIT # 1
    BY <1>1, Widths
  <2>3. tx = FrameBit(c, LAST_BIT)
    BY <2>1, <2>2, ShiftedShows
  <2> QED
    BY <2>1, <2>2, <2>3 DEF FrameBit
<1> QED
  BY <1>2, <1>3

-------------------------------------------------------------------------------
(* The host that reads. *)

\* Its sample j comes while bit j is on the wire.
LEMMA HostSamples ==
  ASSUME NEW p \in ReadingPeriods
  PROVE  /\ p \in Nat \ {0} /\ p \div 2 \in Nat \ {0}
         /\ \A j \in 0 .. DATA_BITS :
              /\ j * (divider + 2) <= p \div 2 + j * p
              /\ p \div 2 + j * p < (j + 1) * (divider + 2)
              /\ p \div 2 + j * p < FRAME
              /\ j * p \in Nat
              /\ (j + 1) * p = j * p + p
<1>1. p \in Nat \ {0} /\ p \div 2 \in Nat /\ DATA_BITS \in Nat \ {0}
  BY ReadingAssumption, Widths
<1>2. \A j \in 0 .. DATA_BITS :
         /\ j * (divider + 2) <= p \div 2 + j * p
         /\ p \div 2 + j * p < (j + 1) * (divider + 2)
  BY ReadingAssumption
<1>3. p \div 2 \in Nat \ {0}
  <2> SUFFICES ASSUME p \div 2 = 0 PROVE FALSE
    BY <1>1
  <2>1. p = 1
    BY <1>1
  <2>2. 1 * (divider + 2) <= p \div 2 + 1 * p
    BY <1>1, <1>2
  <2> QED
    BY <2>1, <2>2, Widths
<1>4. ASSUME NEW j \in 0 .. DATA_BITS
      PROVE  p \div 2 + j * p < FRAME /\ j * p \in Nat /\ (j + 1) * p = j * p + p
  <2> DEFINE e == j * p
             h == p \div 2
             f == j * (divider + 2)
  <2>1. j \in Nat /\ p \in Nat /\ FRAME \in Nat /\ divider \in Nat /\ 0 \in 0 .. divider + 1
    BY <1>1, FrameClocks, Widths
  <2>2. e \in Nat /\ (j + 1) * p = e + p /\ h \in Nat
    BY <1>1, <2>1
  <2>3. f \in Nat /\ (j + 1) * (divider + 2) = f + (divider + 2) /\ f + (divider + 2) <= FRAME
    BY <2>1, FrameClocks
  <2>4. h + e < (j + 1) * (divider + 2)
    BY <1>2
  <2> HIDE DEF e, h, f
  <2>5. h + e < FRAME
    BY <2>1, <2>2, <2>3, <2>4
  <2> QED
    BY <2>2, <2>5 DEF e, h
<1> QED
  BY <1>1, <1>2, <1>3, <1>4

\* Its last sample is of the last bit, and no stop bit is on the wire.
LEMMA HostSamplesLast ==
  ASSUME NEW p \in ReadingPeriods, NEW a \in Nat, a = p \div 2 + DATA_BITS * p
  PROVE  DATA_BITS * (divider + 2) < a + 1 /\ a + 1 <= FRAME
<1> DEFINE e == DATA_BITS * p
           h == p \div 2
           f == DATA_BITS * (divider + 2)
<1>1. DATA_BITS \in 0 .. DATA_BITS /\ 0 \in 0 .. divider + 1 /\ FRAME \in Nat
  BY Widths, FrameClocks
<1>2. e \in Nat /\ h \in Nat /\ f \in Nat /\ f <= h + e /\ h + e < FRAME
  BY <1>1, HostSamples, FrameClocks
<1>3. a = h + e
  OBVIOUS
<1> HIDE DEF e, h, f
<1>4. f < a + 1 /\ a + 1 <= FRAME
  BY <1>1, <1>2, <1>3
<1> QED
  BY <1>4 DEF f

\* While the host listens the stop bit has not been on the wire for a whole clock.
LEMMA ListeningEnds ==
  ASSUME NEW c \in Byte, NEW a \in Nat, Listening(c, a)
  PROVE  a <= FRAME
<1>1. FRAME \in Nat
  BY FrameClocks
<1>2. CASE /\ period \in ReadingPeriods
           /\ ticks >= 0
           /\ ticks = period \div 2 + Len(taken) * period - a
           /\ Len(taken) \in 0 .. DATA_BITS
  <2> DEFINE h == period \div 2
             e == Len(taken) * period
  <2>1. h \in Nat /\ e \in Nat /\ h + e < FRAME
    BY <1>2, HostSamples
  <2>2. ticks = h + e - a /\ ticks >= 0
    BY <1>2
  <2> HIDE DEF h, e
  <2> QED
    BY <1>1, <2>1, <2>2
<1> QED
  BY <1>1, <1>2 DEF Listening

\* The last bit of a byte is on the wire before its stop bit.
LEMMA LastBitShows ==
  ASSUME NEW c \in Byte, NEW a \in Nat, Transmitting(c, a), DATA_BITS * (divider + 2) <= a
  PROVE  tx = IF a < FRAME THEN c[DATA_BITS] ELSE 1
<1>1. DATA_BITS \in Nat \ {0} /\ DATA_BITS \in 0 .. DATA_BITS /\ FRAME \in Nat
  BY Widths, FrameClocks
<1>2. CASE a < FRAME
  <2>1. a < (DATA_BITS + 1) * (divider + 2)
    BY <1>2 DEF FRAME
  <2>2. tx = FrameBit(c, DATA_BITS + 1)
    BY <1>1, <2>1, BitShows
  <2>3. DATA_BITS + 1 # 1 /\ DATA_BITS + 1 # LAST_BIT /\ (DATA_BITS + 1) - 1 = DATA_BITS
    BY <1>1, Widths
  <2> QED
    BY <1>2, <2>2, <2>3 DEF FrameBit
<1>3. CASE ~(a < FRAME)
  BY <1>1, <1>3, BitShows
<1> QED
  BY <1>2, <1>3

\* What it has taken of a frame is the byte, and the start bit before it.
LEMMA TakenIsTheByte ==
  ASSUME NEW c \in Byte, taken = [j \in 1 .. DATA_BITS + 1 |-> FrameBit(c, j)]
  PROVE  Len(taken) = DATA_BITS + 1 /\ taken[1] = 0 /\ Tail(taken) = c
<1> DEFINE u == Tail(taken)
<1>1. DATA_BITS \in Nat \ {0} /\ LAST_BIT = DATA_BITS + 2
  BY Widths
<1>2. taken \in [1 .. DATA_BITS + 1 -> {0, 1}]
  <2>1. \A j \in 1 .. DATA_BITS + 1 : j \in 1 .. LAST_BIT
    BY <1>1
  <2> QED
    BY <2>1, FrameBitType
<1>3. taken \in Seq({0, 1}) /\ Len(taken) = DATA_BITS + 1
  BY <1>1, <1>2
<1>4. taken[1] = 0
  BY <1>1 DEF FrameBit
<1>5. Len(u) = DATA_BITS /\ u \in Seq({0, 1}) /\ \A i \in 1 .. DATA_BITS : u[i] = taken[i + 1]
  <2>1. \A s \in Seq({0, 1}) :
           Len(s) = DATA_BITS + 1 =>
              /\ Len(Tail(s)) = DATA_BITS /\ Tail(s) \in Seq({0, 1})
              /\ \A i \in 1 .. DATA_BITS : Tail(s)[i] = s[i + 1]
    BY <1>1
  <2> QED
    BY <1>3, <2>1
<1> HIDE DEF u
<1>6. ASSUME NEW i \in 1 .. DATA_BITS
      PROVE  u[i] = c[i]
  <2>1. i + 1 \in 1 .. DATA_BITS + 1 /\ i + 1 # 1 /\ i + 1 # LAST_BIT /\ (i + 1) - 1 = i
    BY <1>1
  <2>2. taken[i + 1] = FrameBit(c, i + 1)
    BY <2>1
  <2>3. FrameBit(c, i + 1) = c[i]
    BY <2>1 DEF FrameBit
  <2> QED
    BY <1>5, <2>2, <2>3
<1>7. c = [i \in 1 .. DATA_BITS |-> c[i]]
  BY DEF Byte
<1>8. u \in [1 .. DATA_BITS -> {0, 1}]
  BY <1>5
<1>9. u = [i \in 1 .. DATA_BITS |-> u[i]]
  BY <1>8
<1>10. u = c
  BY <1>6, <1>7, <1>9
<1> QED
  BY <1>3, <1>4, <1>10 DEF u

\* While it listens to a frame the next one has not begun: it starts with the start bit,
\* takes each bit as it was printed, and has the whole byte at the end.
LEMMA ListeningStep ==
  ASSUME ~CHECKS_STOP, NEW c \in Byte, NEW a \in Nat, Transmitting(c, a), Listening(c, a), SamplingClk
  PROVE  \/ ~HostDone /\ Listening(c, a + 1)' /\ UNCHANGED received
         \/ HostDone /\ Heard(c, a + 1)' /\ received' = c
<1>1. FRAME \in Nat /\ DATA_BITS \in Nat \ {0} /\ divider \in Nat \ {0} /\ FRAME' = FRAME
  BY FrameClocks, Widths DEF FRAME
<1>2. CASE a = 0 /\ ticks = -1 /\ taken = <<>>
  <2>1. tx = 0
    <3>1. 0 \in 0 .. DATA_BITS /\ 0 * (divider + 2) <= a /\ a < (0 + 1) * (divider + 2)
      BY <1>1, <1>2
    <3>2. tx = FrameBit(c, 0 + 1)
      BY <3>1, BitShows
    <3> QED
      BY <3>2 DEF FrameBit
  <2>2. ~HostDone
    BY <1>2 DEF HostDone
  <2>3. period' \in ReadingPeriods /\ ticks' = period' \div 2 - 1 /\ UNCHANGED <<taken, received>>
    BY <1>2, <2>1, <2>2 DEF SamplingClk, samplingVars
  <2>4. ASSUME NEW p \in ReadingPeriods, p = period'
        PROVE  Listening(c, a + 1)'
    <3>1. p \div 2 \in Nat \ {0} /\ p \in Nat
      BY HostSamples
    <3>2. taken' = <<>> /\ Len(taken') = 0
      BY <1>2, <2>3
    <3>3. ticks' >= 0 /\ ticks' = p \div 2 + 0 * p - (a + 1)
      <4> DEFINE h == p \div 2
      <4>1. 0 * p = 0 /\ h \in Nat \ {0}
        BY <3>1
      <4>2. ticks' = h - 1
        BY <2>3, <2>4
      <4> HIDE DEF h
      <4>3. ticks' >= 0 /\ ticks' = h + 0 - (a + 1)
        BY <1>2, <4>1, <4>2
      <4> QED
        BY <4>1, <4>3 DEF h
    <3>4. taken' = [j \in 1 .. Len(taken') |-> FrameBit(c, j)]
      BY <3>2
    <3>5. Len(taken') \in 0 .. DATA_BITS
      BY <1>1, <3>2
    <3> QED
      BY <2>4, <3>2, <3>3, <3>4, <3>5 DEF Listening
  <2> QED
    BY <2>2, <2>3, <2>4
<1>3. CASE /\ period \in ReadingPeriods
           /\ ticks >= 0
           /\ ticks = period \div 2 + Len(taken) * period - a
           /\ Len(taken) \in 0 .. DATA_BITS
           /\ taken = [j \in 1 .. Len(taken) |-> FrameBit(c, j)]
  <2> DEFINE n == Len(taken)
             h == period \div 2
             e == n * period
  <2>1. n \in 0 .. DATA_BITS /\ period \in Nat \ {0}
        /\ h \in Nat /\ e \in Nat /\ (n + 1) * period = e + period
    BY <1>3, HostSamples
  <2>2. ticks = h + e - a /\ ticks >= 0
    BY <1>3
  <2>3. \A j \in 1 .. n : taken[j] = FrameBit(c, j)
    BY <1>3
  <2>4. \A j \in 1 .. n : FrameBit(c, j) \in {0, 1}
    <3>1. \A j \in 1 .. n : j \in 1 .. LAST_BIT
      BY <1>1, <2>1, Widths
    <3> QED
      BY <3>1, FrameBitType
  <2>5. taken \in Seq({0, 1})
    <3>1. taken \in [1 .. n -> {0, 1}]
      BY <1>3, <2>4
    <3>2. n \in Nat
      BY <1>1, <2>1
    <3> QED
      BY <3>1, <3>2
  <2>6. ~HostDone /\ n # DATA_BITS + 1
    BY <1>1, <2>1 DEF HostDone
  <2> HIDE DEF h, e
  <2>7. CASE ticks > 0
    <3>1. ticks # -1 /\ ticks # 0
      BY <2>7
    <3>2. ticks' = ticks - 1 /\ UNCHANGED <<period, taken, received>>
      BY <2>6, <3>1 DEF SamplingClk, samplingVars
    <3>3. ticks' = h + e - (a + 1) /\ ticks' >= 0
      BY <2>1, <2>2, <2>7, <3>2
    <3>4. Listening(c, a + 1)'
      BY <1>3, <3>2, <3>3 DEF Listening, h, e
    <3> QED
      BY <2>6, <3>2, <3>4
  <2>8. CASE ticks = 0
    <3>1. ticks # -1 /\ ~(ticks > 0)
      BY <2>8
    <3>2. /\ taken' = Append(taken, tx) /\ UNCHANGED <<received, period>>
          /\ ticks' = IF n = DATA_BITS THEN 0 ELSE period - 1
      BY <2>6, <2>8, <3>1 DEF SamplingClk
    <3>3. n + 1 \in 1 .. LAST_BIT
      BY <1>1, <2>1, Widths
    <3>4. a = h + e
      BY <2>1, <2>2, <2>8
    <3>5. tx = FrameBit(c, n + 1)
      <4>1. n * (divider + 2) <= a /\ a < (n + 1) * (divider + 2)
        BY <1>3, <2>1, <3>4, HostSamples DEF h, e
      <4> QED
        BY <2>1, <4>1, BitShows
    <3>6. Len(taken') = n + 1
      BY <2>5, <3>2
    <3>7. taken' = [j \in 1 .. n + 1 |-> FrameBit(c, j)]
      <4>1. FrameBit(c, n + 1) \in {0, 1} /\ n \in Nat
        BY <1>1, <2>1, <3>3, FrameBitType
      <4>2. taken' \in Seq({0, 1})
        BY <2>5, <3>2, <3>5, <4>1
      <4>3. \A j \in 1 .. n + 1 : taken'[j] = FrameBit(c, j)
        <5>1. taken'[n + 1] = FrameBit(c, n + 1)
          BY <2>5, <3>2, <3>5
        <5>2. \A j \in 1 .. n : taken'[j] = FrameBit(c, j)
          BY <2>3, <2>5, <3>2
        <5> QED
          BY <4>1, <5>1, <5>2
      <4>4. taken' = [j \in 1 .. n + 1 |-> taken'[j]]
        <5>1. taken' \in [1 .. n + 1 -> {0, 1}]
          BY <3>6, <4>2
        <5> QED
          BY <5>1
      <4> QED
        BY <4>3, <4>4
    <3>8. CASE n # DATA_BITS
      <4>1. n + 1 \in 0 .. DATA_BITS
        BY <1>1, <2>1, <3>8
      <4>2. ticks' >= 0 /\ ticks' = h + (n + 1) * period - (a + 1)
        BY <2>1, <3>2, <3>4, <3>8
      <4>3. Listening(c, a + 1)'
        BY <1>3, <3>2, <3>6, <3>7, <4>1, <4>2 DEF Listening, h
      <4> QED
        BY <2>6, <3>2, <4>3
    <3>9. CASE n = DATA_BITS
      <4>1. DATA_BITS * (divider + 2) < a + 1 /\ a + 1 <= FRAME
        BY <1>3, <3>4, <3>9, HostSamplesLast DEF h, e
      <4>2. ticks' = 0 /\ taken' = [j \in 1 .. DATA_BITS + 1 |-> FrameBit(c, j)]
        BY <3>2, <3>7, <3>9
      <4>3. Listening(c, a + 1)'
        BY <1>1, <4>1, <4>2 DEF Listening
      <4> QED
        BY <2>6, <3>2, <4>3
    <3> QED
      BY <3>8, <3>9
  <2> QED
    BY <2>2, <2>7, <2>8
<1>4. CASE /\ ticks = 0
           /\ DATA_BITS * (divider + 2) < a /\ a <= FRAME
           /\ taken = [j \in 1 .. DATA_BITS + 1 |-> FrameBit(c, j)]
  <2>1. Len(taken) = DATA_BITS + 1 /\ taken[1] = 0 /\ Tail(taken) = c
    BY <1>4, TakenIsTheByte
  <2>2. DATA_BITS * (divider + 2) \in Nat
    BY <1>1
  <2> DEFINE f == DATA_BITS * (divider + 2)
  <2> HIDE DEF f
  <2>3. f \in Nat /\ f < a
    BY <1>4, <2>2 DEF f
  <2>4. f <= a /\ f <= a + 1 /\ f < a + 1
    BY <2>3
  <2>5. tx = IF a < FRAME THEN c[DATA_BITS] ELSE 1
    BY <2>4, LastBitShows DEF f
  <2>6. CASE tx = 1
    <3>1. HostDone
      BY <1>4, <2>1, <2>6 DEF HostDone
    <3>2. received' = c /\ ticks' = -1 /\ taken' = <<>>
      <4>1. ticks # -1 /\ ~(ticks > 0) /\ ~(Len(taken) <= DATA_BITS)
        BY <1>1, <1>4, <2>1
      <4> QED
        BY <2>1, <2>6, <3>1, <4>1 DEF SamplingClk
    <3>3. a + 1 >= FRAME \/ c[DATA_BITS] = 1
      BY <1>1, <2>5, <2>6
    <3>4. Heard(c, a + 1)'
      BY <1>1, <2>4, <3>2, <3>3 DEF Heard, f
    <3> QED
      BY <3>1, <3>2, <3>4
  <2>7. CASE tx # 1
    <3>1. ~HostDone
      BY <2>7 DEF HostDone
    <3>2. UNCHANGED <<ticks, taken, received>>
      BY <1>1, <1>4, <2>1, <3>1 DEF SamplingClk, samplingVars
    <3>3. a + 1 <= FRAME
      BY <1>1, <2>5, <2>7
    <3>4. Listening(c, a + 1)'
      BY <1>1, <1>4, <2>4, <3>2, <3>3 DEF Listening, f
    <3> QED
      BY <3>1, <3>2, <3>4
  <2> QED
    BY <2>6, <2>7
<1> QED
  BY <1>2, <1>3, <1>4 DEF Listening

\* Once it has heard a byte it looks for a start bit, and takes the rest of the frame
\* for none.
LEMMA HeardStep ==
  ASSUME NEW c \in Byte, NEW a \in Nat, Transmitting(c, a), Heard(c, a), SamplingClk
  PROVE  ~HostDone /\ Heard(c, a + 1)' /\ UNCHANGED <<ticks, taken, received>>
<1>1. FRAME \in Nat /\ DATA_BITS * (divider + 2) \in Nat /\ FRAME' = FRAME
  BY FrameClocks, Widths DEF FRAME
<1>2. tx = 1
  BY <1>1, LastBitShows DEF Heard
<1>3. ~HostDone
  BY DEF HostDone, Heard
<1>4. UNCHANGED <<ticks, taken, received>>
  BY <1>2, <1>3 DEF SamplingClk, samplingVars, Heard
<1> DEFINE f == DATA_BITS * (divider + 2)
<1> HIDE DEF f
<1>5. f <= a + 1 /\ (a + 1 >= FRAME \/ c[DATA_BITS] = 1)
  BY <1>1 DEF Heard, f
<1>6. Heard(c, a + 1)'
  BY <1>1, <1>4, <1>5 DEF Heard, f
<1> QED
  BY <1>3, <1>4, <1>6

-------------------------------------------------------------------------------
(* What a program prints. *)

\* A store begins a frame.
LEMMA StoreStep ==
  ASSUME ticks = -1, taken = <<>>, tx = 1, NEW c \in Byte, Printing(TRUE, c)
  PROVE  /\ printed' = c /\ UNCHANGED received
         /\ send_divcnt' \in Int
         /\ Transmitting(c, 0)' /\ Listening(c, 0)'
<1>1. LAST_BIT = DATA_BITS + 2 /\ DATA_BITS \in Nat \ {0} /\ divider \in Nat \ {0}
  BY Widths
<1>2. ~HostDone
  BY DEF HostDone
<1>3. UNCHANGED <<ticks, taken, received>>
  BY <1>2 DEF Printing, SamplingClk, samplingVars
<1>4. send_pattern' = <<0>> \o c \o <<1>> /\ send_divcnt' = divider /\ printed' = c
  BY DEF Printing, TransmitterClk, baud_init
<1>5. Shifted(c, 0)'
  BY <1>4, StoreFills DEF Shifted
<1>6. Transmitting(c, 0)'
  <2>1. 0 \in 0 .. DATA_BITS /\ 0 \in 0 .. divider + 1 /\ 0 = 0 * (divider + 2) + 0
        /\ divider = divider - 0
    BY <1>1
  <2>2. 0 < FRAME
    BY <1>1, <2>1, FrameClocks
  <2>3. FRAME' = FRAME
    BY DEF FRAME
  <2> QED
    BY <1>4, <1>5, <2>1, <2>2, <2>3 DEF Transmitting
<1>7. Listening(c, 0)'
  BY <1>3 DEF Listening
<1> QED
  BY <1>1, <1>3, <1>4, <1>6, <1>7

\* What UART_putchar does in a clock without a store.
PutcharGoesOn ==
    \/ pc = "pcrx" /\ pc' = IF busy THEN "pcrx" ELSE "call"
    \/ UNCHANGED pc

\* UART_putchar does not return before busy has fallen, so what it stores next comes
\* after the stop bit has begun.
LEMMA CalledStep ==
  ASSUME NEW a \in Nat, Called(a), PutcharGoesOn, busy <=> a < FRAME
  PROVE  Called(a + 1)'
<1>1. FRAME \in Nat /\ FRAME' = FRAME
  BY FrameClocks DEF FRAME
<1>2. CASE pc = "pcrx" /\ pc' = IF busy THEN "pcrx" ELSE "call"
  BY <1>1, <1>2 DEF Called
<1>3. CASE UNCHANGED pc
  BY <1>1, <1>3 DEF Called
<1> QED
  BY <1>2, <1>3 DEF PutcharGoesOn

\* A byte under way stays under way, or arrives.
LEMMA FrameStep ==
  ASSUME ~CHECKS_STOP, NEW c \in Byte, NEW a \in Nat, send_divcnt \in Int,
         Transmitting(c, a), Called(a),
         (printed = c /\ Listening(c, a)) \/ (printed = None /\ Heard(c, a)),
         Printing(FALSE, None), PutcharGoesOn
  PROVE  /\ PrintingInv'
         /\ \/ UNCHANGED <<printed, received>>
            \/ printed = c /\ printed' = None /\ received' = printed
<1>1. /\ TransmitterClk(FALSE, None) /\ SamplingClk
      /\ printed' = IF HostDone THEN None ELSE printed
  BY DEF Printing
<1>2. Transmitting(c, a + 1)' /\ send_divcnt' \in Int /\ (busy <=> a < FRAME)
  BY <1>1, TransmitterStep
<1>3. Called(a + 1)' /\ a + 1 \in Nat
  BY <1>2, CalledStep
<1>4. CASE printed = c /\ Listening(c, a)
  <2>1. CASE ~HostDone /\ Listening(c, a + 1)' /\ UNCHANGED received
    <3>1. printed' = c
      BY <1>1, <1>4, <2>1
    <3> QED
      BY <1>2, <1>3, <1>4, <2>1, <3>1 DEF PrintingInv
  <2>2. CASE HostDone /\ Heard(c, a + 1)' /\ received' = c
    <3>1. printed' = None
      BY <1>1, <2>2
    <3> QED
      BY <1>2, <1>3, <1>4, <2>2, <3>1 DEF PrintingInv
  <2> QED
    BY <1>1, <1>4, <2>1, <2>2, ListeningStep
<1>5. CASE printed = None /\ Heard(c, a)
  <2>1. ~HostDone /\ Heard(c, a + 1)' /\ UNCHANGED received
    BY <1>1, <1>5, HeardStep
  <2>2. printed' = None
    BY <1>1, <1>5, <2>1
  <2> QED
    BY <1>2, <1>3, <1>5, <2>1, <2>2 DEF PrintingInv
<1> QED
  BY <1>4, <1>5

\* A store comes when the host has the byte before, and sees the line high.
LEMMA StoreInTime ==
  ASSUME PrintingInv, pc = "call"
  PROVE  printed = None /\ ticks = -1 /\ taken = <<>> /\ tx = 1
<1>1. PICK c \in Byte, a \in Nat :
         /\ Transmitting(c, a)
         /\ Called(a)
         /\ \/ printed = c /\ Listening(c, a)
            \/ printed = None /\ Heard(c, a)
  BY DEF PrintingInv
<1>2. FRAME \in Nat
  BY FrameClocks
<1>3. a > FRAME
  BY <1>1 DEF Called
<1>4. ~Listening(c, a)
  BY <1>2, <1>3, ListeningEnds
<1>5. tx = 1
  BY <1>1, <1>2, <1>3, BitShows
<1> QED
  BY <1>1, <1>4, <1>5 DEF Heard

\* Each step of the direction "out" keeps the invariant, and is one of the link.
LEMMA PrintingStep ==
  ASSUME ~CHECKS_STOP, PrintingInv, \/ \E c \in Byte : Store(c)
                                    \/ Load
                                    \/ OtherInstruction
  PROVE  PrintingInv' /\ OutLink!Next
<1>1. CASE \E c \in Byte : Store(c)
  <2>1. PICK c \in Byte : Store(c)
    BY <1>1
  <2>2. Printing(TRUE, c) /\ pc = "call" /\ pc' = "pcrx"
    BY <2>1 DEF Store
  <2>3. printed = None /\ ticks = -1 /\ taken = <<>> /\ tx = 1
    BY <2>2, StoreInTime
  <2>4. /\ printed' = c /\ UNCHANGED received
        /\ send_divcnt' \in Int
        /\ Transmitting(c, 0)' /\ Listening(c, 0)'
    BY <2>2, <2>3, StoreStep
  <2>5. Called(0)'
    BY <2>2 DEF Called
  <2>6. PrintingInv'
    BY <2>4, <2>5 DEF PrintingInv
  <2>7. OutLink!Keep
    BY <2>3, <2>4 DEF OutLink!Keep, OutLink!MaySend
  <2> QED
    BY <2>6, <2>7 DEF OutLink!Next
<1>2. CASE Load \/ OtherInstruction
  <2>1. Printing(FALSE, None) /\ PutcharGoesOn
    BY <1>2 DEF Load, OtherInstruction, PutcharGoesOn
  <2>2. send_divcnt \in Int
    BY DEF PrintingInv
  <2>3. PICK c \in Byte, a \in Nat :
           /\ Transmitting(c, a)
           /\ Called(a)
           /\ \/ printed = c /\ Listening(c, a)
              \/ printed = None /\ Heard(c, a)
    BY DEF PrintingInv
  <2>4. /\ PrintingInv'
        /\ \/ UNCHANGED <<printed, received>>
           \/ printed = c /\ printed' = None /\ received' = printed
    BY <2>1, <2>2, <2>3, FrameStep
  <2>5. c # None
    BY TypingAssumption
  <2>6. OutLink!Keep \/ OutLink!Arrive
    BY <2>4, <2>5 DEF OutLink!Keep, OutLink!MaySend, OutLink!Arrive
  <2> QED
    BY <2>4, <2>6 DEF OutLink!Next
<1> QED
  BY <1>1, <1>2

-------------------------------------------------------------------------------
(* The specification. *)

\* Both directions start at rest.
LEMMA SerialInit_Inv == Init => SerialInv /\ InLink!Init /\ OutLink!Init
<1> SUFFICES ASSUME Init PROVE SerialInv /\ InLink!Init /\ OutLink!Init
  OBVIOUS
<1>1. CTRL_C \in Byte
  BY DEF CTRL_C, Byte
<1>2. /\ bit = 0 /\ io_rdata = None /\ typed = CTRL_C /\ recv_state = 0 /\ recv_divcnt = 0
      /\ recv_buf_data \in Byte /\ recv_buf_valid = FALSE /\ brk = FALSE
      /\ pc = "call" /\ taken = <<>> /\ printed = None
      /\ send_divcnt \in -1 .. BAUD_MAX
      /\ send_pattern = [i \in 1 .. DATA_BITS + 2 |-> IF i = 1 THEN 1 ELSE 0]
      /\ received = CTRL_C
  BY DEF Init, TypingInit, PrintingInit, ReceiverInit, TransmitterInit
<1>3. ASSUME direction = "in", ticks = 0, period \in TypingPeriods
      PROVE  SerialInv
  <2>1. 0 \in 0 .. LAST_BIT /\ period \in Nat /\ period > 0
    BY <1>3, Widths, LongBits
  <2>2. ticks \in 0 .. period - 1
    BY <1>3, <2>1
  <2>3. Waiting /\ BreakInTime
    BY <1>2 DEF Waiting, BreakInTime
  <2>4. /\ bit \in 0 .. LAST_BIT /\ typed \in Byte
        /\ recv_divcnt \in Int
    BY <1>1, <1>2, <2>1
  <2>5. recv_buf_valid \in BOOLEAN /\ brk \in BOOLEAN
    BY <1>2
  <2>6. TypingInv
    BY <1>2, <1>3, <2>2, <2>3, <2>4, <2>5 DEF TypingInv
  <2> QED
    BY <1>3, <2>6 DEF SerialInv
<1>4. ASSUME direction = "out", ticks = -1
      PROVE  SerialInv
  <2>1. send_divcnt \in Int /\ FRAME \in Nat /\ DATA_BITS \in 0 .. DATA_BITS /\ 0 \in 0 .. divider + 1
    BY <1>2, BaudAssumption, FrameClocks, Widths
  <2>2. Transmitting(CTRL_C, FRAME + 1)
    <3>1. Shifted(CTRL_C, DATA_BITS + 1)
      BY <1>1, <1>2, FrameShiftedOut DEF LAST_BIT
    <3>2. ~(FRAME + 1 < FRAME)
      BY <2>1
    <3> QED
      BY <3>1, <3>2 DEF Transmitting
  <2>3. Called(FRAME + 1)
    BY <2>1 DEF Called
  <2>4. Heard(CTRL_C, FRAME + 1)
    <3> DEFINE f == DATA_BITS * (divider + 2)
    <3>1. f \in Nat /\ f + (divider + 2) <= FRAME /\ divider \in Nat
      BY <2>1, FrameClocks, Widths
    <3> HIDE DEF f
    <3>2. f <= FRAME + 1 /\ FRAME + 1 >= FRAME
      BY <2>1, <3>1
    <3> QED
      BY <1>2, <1>4, <3>2 DEF Heard, f
  <2>5. PrintingInv
    BY <1>1, <1>2, <2>1, <2>2, <2>3, <2>4 DEF PrintingInv
  <2> QED
    BY <1>4, <2>5 DEF SerialInv
<1>5. SerialInv
  BY <1>3, <1>4 DEF Init
<1>6. InLink!Init /\ OutLink!Init
  BY <1>1, <1>2 DEF InLink!Init, OutLink!Init
<1> QED
  BY <1>5, <1>6

\* One of the halves of the UART is at work, the other one rests.
LEMMA SerialStep ==
  SerialInv /\ [Next]_vars =>
     /\ SerialInv'
     /\ [InLink!Next]_InLink!linkVars
     /\ CHECKS_STOP \/ [OutLink!Next]_OutLink!linkVars
<1> DEFINE Linked == /\ SerialInv'
                     /\ [InLink!Next]_InLink!linkVars
                     /\ CHECKS_STOP \/ [OutLink!Next]_OutLink!linkVars
<1> SUFFICES ASSUME SerialInv, [Next]_vars PROVE Linked
  OBVIOUS
<1>1. ASSUME NEW rd \in BOOLEAN, Typing(rd)
      PROVE  Linked
  <2>1. TypingInv /\ direction = "in" /\ direction' = "in"
    BY <1>1 DEF SerialInv, Typing
  <2>2. TypingInv' /\ InLink!Next
    BY <1>1, <2>1, BreakStep, TypingRefines
  <2>3. UNCHANGED <<printed, received>>
    BY <1>1 DEF Typing, printingVars, samplingVars
  <2> QED
    BY <2>1, <2>2, <2>3 DEF SerialInv, OutLink!linkVars
<1>2. ASSUME (\E c \in Byte : Store(c)) \/ Load \/ OtherInstruction
      PROVE  Linked
  <2>1. /\ direction = "out" /\ direction' = "out"
        /\ UNCHANGED <<bit, typed, io_rdata, recv_state, recv_buf_valid, recv_buf_data>>
    BY <1>2 DEF Store, Load, OtherInstruction, Printing, receiverVars, typingVars
  <2>2. CHECKS_STOP \/ (PrintingInv' /\ OutLink!Next)
    BY <1>2, <2>1, PrintingStep DEF SerialInv
  <2> QED
    BY <2>1, <2>2 DEF SerialInv, InLink!linkVars
<1>3. CASE UNCHANGED vars
  <2>1. UNCHANGED <<direction, ticks, period, recv_divcnt, recv_state, recv_pattern, recv_buf_data,
                    recv_buf_valid, brk, bit, typed, io_rdata, send_divcnt, send_pattern,
                    pc, printed, taken, received>>
    BY <1>3 DEF vars, receiverVars, typingVars, transmitterVars, printingVars, samplingVars
  <2>2. TypingInv' = TypingInv
    <3>1. Sampling' = Sampling
      BY <2>1 DEF Sampling, TypingClock, Sampled, SampleClock, half_baud_init, FrameBit
    <3> QED
      BY <2>1, <3>1 DEF TypingInv, Waiting, BreakInTime
  <2>3. PrintingInv' = PrintingInv
    BY <2>1 DEF PrintingInv, Transmitting, Listening, Heard, Called, Shifted
  <2> QED
    BY <2>1, <2>2, <2>3 DEF SerialInv, InLink!linkVars, OutLink!linkVars
<1> QED
  BY <1>1, <1>2, <1>3 DEF Next

\* Receiver and transmitter keep step with the host at the other end, for every divider, width
\* of a byte and clock of the host within the tolerance.
THEOREM SerialInvariant == Spec => []SerialInv
BY SerialInit_Inv, SerialStep, PTL DEF Spec

\* Every byte a host types, whatever its clock within the tolerance and whenever the
\* program reads, arrives as it was typed and is read once.
THEOREM TypedBytesArrive == Spec => ReceivesWhatIsTyped
BY SerialInit_Inv, SerialStep, PTL DEF Spec, ReceivesWhatIsTyped, InLink!Spec

\* Every byte a program prints with UART_putchar, however soon one call follows the
\* other, arrives as it was printed, once and in order, at a host that does not want to
\* see the stop bit in its middle.
THEOREM PrintedBytesArrive ==
  ASSUME ~CHECKS_STOP
  PROVE  Spec => HostReceivesWhatIsPrinted
<1>1. SerialInv /\ [Next]_vars => SerialInv' /\ [OutLink!Next]_OutLink!linkVars
  BY SerialStep
<1> QED
  BY <1>1, SerialInit_Inv, PTL DEF Spec, HostReceivesWhatIsPrinted, OutLink!Spec

-------------------------------------------------------------------------------
(* The displays: the processor, and registers that shift. *)

-------------------------------------------------------------------------------
(* The processor. *)

\* A store comes when the displays are at rest, and the processor goes to wait.
LEMMA ProcessorStep ==
  ASSUME ProcessorWaits, ProcessorClk
  PROVE  /\ state' \in States
         /\ instr' \in Instrs
         /\ io_wstrb => /\ state' = "WAIT_ALU_OR_MEM"
                        /\ ledmtx_bitcount = 0 /\ oled_bitcount = 0
                        /\ instr.bus \in LedmtxStore \cup OledStore \cup {OtherStore}
         /\ state' # "WAIT_ALU_OR_MEM" => ledmtx_bitcount = 0 /\ oled_bitcount = 0
         /\ state' = "FETCH_INSTR" => ~io_wstrb
         /\ state' \in {"WAIT_INSTR", "EXECUTE"} => state \in {"FETCH_INSTR", "WAIT_INSTR"}
<1> USE DEF ProcessorWaits, States, io_wstrb, Executing
<1>1. io_wstrb => instr.bus \in LedmtxStore \cup OledStore \cup {OtherStore}
  <2> DEFINE B == LedmtxStore \cup OledStore \cup {OtherStore}
  <2>1. CASE instr \in [op : {"STORE"}, io : {TRUE}, bus : B]
    BY <2>1
  <2>2. CASE instr = [op |-> "ALU"]
    BY <2>2 DEF isStore
  <2>3. CASE instr = [op |-> "LOAD"]
    BY <2>3 DEF isStore
  <2>4. CASE instr = [op |-> "STORE", io |-> FALSE]
    BY <2>4
  <2> QED
    BY <2>1, <2>2, <2>3, <2>4 DEF Instrs
<1>2. CASE HoldReset
  BY <1>1, <1>2 DEF HoldReset
<1>3. CASE FetchInstr
  BY <1>1, <1>3 DEF FetchInstr
<1>4. ASSUME NEW i \in Instrs, WaitInstr(FALSE, i)
      PROVE  state = "WAIT_INSTR" /\ state' = "EXECUTE" /\ instr' \in Instrs
  BY <1>4 DEF WaitInstr
<1>5. CASE Execute
  BY <1>1, <1>5 DEF Execute, needToWait
<1>6. CASE WaitAluOrMem(FALSE, io_wbusy)
  BY <1>6 DEF WaitAluOrMem, io_wbusy, SSD1351_wbusy, max7219_wbusy, oled_sending, ledmtx_sending
<1> QED
  BY <1>1, <1>2, <1>3, <1>4, <1>5, <1>6 DEF ProcessorClk

-------------------------------------------------------------------------------
(* The LED matrix. *)

\* A register that takes one more bit.
LEMMA TakeOnce ==
  ASSUME NEW n \in Nat \ {0}, NEW f \in [1 .. n -> {0, 1}], NEW b \in {0, 1}
  PROVE  /\ Append(Tail(f), b) \in [1 .. n -> {0, 1}]
         /\ \A i \in 1 .. n : Append(Tail(f), b)[i] = IF i < n THEN f[i + 1] ELSE b
<1>1. f \in Seq({0, 1}) /\ Len(f) = n
  OBVIOUS
<1>2. Append(Tail(f), b) = [i \in 1 .. n |-> IF i < n THEN f[i + 1] ELSE b]
  BY <1>1, ShiftIn
<1>3. ASSUME NEW i \in 1 .. n
      PROVE  (IF i < n THEN f[i + 1] ELSE b) \in {0, 1}
  <2>1. CASE i < n
    <3>1. i + 1 \in 1 .. n
      BY <2>1
    <3>2. f[i + 1] \in {0, 1}
      BY <3>1
    <3> QED
      BY <2>1, <3>2
  <2>2. CASE ~(i < n)
    BY <2>2
  <2> QED
    BY <2>1, <2>2
<1>4. [i \in 1 .. n |-> IF i < n THEN f[i + 1] ELSE b] \in [1 .. n -> {0, 1}]
  BY <1>3
<1>5. \A i \in 1 .. n :
        [j \in 1 .. n |-> IF j < n THEN f[j + 1] ELSE b][i] = IF i < n THEN f[i + 1] ELSE b
  OBVIOUS
<1> QED
  BY <1>2, <1>4, <1>5

\* A register from which n bits are shifted out is shifted once more.
LEMMA ShiftOnce ==
  ASSUME NEW width \in Nat \ {0}, NEW n \in Nat, NEW bits,
         NEW register \in [1 .. width -> {0, 1}],
         ShiftedOut(register, width, bits, n)
  PROVE  /\ Append(Tail(register), 0) \in [1 .. width -> {0, 1}]
         /\ ShiftedOut(Append(Tail(register), 0), width, bits, n + 1)
<1> DEFINE next == Append(Tail(register), 0)
<1>1. /\ next \in [1 .. width -> {0, 1}]
      /\ \A i \in 1 .. width : next[i] = IF i < width THEN register[i + 1] ELSE 0
  <2>1. 0 \in {0, 1}
    OBVIOUS
  <2> QED
    BY <2>1, TakeOnce
<1> HIDE DEF next
<1>2. ASSUME NEW i \in 1 .. width
      PROVE  next[i] = IF i + (n + 1) <= width THEN bits[i + (n + 1)] ELSE 0
  <2>1. CASE i < width
    <3>1. i + 1 \in 1 .. width /\ (i + 1) + n = i + (n + 1)
      BY <2>1
    <3>2. register[i + 1] = IF (i + 1) + n <= width THEN bits[(i + 1) + n] ELSE 0
      BY <3>1 DEF ShiftedOut
    <3> QED
      BY <1>1, <2>1, <3>1, <3>2
  <2>2. CASE i = width
    BY <1>1, <2>2
  <2> QED
    BY <2>1, <2>2
<1>3. ShiftedOut(next, width, bits, n + 1)
  BY <1>2 DEF ShiftedOut
<1> QED
  BY <1>1, <1>3 DEF next

-------------------------------------------------------------------------------
(* The LED matrix. *)

\* The first bits of a word mean nothing, so the chip may have taken the first one wrong.
LEMMA MeaningOfTaken ==
  ASSUME NEW w \in [1 .. WORD_BITS -> {0, 1}], NEW g \in [1 .. WORD_BITS -> {0, 1}],
         \A i \in 2 .. WORD_BITS : g[i] = w[i]
  PROVE  Meaning(g) = Meaning(w)
<1>1. WORD_BITS \in Nat /\ DONT_CARE \in 1 .. WORD_BITS - 1
  BY LedmtxAssumption
<1>2. \A i \in DONT_CARE + 1 .. WORD_BITS : i \in 2 .. WORD_BITS
  BY <1>1
<1>3. \A i \in 1 .. WORD_BITS - (DONT_CARE + 1) + 1 : DONT_CARE + 1 + i - 1 \in DONT_CARE + 1 .. WORD_BITS
  BY <1>1
<1>4. /\ Meaning(g) = [i \in 1 .. WORD_BITS - (DONT_CARE + 1) + 1 |-> g[DONT_CARE + 1 + i - 1]]
      /\ Meaning(w) = [i \in 1 .. WORD_BITS - (DONT_CARE + 1) + 1 |-> w[DONT_CARE + 1 + i - 1]]
  BY <1>1 DEF Meaning
<1> QED
  BY <1>2, <1>3, <1>4

\* Nothing is sent without a store.
LEMMA LedmtxIdle ==
  ASSUME LedmtxInv, NEW wstrb, NEW sel, NEW word,
         ~ledmtx_sending, ~(wstrb /\ sel),
         LedmtxClk(wstrb, sel, word), LedmtxChipClk(wstrb, sel, word)
  PROVE  LedmtxInv' /\ ~ledmtx_sending' /\ UNCHANGED <<ledmtx_pending, ledmtx_shown>>
<1>1. LEDMTX_DIVIDER \in Nat \ {0, 1}
  BY LedmtxAssumption
<1>2. ledmtx_bitcount' = 0 /\ ledmtx_bitcount = 0 /\ ledmtx_shifter' = ledmtx_shifter
  BY DEF LedmtxClk, ledmtx_CLK, ledmtx_sending
<1>3. ~ledmtx_CLK' /\ ~ledmtx_CS = FALSE
  BY <1>2 DEF ledmtx_CLK, ledmtx_CS, ledmtx_sending
<1>4. UNCHANGED <<ledmtx_got, ledmtx_pending, ledmtx_shown>>
  BY <1>3 DEF LedmtxChipClk
<1>5. ledmtx_divider' \in 0 .. LEDMTX_DIVIDER - 1
  BY <1>1 DEF LedmtxInv, LedmtxClk
<1> QED
  BY <1>2, <1>4, <1>5 DEF LedmtxInv, ledmtx_sending

\* A store finds the chip done with the last one.
LEMMA LedmtxLoad ==
  ASSUME LedmtxInv, NEW word \in LedmtxWord,
         ~ledmtx_sending,
         LedmtxClk(TRUE, TRUE, word), LedmtxChipClk(TRUE, TRUE, word)
  PROVE  LedmtxInv' /\ LedmtxLink!Next
<1>1. /\ LEDMTX_DIVIDER \in Nat \ {0, 1} /\ WORD_BITS \in Nat \ {0}
      /\ word \in [1 .. WORD_BITS -> {0, 1}]
  BY LedmtxAssumption
<1>2. /\ ledmtx_bitcount = 0
      /\ ledmtx_bitcount' = WORD_BITS /\ ledmtx_shifter' = word
      /\ ledmtx_divider' \in 0 .. LEDMTX_DIVIDER - 1
  BY <1>1 DEF LedmtxInv, LedmtxClk, ledmtx_sending
<1>3. ledmtx_got' \in [1 .. WORD_BITS -> {0, 1}]
  <2>1. ledmtx_DIN \in {0, 1} /\ ledmtx_DIN' \in {0, 1}
    <3>1. 1 \in 1 .. WORD_BITS
      BY <1>1
    <3> QED
      BY <1>1, <1>2, <3>1 DEF LedmtxInv, ledmtx_DIN
  <2>2. CASE UNCHANGED ledmtx_got
    BY <2>2 DEF LedmtxInv
  <2>3. ASSUME NEW din \in {ledmtx_DIN, ledmtx_DIN'}, ledmtx_got' = Append(Tail(ledmtx_got), din)
        PROVE  ledmtx_got' \in [1 .. WORD_BITS -> {0, 1}]
    BY <1>1, <2>1, <2>3, TakeOnce DEF LedmtxInv
  <2> QED
    BY <2>2, <2>3 DEF LedmtxChipClk
<1>4. ledmtx_pending = <<>> /\ ledmtx_pending' = <<Meaning(word)>> /\ ledmtx_shown' = ledmtx_shown
  <2>1. ledmtx_CS
    BY DEF ledmtx_CS
  <2> QED
    BY <2>1 DEF LedmtxInv, LedmtxChipClk
<1>5. LedmtxSends(word)'
  <2>1. WORD_BITS - WORD_BITS = 0
    BY <1>1
  <2>2. ShiftedOut(ledmtx_shifter, WORD_BITS, word, 0)'
    BY <1>1, <1>2 DEF ShiftedOut
  <2>3. LedmtxTaken(word, 0)' /\ LedmtxTaken(word, 1)'
    BY DEF LedmtxTaken
  <2> QED
    BY <1>2, <1>4, <2>1, <2>2, <2>3 DEF LedmtxSends
<1>6. ledmtx_sending'
  BY <1>1, <1>2 DEF ledmtx_sending
<1>7. LedmtxInv'
  BY <1>1, <1>2, <1>3, <1>5, <1>6 DEF LedmtxInv
<1>8. LedmtxLink!Store
  BY <1>4 DEF LedmtxLink!Store
<1> QED
  BY <1>7, <1>8 DEF LedmtxLink!Next

\* The driver shifts when CLK falls; with the last bit the chip takes the word.
LEMMA LedmtxFalls ==
  ASSUME LedmtxInv, NEW sel, NEW word, ledmtx_CLK,
         LedmtxClk(FALSE, sel, word), LedmtxChipClk(FALSE, sel, word)
  PROVE  /\ LedmtxInv'
         /\ LedmtxLink!Next \/ UNCHANGED <<ledmtx_pending, ledmtx_shown>>
<1>1. /\ LEDMTX_DIVIDER \in Nat /\ LEDMTX_DIVIDER > 1 /\ WORD_BITS \in Nat \ {0}
      /\ LedmtxWord \subseteq [1 .. WORD_BITS -> {0, 1}]
  BY LedmtxAssumption
<1>2. ledmtx_sending /\ slow_clk /\ ledmtx_divider = 0 /\ ledmtx_bitcount \in 1 .. WORD_BITS
  BY <1>1 DEF LedmtxInv, ledmtx_CLK, slow_clk, ledmtx_sending
<1>3. PICK w \in LedmtxWord : LedmtxSends(w)
  BY <1>2 DEF LedmtxInv
<1>4. PICK n \in Nat :
        /\ n = WORD_BITS - ledmtx_bitcount /\ n + 1 = WORD_BITS - (ledmtx_bitcount - 1)
        /\ ledmtx_pending = <<Meaning(w)>> /\ ShiftedOut(ledmtx_shifter, WORD_BITS, w, n) /\ LedmtxTaken(w, n + 1)
  BY <1>1, <1>2, <1>3 DEF LedmtxSends
<1>5. /\ ledmtx_divider' = 1
      /\ ledmtx_bitcount' = ledmtx_bitcount - 1
      /\ ledmtx_shifter' = Append(Tail(ledmtx_shifter), 0)
  <2>1. (0 + 1) % LEDMTX_DIVIDER = 1
    BY <1>1
  <2> QED
    BY <1>2, <2>1 DEF LedmtxClk
<1>6. ledmtx_got' = ledmtx_got
  BY <1>2 DEF LedmtxChipClk
<1>7. /\ ledmtx_shifter' \in [1 .. WORD_BITS -> {0, 1}]
      /\ ShiftedOut(ledmtx_shifter, WORD_BITS, w, n + 1)'
  <2>1. ledmtx_shifter \in [1 .. WORD_BITS -> {0, 1}]
    BY DEF LedmtxInv
  <2>2. /\ Append(Tail(ledmtx_shifter), 0) \in [1 .. WORD_BITS -> {0, 1}]
        /\ ShiftedOut(Append(Tail(ledmtx_shifter), 0), WORD_BITS, w, n + 1)
    BY <1>1, <1>4, <2>1, ShiftOnce
  <2> QED
    BY <1>5, <2>2 DEF ShiftedOut
<1>8. LedmtxTaken(w, n + 1)'
  BY <1>4, <1>6 DEF LedmtxTaken
<1>9. ~slow_clk'
  BY <1>5 DEF slow_clk
<1>10. ledmtx_divider' \in 0 .. LEDMTX_DIVIDER - 1 /\ ledmtx_bitcount' \in 0 .. WORD_BITS
  BY <1>1, <1>2, <1>5
<1>11. CASE ledmtx_bitcount = 1
  <2>1. ~ledmtx_sending' /\ ledmtx_CS' /\ ~ledmtx_CS
    BY <1>2, <1>5, <1>11 DEF ledmtx_sending, ledmtx_CS
  <2>2. ledmtx_pending' = <<>> /\ ledmtx_shown' = Meaning(ledmtx_got)
    BY <1>2, <1>5, <1>11 DEF LedmtxChipClk, ledmtx_CS, ledmtx_sending
  <2>3. n + 1 = WORD_BITS
    BY <1>1, <1>4, <1>11
  <2>4. \A i \in 2 .. WORD_BITS : ledmtx_got[i] = w[i]
    <3>1. \A i \in 2 .. WORD_BITS : WORD_BITS - WORD_BITS + i = i
      BY <1>1
    <3> QED
      BY <1>4, <2>3, <3>1 DEF LedmtxTaken
  <2>5. ledmtx_shown' = Meaning(w)
    BY <1>1, <2>2, <2>4, MeaningOfTaken DEF LedmtxInv
  <2>6. LedmtxLink!Take
    BY <1>4, <2>2, <2>5 DEF LedmtxLink!Take
  <2>7. LedmtxInv'
    BY <1>6, <1>7, <1>10, <2>1, <2>2 DEF LedmtxInv
  <2> QED
    BY <2>6, <2>7 DEF LedmtxLink!Next
<1>12. CASE ledmtx_bitcount # 1
  <2>1. ledmtx_sending' /\ ~ledmtx_CS'
    BY <1>2, <1>5, <1>12 DEF ledmtx_sending, ledmtx_CS
  <2>2. UNCHANGED <<ledmtx_pending, ledmtx_shown>>
    BY <2>1 DEF LedmtxChipClk
  <2>3. LedmtxSends(w)'
    <3>1. WORD_BITS - ledmtx_bitcount' = n + 1
      BY <1>4, <1>5
    <3> QED
      BY <1>4, <1>7, <1>8, <1>9, <2>2, <3>1 DEF LedmtxSends
  <2> QED
    BY <1>6, <1>7, <1>10, <2>1, <2>2, <2>3 DEF LedmtxInv
<1> QED
  BY <1>11, <1>12

\* The chip takes the next bit when CLK rises.
LEMMA LedmtxGoesOn ==
  ASSUME LedmtxInv, NEW sel, NEW word, ledmtx_sending, ~slow_clk,
         LedmtxClk(FALSE, sel, word), LedmtxChipClk(FALSE, sel, word)
  PROVE  LedmtxInv' /\ UNCHANGED <<ledmtx_pending, ledmtx_shown>>
<1>1. /\ LEDMTX_DIVIDER \in Nat /\ LEDMTX_DIVIDER > 1 /\ WORD_BITS \in Nat \ {0}
      /\ LedmtxWord \subseteq [1 .. WORD_BITS -> {0, 1}]
  BY LedmtxAssumption
<1>2. ledmtx_bitcount \in 1 .. WORD_BITS
  BY <1>1 DEF LedmtxInv, ledmtx_sending
<1>3. PICK w \in LedmtxWord : LedmtxSends(w)
  BY DEF LedmtxInv
<1>4. PICK n \in 0 .. WORD_BITS - 1 :
        /\ n = WORD_BITS - ledmtx_bitcount
        /\ ledmtx_pending = <<Meaning(w)>> /\ ShiftedOut(ledmtx_shifter, WORD_BITS, w, n) /\ LedmtxTaken(w, n)
  BY <1>1, <1>2, <1>3 DEF LedmtxSends
<1>5. /\ ledmtx_divider' \in 0 .. LEDMTX_DIVIDER - 1
      /\ UNCHANGED <<ledmtx_bitcount, ledmtx_shifter>>
      /\ ~ledmtx_CLK
  BY <1>1 DEF LedmtxInv, LedmtxClk, ledmtx_CLK
<1>6. /\ ledmtx_sending' /\ ~ledmtx_CS'
      /\ ledmtx_DIN' = ledmtx_DIN
      /\ ledmtx_CLK' <=> slow_clk'
  BY <1>5 DEF ledmtx_sending, ledmtx_CS, ledmtx_DIN, ledmtx_CLK
<1>7. UNCHANGED <<ledmtx_pending, ledmtx_shown>>
  BY <1>6 DEF LedmtxChipClk
<1>8. ledmtx_DIN = w[n + 1] /\ ledmtx_DIN \in {0, 1}
  <2>1. 1 \in 1 .. WORD_BITS /\ 1 + n <= WORD_BITS /\ 1 + n = n + 1
    BY <1>1, <1>4
  <2> QED
    BY <1>4, <2>1 DEF LedmtxInv, ShiftedOut, ledmtx_DIN
<1>9. ShiftedOut(ledmtx_shifter, WORD_BITS, w, n)'
  BY <1>4, <1>5 DEF ShiftedOut
<1>10. /\ ledmtx_got \in [1 .. WORD_BITS -> {0, 1}]
       /\ ledmtx_shifter' \in [1 .. WORD_BITS -> {0, 1}]
       /\ ledmtx_bitcount' \in 0 .. WORD_BITS
  BY <1>5 DEF LedmtxInv
<1>11. CASE slow_clk'
  <2>1. ledmtx_got' = Append(Tail(ledmtx_got), ledmtx_DIN)
    <3>1. (ledmtx_CLK' /\ ~ledmtx_CLK) = TRUE
      BY <1>5, <1>6, <1>11
    <3> QED
      BY <1>6, <3>1 DEF LedmtxChipClk
  <2>2. /\ ledmtx_got' \in [1 .. WORD_BITS -> {0, 1}]
        /\ \A i \in 1 .. WORD_BITS :
              ledmtx_got'[i] = IF i < WORD_BITS THEN ledmtx_got[i + 1] ELSE ledmtx_DIN
    <3>1. ledmtx_got \in [1 .. WORD_BITS -> {0, 1}] /\ WORD_BITS \in Nat \ {0}
      BY <1>1 DEF LedmtxInv
    <3>2. /\ Append(Tail(ledmtx_got), ledmtx_DIN) \in [1 .. WORD_BITS -> {0, 1}]
          /\ \A i \in 1 .. WORD_BITS :
                Append(Tail(ledmtx_got), ledmtx_DIN)[i] =
                  IF i < WORD_BITS THEN ledmtx_got[i + 1] ELSE ledmtx_DIN
      BY <1>8, <3>1, TakeOnce
    <3> QED
      BY <2>1, <3>2
  <2>3. ASSUME NEW i \in 2 .. n + 1
        PROVE  ledmtx_got'[WORD_BITS - (n + 1) + i] = w[i]
    <3>1. CASE i = n + 1
      <4>1. WORD_BITS - (n + 1) + i = WORD_BITS
        BY <1>1, <1>4, <3>1
      <4> QED
        BY <1>1, <1>8, <2>2, <3>1, <4>1
    <3>2. CASE i # n + 1
      <4> DEFINE q == WORD_BITS - (n + 1) + i
      <4>1. q \in 1 .. WORD_BITS /\ q < WORD_BITS /\ q + 1 = WORD_BITS - n + i /\ i \in 2 .. n
        BY <1>1, <1>4, <3>2
      <4>2. ledmtx_got'[q] = ledmtx_got[q + 1]
        BY <2>2, <4>1
      <4> QED
        BY <1>4, <4>1, <4>2 DEF LedmtxTaken
    <3> QED
      BY <3>1, <3>2
  <2>4. LedmtxTaken(w, n + 1)'
    BY <2>3 DEF LedmtxTaken
  <2>5. LedmtxSends(w)'
    BY <1>4, <1>5, <1>7, <1>9, <1>11, <2>4 DEF LedmtxSends, slow_clk
  <2>6. ledmtx_divider' \in 0 .. LEDMTX_DIVIDER - 1 /\ ledmtx_sending'
    BY <1>5, <1>6
  <2> QED
    BY <1>7, <1>10, <2>2, <2>5, <2>6 DEF LedmtxInv
<1>12. CASE ~slow_clk'
  <2>1. ledmtx_got' = ledmtx_got
    BY <1>6, <1>12 DEF LedmtxChipClk
  <2>2. LedmtxTaken(w, n)'
    BY <1>4, <2>1 DEF LedmtxTaken
  <2>3. LedmtxSends(w)'
    BY <1>4, <1>5, <1>7, <1>9, <1>12, <2>2 DEF LedmtxSends, slow_clk
  <2>4. ledmtx_divider' \in 0 .. LEDMTX_DIVIDER - 1 /\ ledmtx_sending'
    BY <1>5, <1>6
  <2> QED
    BY <1>7, <1>10, <2>1, <2>3, <2>4 DEF LedmtxInv
<1> QED
  BY <1>7, <1>11, <1>12

\* A clock of the driver keeps the invariant, and is one of the panel.
LEMMA LedmtxStep ==
  ASSUME LedmtxInv, NEW wstrb \in BOOLEAN, NEW sel \in BOOLEAN, NEW word,
         wstrb /\ sel => word \in LedmtxWord,
         wstrb => ~ledmtx_sending,
         LedmtxClk(wstrb, sel, word), LedmtxChipClk(wstrb, sel, word)
  PROVE  /\ LedmtxInv'
         /\ LedmtxLink!Next \/ UNCHANGED LedmtxLink!linkVars
         /\ ledmtx_bitcount = 0 /\ ~wstrb => ledmtx_bitcount' = 0
<1>1. CASE ~ledmtx_sending /\ ~(wstrb /\ sel)
  BY <1>1, LedmtxIdle DEF LedmtxLink!linkVars, ledmtx_sending
<1>2. CASE wstrb /\ sel
  <2>1. wstrb = TRUE /\ sel = TRUE
    BY <1>2
  <2> QED
    BY <1>2, <2>1, LedmtxLoad
<1>3. CASE ledmtx_sending
  <2>1. wstrb = FALSE /\ ledmtx_bitcount # 0
    BY <1>3 DEF ledmtx_sending
  <2>2. CASE slow_clk
    <3>1. ledmtx_CLK
      BY <1>3, <2>2 DEF ledmtx_CLK
    <3> QED
      BY <2>1, <3>1, LedmtxFalls DEF LedmtxLink!linkVars
  <2>3. CASE ~slow_clk
    BY <1>3, <2>1, <2>3, LedmtxGoesOn DEF LedmtxLink!linkVars
  <2> QED
    BY <2>2, <2>3
<1> QED
  BY <1>1, <1>2, <1>3

-------------------------------------------------------------------------------
(* The OLED display. *)

\* What the stores look like.
LEMMA OledDataBytes ==
  ASSUME NEW s \in OledData
  PROVE  /\ BYTE_BITS \in Nat /\ BYTE_BITS > 1
         /\ \/ /\ Len(s.bytes) = 1 /\ s.sel \in {"cmd", "dat"}
               /\ \E b \in [1 .. BYTE_BITS -> {0, 1}] : s.bytes = <<b>>
            \/ /\ Len(s.bytes) = 2 /\ s.sel = "dat16"
               /\ \E b, c \in [1 .. BYTE_BITS -> {0, 1}] : s.bytes = <<b, c>>
<1>1. BYTE_BITS \in Nat /\ BYTE_BITS > 1 /\ OledByte \subseteq [1 .. BYTE_BITS -> {0, 1}]
  BY OledAssumption
<1>2. s \in OledStore /\ s.sel # "cntl"
  BY DEF OledData
<1>3. CASE s \in [sel : {"cmd", "dat"}, bytes : { <<b>> : b \in OledByte }]
  <2>1. PICK b \in OledByte : s.bytes = <<b>>
    BY <1>3
  <2>2. Len(s.bytes) = 1 /\ s.sel \in {"cmd", "dat"} /\ b \in [1 .. BYTE_BITS -> {0, 1}]
    BY <1>1, <1>3, <2>1
  <2> QED
    BY <1>1, <2>1, <2>2
<1>4. CASE s \in [sel : {"dat16"}, bytes : OledByte \X OledByte]
  <2>1. PICK b \in OledByte, c \in OledByte : s.bytes = <<b, c>>
    BY <1>4
  <2>2. /\ Len(s.bytes) = 2 /\ s.sel = "dat16"
        /\ b \in [1 .. BYTE_BITS -> {0, 1}] /\ c \in [1 .. BYTE_BITS -> {0, 1}]
    BY <1>1, <1>4, <2>1
  <2> QED
    BY <1>1, <2>1, <2>2
<1>5. CASE s \in [sel : {"cntl"}, cntl : OledCntl]
  BY <1>2, <1>5
<1> QED
  BY <1>2, <1>3, <1>4, <1>5 DEF OledStore

\* Two bytes one after the other.
LEMMA TwoBytes ==
  ASSUME NEW n \in Nat, NEW b \in [1 .. n -> {0, 1}], NEW c \in [1 .. n -> {0, 1}],
         NEW d, d = b \o c
  PROVE  d \in [1 .. 2 * n -> {0, 1}] /\ \A i \in 1 .. n : d[i] = b[i] /\ d[n + i] = c[i]
<1>1. b \in Seq({0, 1}) /\ Len(b) = n /\ c \in Seq({0, 1}) /\ Len(c) = n
  OBVIOUS
<1>2. d \in Seq({0, 1}) /\ Len(d) = Len(b) + Len(c)
  BY <1>1, ConcatProperties
<1>3. d \in [1 .. Len(d) -> {0, 1}]
  BY <1>2, LenProperties
<1>5. Len(d) = 2 * n
  BY <1>1, <1>2
<1>4. ASSUME NEW i \in 1 .. n
      PROVE  d[i] = b[i] /\ d[n + i] = c[i]
  <2>1. i \in 1 .. Len(b) + Len(c) /\ n + i \in 1 .. Len(b) + Len(c) /\ i <= Len(b)
        /\ ~(n + i <= Len(b)) /\ n + i - Len(b) = i
    BY <1>1
  <2> QED
    BY <1>1, <2>1
<1> QED
  BY <1>3, <1>4, <1>5

\* The shift register begins with the bytes of the store.
LEMMA LoadedBytes ==
  ASSUME NEW s \in OledData
  PROVE  /\ Loaded(s) \in [1 .. 2 * BYTE_BITS -> {0, 1}]
         /\ \A j \in 0 .. Len(s.bytes) - 1 :
               [i \in 1 .. BYTE_BITS |-> Loaded(s)[j * BYTE_BITS + i]] = s.bytes[j + 1]
<1>1. BYTE_BITS \in Nat
  BY OledDataBytes
<1>2. CASE Len(s.bytes) = 1
  <2>1. PICK b \in [1 .. BYTE_BITS -> {0, 1}] : s.bytes = <<b>> /\ s.sel # "dat16"
    BY <1>2, OledDataBytes
  <2>2. PICK z \in [1 .. BYTE_BITS -> {0, 1}] : z = Zeros(BYTE_BITS)
    BY DEF Zeros
  <2>3. Loaded(s) = b \o Zeros(BYTE_BITS)
    BY <2>1 DEF Loaded
  <2> DEFINE d == Loaded(s)
  <2> HIDE DEF d
  <2>4. /\ d \in [1 .. 2 * BYTE_BITS -> {0, 1}]
        /\ \A i \in 1 .. BYTE_BITS : d[i] = b[i]
    <3>1. d = b \o Zeros(BYTE_BITS)
      BY <2>3 DEF d
    <3> QED
      <4>1. \A e : e = b \o z =>
               /\ e \in [1 .. 2 * BYTE_BITS -> {0, 1}]
               /\ \A i \in 1 .. BYTE_BITS : e[i] = b[i] /\ e[BYTE_BITS + i] = z[i]
        BY <1>1, TwoBytes
      <4> QED
        BY <2>2, <3>1, <4>1
  <2>5. \A i \in 1 .. BYTE_BITS : 0 * BYTE_BITS + i = i
    BY <1>1
  <2>6. [i \in 1 .. BYTE_BITS |-> d[0 * BYTE_BITS + i]] = b
    BY <2>4, <2>5
  <2>7. \A j \in 0 .. Len(s.bytes) - 1 : j = 0
    BY <1>2
  <2>8. s.bytes[0 + 1] = b
    BY <2>1
  <2> QED
    BY <2>4, <2>6, <2>7, <2>8 DEF d
<1>3. CASE Len(s.bytes) = 2
  <2>1. PICK b \in [1 .. BYTE_BITS -> {0, 1}], c \in [1 .. BYTE_BITS -> {0, 1}] :
          s.bytes = <<b, c>> /\ s.sel = "dat16"
    BY <1>3, OledDataBytes
  <2>3. Loaded(s) = b \o c
    BY <2>1 DEF Loaded
  <2> DEFINE d == Loaded(s)
  <2> HIDE DEF d
  <2>4. /\ d \in [1 .. 2 * BYTE_BITS -> {0, 1}]
        /\ \A i \in 1 .. BYTE_BITS : d[i] = b[i] /\ d[BYTE_BITS + i] = c[i]
    <3>1. d = b \o c
      BY <2>3 DEF d
    <3> QED
      <4>1. \A e : e = b \o c =>
               /\ e \in [1 .. 2 * BYTE_BITS -> {0, 1}]
               /\ \A i \in 1 .. BYTE_BITS : e[i] = b[i] /\ e[BYTE_BITS + i] = c[i]
        BY <1>1, TwoBytes
      <4> QED
        BY <3>1, <4>1
  <2>5. \A i \in 1 .. BYTE_BITS : 0 * BYTE_BITS + i = i /\ 1 * BYTE_BITS + i = BYTE_BITS + i
    BY <1>1
  <2>6. /\ [i \in 1 .. BYTE_BITS |-> d[0 * BYTE_BITS + i]] = b
        /\ [i \in 1 .. BYTE_BITS |-> d[1 * BYTE_BITS + i]] = c
    BY <2>4, <2>5
  <2>7. \A j \in 0 .. Len(s.bytes) - 1 : j = 0 \/ j = 1
    BY <1>3
  <2>8. s.bytes[0 + 1] = b /\ s.bytes[1 + 1] = c
    BY <2>1
  <2> QED
    BY <2>4, <2>6, <2>7, <2>8 DEF d
<1> QED
  BY <1>2, <1>3, OledDataBytes

\* The items of a store.
LEMMA ItemsOfData ==
  ASSUME NEW s \in OledData
  PROVE  /\ OledItems(s) = [i \in 1 .. Len(s.bytes) |-> [DC |-> s.sel # "cmd", bits |-> s.bytes[i]]]
         /\ Len(s.bytes) \in {1, 2}
         /\ OledItems(s) \in { OledItems(t) : t \in OledStore } \ {<<>>}
<1>1. s \in OledStore /\ s.sel # "cntl" /\ Len(s.bytes) \in {1, 2}
  BY OledDataBytes DEF OledData
<1>2. OledItems(s) = [i \in 1 .. Len(s.bytes) |-> [DC |-> s.sel # "cmd", bits |-> s.bytes[i]]]
  BY <1>1 DEF OledItems
<1>3. OledItems(s) # <<>>
  <2>1. Len(OledItems(s)) = Len(s.bytes)
    BY <1>1, <1>2
  <2>2. Len(OledItems(s)) # 0
    BY <1>1, <2>1
  <2> QED
    BY <2>2
<1> QED
  BY <1>1, <1>2, <1>3

-------------------------------------------------------------------------------
(* The OLED display. *)

\* With a period of two clocks CLK rises in one and falls in the next.
LEMMA OledClock ==
  ASSUME OLED_PERIOD = 2, oled_slow_cnt \in {0, 1}, NEW wstrb, NEW s, OledClk(wstrb, s)
  PROVE  /\ oled_slow_cnt' = 1 - oled_slow_cnt
         /\ CLK_falling_edge <=> oled_slow_cnt = 1
         /\ (oled_CLK' /\ ~oled_CLK) <=> oled_slow_cnt = 0
<1>1. 2 \div 2 = 1 /\ 2 - 1 = 1 /\ (0 + 1) % 2 = 1 /\ (1 + 1) % 2 = 0
  OBVIOUS
<1>2. oled_slow_cnt' = 1 - oled_slow_cnt
  BY <1>1 DEF OledClk
<1>3. oled_slow_cnt' \in {0, 1}
  BY <1>2
<1> QED
  BY <1>1, <1>2, <1>3 DEF CLK_falling_edge, oled_CLK

\* A clock in which the chip takes no bit.
LEMMA ChipTakesNothing ==
  ASSUME NEW wstrb \in BOOLEAN, NEW s, OledChipClk(wstrb, s), oled_CS \in BOOLEAN,
         NEW kept, Len(kept) # BYTE_BITS,
         oled_CS \/ ~oled_RST => kept = <<>>,
         ~(oled_CS \/ ~oled_RST) => kept = oled_got,
         ~(oled_CLK' /\ ~oled_CLK) \/ (oled_CS /\ oled_CS')
  PROVE  /\ oled_got' = kept
         /\ UNCHANGED oled_shown
         /\ oled_pending' = IF wstrb /\ s \in OledStore /\ s.sel # "cntl" THEN OledItems(s)
                            ELSE oled_pending
BY DEF OledChipClk

\* A clock in which it may take one, and has no byte with it.
LEMMA ChipTakesBit ==
  ASSUME NEW wstrb \in BOOLEAN, NEW s, OledChipClk(wstrb, s),
         BYTE_BITS \in Nat, BYTE_BITS > 1,
         oled_CS \/ oled_got = <<>>,
         oled_DIN \in {0, 1}, oled_DIN' \in {0, 1},
         ~(wstrb /\ s \in OledStore /\ s.sel # "cntl")
  PROVE  oled_got' \in {<<>>, <<0>>, <<1>>} /\ UNCHANGED <<oled_pending, oled_shown>>
<1>1. PICK bits \in {<<>>, <<0>>, <<1>>} :
        LET takes == Len(bits) = BYTE_BITS
        IN  /\ oled_got' = IF takes THEN <<>> ELSE bits
            /\ oled_shown' = IF takes THEN [DC |-> oled_DC, bits |-> bits] ELSE oled_shown
            /\ oled_pending' = IF takes /\ oled_pending # <<>> THEN Tail(oled_pending)
                               ELSE oled_pending
  <2>1. Append(<<>>, 0) = <<0>> /\ Append(<<>>, 1) = <<1>>
    OBVIOUS
  <2>2. PICK cs \in {oled_CS, oled_CS'}, din \in {oled_DIN, oled_DIN'} :
        LET kept  == IF oled_CS \/ ~oled_RST THEN <<>> ELSE oled_got
            bits  == IF oled_CLK' /\ ~oled_CLK /\ ~cs /\ oled_RST THEN Append(kept, din) ELSE kept
            takes == Len(bits) = BYTE_BITS
        IN  /\ oled_got' = IF takes THEN <<>> ELSE bits
            /\ oled_shown' = IF takes THEN [DC |-> oled_DC, bits |-> bits] ELSE oled_shown
            /\ oled_pending' = IF takes /\ oled_pending # <<>> THEN Tail(oled_pending)
                               ELSE oled_pending
    BY DEF OledChipClk
  <2>3. (IF oled_CS \/ ~oled_RST THEN <<>> ELSE oled_got) = <<>>
    OBVIOUS
  <2> DEFINE bits == IF oled_CLK' /\ ~oled_CLK /\ ~cs /\ oled_RST THEN Append(<<>>, din) ELSE <<>>
  <2>4. bits \in {<<>>, <<0>>, <<1>>}
    BY <2>1
  <2> QED
    BY <2>2, <2>3, <2>4
<1>2. Len(bits) < BYTE_BITS
  <2>1. Len(<<>>) = 0 /\ Len(<<0>>) = 1 /\ Len(<<1>>) = 1
    OBVIOUS
  <2> QED
    BY <2>1
<1>3. Len(bits) # BYTE_BITS
  <2>1. Len(bits) \in {0, 1}
    OBVIOUS
  <2> QED
    BY <1>2, <2>1
<1> QED
  BY <1>1, <1>3

\* What the processor does in a clock, as the display sees it: a store comes from EXECUTE and
\* is waited for.
OledAsked(wstrb) ==
    /\ state \in States /\ state' \in States
    /\ wstrb => /\ state = "EXECUTE" /\ state' = "WAIT_ALU_OR_MEM"
                /\ ~oled_sending
    /\ oled_sending => state' = "WAIT_ALU_OR_MEM"
    /\ state' \in {"WAIT_INSTR", "EXECUTE"} => state \in {"FETCH_INSTR", "WAIT_INSTR"}

\* The bits on the wire.
LEMMA OledBits ==
  ASSUME oled_shifter \in [1 .. 2 * BYTE_BITS -> {0, 1}]
  PROVE  oled_DIN \in {0, 1}
<1>1. 1 \in 1 .. 2 * BYTE_BITS
  BY OledAssumption
<1> QED
  BY <1>1 DEF oled_DIN

\* Nothing is sent without a store, and the display is deselected.
LEMMA OledIdle ==
  ASSUME OLED_PERIOD = 2, OledInv, NEW wstrb \in BOOLEAN, NEW s,
         ~oled_sending, ~wstrb \/ s \notin OledStore,
         OledAsked(wstrb), OledClk(wstrb, s), OledChipClk(wstrb, s)
  PROVE  OledInv' /\ ~oled_sending' /\ UNCHANGED <<oled_pending, oled_shown>>
<1>1. /\ oled_slow_cnt \in {0, 1} /\ oled_CS \in BOOLEAN /\ oled_RST \in BOOLEAN
      /\ oled_shifter \in [1 .. 2 * BYTE_BITS -> {0, 1}]
      /\ oled_bitcount = 0 /\ OledRests
      /\ BYTE_BITS \in Nat /\ BYTE_BITS > 1
  BY OledAssumption DEF OledInv, oled_sending
<1>2. /\ oled_slow_cnt' = 1 - oled_slow_cnt
      /\ CLK_falling_edge <=> oled_slow_cnt = 1
      /\ (oled_CLK' /\ ~oled_CLK) <=> oled_slow_cnt = 0
  BY <1>1, OledClock
<1>3. /\ UNCHANGED <<oled_bitcount, oled_shifter, oled_RST>>
      /\ oled_CS' = IF ~wstrb /\ oled_slow_cnt = 1 THEN TRUE ELSE oled_CS
  BY <1>2 DEF OledClk, OledShift
<1>4. ~oled_sending'
  BY <1>1, <1>3 DEF oled_sending
<1>5. oled_DIN \in {0, 1} /\ oled_DIN' \in {0, 1}
  BY <1>1, <1>3, OledBits DEF oled_DIN
<1>9. oled_slow_cnt' \in {0, 1}
  BY <1>1, <1>2
<1>6. CASE oled_CS
  <2>1. oled_CS' = TRUE
    BY <1>1, <1>3, <1>6
  <2>2. UNCHANGED <<oled_pending, oled_shown>>
    BY <1>1, <1>5, <1>6, ChipTakesBit
  <2>3. OledRests'
    BY <1>1, <2>1, <2>2 DEF OledRests
  <2> QED
    BY <1>1, <1>3, <1>4, <1>9, <2>1, <2>2, <2>3 DEF OledInv
<1>7. CASE ~oled_CS /\ oled_slow_cnt = 0
  <2>1. state = "WAIT_ALU_OR_MEM" /\ oled_got = <<>>
    BY <1>1, <1>7 DEF OledRests
  <2>2. oled_CS' = oled_CS /\ oled_slow_cnt' = 1
    BY <1>2, <1>3, <1>7
  <2>3. oled_got' \in {<<>>, <<0>>, <<1>>} /\ UNCHANGED <<oled_pending, oled_shown>>
    BY <1>1, <1>5, <2>1, ChipTakesBit
  <2>4. state' \in {"WAIT_ALU_OR_MEM", "FETCH_INSTR"}
    BY <2>1 DEF OledAsked, States
  <2>5. OledRests'
    BY <1>1, <2>2, <2>3, <2>4 DEF OledRests
  <2> QED
    BY <1>1, <1>3, <1>4, <2>2, <2>3, <2>5 DEF OledInv
<1>8. CASE ~oled_CS /\ oled_slow_cnt = 1
  <2>1. oled_got \in {<<>>, <<0>>, <<1>>} /\ ~wstrb
    BY <1>1, <1>8 DEF OledRests, OledAsked
  <2>2. oled_CS' = TRUE /\ oled_slow_cnt' = 0
    BY <1>2, <1>3, <1>8, <2>1
  <2>3. PICK kept \in {<<>>, <<0>>, <<1>>} :
          /\ oled_CS \/ ~oled_RST => kept = <<>>
          /\ ~(oled_CS \/ ~oled_RST) => kept = oled_got
    BY <2>1
  <2>4. Len(kept) # BYTE_BITS
    <3>1. Len(kept) \in {0, 1}
      OBVIOUS
    <3>2. BYTE_BITS # 0 /\ BYTE_BITS # 1
      BY <1>1
    <3> QED
      BY <3>1, <3>2
  <2>5. UNCHANGED <<oled_pending, oled_shown>>
    BY <1>1, <1>2, <1>8, <2>1, <2>3, <2>4, ChipTakesNothing
  <2>6. OledRests'
    BY <1>1, <2>2, <2>5 DEF OledRests
  <2> QED
    BY <1>1, <1>3, <1>4, <2>2, <2>5, <2>6 DEF OledInv
<1> QED
  BY <1>1, <1>6, <1>7, <1>8

\* A store to the control register may select it for a moment.
LEMMA OledControls ==
  ASSUME OLED_PERIOD = 2, OledInv, NEW s \in OledStore, s.sel = "cntl",
         OledAsked(TRUE), OledClk(TRUE, s), OledChipClk(TRUE, s)
  PROVE  OledInv' /\ ~oled_sending' /\ UNCHANGED <<oled_pending, oled_shown>>
<1>1. /\ oled_slow_cnt \in {0, 1} /\ oled_CS \in BOOLEAN
      /\ oled_shifter \in [1 .. 2 * BYTE_BITS -> {0, 1}]
      /\ oled_bitcount = 0 /\ OledRests
      /\ BYTE_BITS \in Nat /\ BYTE_BITS > 1
  BY OledAssumption DEF OledInv, oled_sending, OledAsked
<1>2. /\ oled_slow_cnt' = 1 - oled_slow_cnt
      /\ (oled_CLK' /\ ~oled_CLK) <=> oled_slow_cnt = 0
  BY <1>1, OledClock
<1>3. state = "EXECUTE" /\ state' = "WAIT_ALU_OR_MEM"
  BY DEF OledAsked
<1>4. oled_CS
  BY <1>1, <1>3 DEF OledRests
<1>5. s.cntl.CS \in BOOLEAN /\ s.cntl.RST \in BOOLEAN
  <2>1. s \in [sel : {"cntl"}, cntl : OledCntl]
    BY DEF OledStore
  <2>2. s.cntl \in [CS : BOOLEAN, RST : BOOLEAN]
    BY <2>1, OledAssumption
  <2> QED
    BY <2>2
<1>6. /\ UNCHANGED <<oled_bitcount, oled_shifter>>
      /\ oled_CS' \in BOOLEAN /\ oled_RST' \in BOOLEAN
  BY <1>5 DEF OledClk, OledControl
<1>7. ~oled_sending'
  BY <1>1, <1>6 DEF oled_sending
<1>8. oled_DIN \in {0, 1} /\ oled_DIN' \in {0, 1}
  BY <1>1, <1>6, OledBits DEF oled_DIN
<1>9. oled_got' \in {<<>>, <<0>>, <<1>>} /\ UNCHANGED <<oled_pending, oled_shown>>
  BY <1>1, <1>4, <1>8, ChipTakesBit
<1>10. ASSUME oled_slow_cnt = 1
       PROVE  oled_got' = <<>>
  <2>1. PICK kept : kept = <<>>
    OBVIOUS
  <2>2. Len(kept) # BYTE_BITS
    BY <1>1, <2>1
  <2>3. ~(oled_CLK' /\ ~oled_CLK)
    BY <1>2, <1>10
  <2>4. oled_got' = kept
    BY <1>1, <1>4, <2>1, <2>2, <2>3, ChipTakesNothing
  <2> QED
    BY <2>1, <2>4
<1>11. OledRests'
  BY <1>1, <1>2, <1>3, <1>9, <1>10 DEF OledRests
<1> QED
  BY <1>1, <1>2, <1>6, <1>7, <1>9, <1>11 DEF OledInv

\* A store finds the chip done with the last one, and the display not selected.
LEMMA OledLoads ==
  ASSUME OLED_PERIOD = 2, OledInv, NEW s \in OledData,
         OledAsked(TRUE), OledClk(TRUE, s), OledChipClk(TRUE, s)
  PROVE  OledInv' /\ OledLink!Next
<1>1. /\ oled_slow_cnt \in {0, 1} /\ oled_CS \in BOOLEAN
      /\ oled_bitcount = 0 /\ OledRests
      /\ BYTE_BITS \in Nat /\ BYTE_BITS > 1
      /\ s \in OledStore /\ s.sel # "cntl"
  BY OledAssumption DEF OledInv, oled_sending, OledAsked, OledData
<1>2. oled_slow_cnt' \in {0, 1}
  <2>1. oled_slow_cnt' = 1 - oled_slow_cnt
    BY <1>1, OledClock
  <2> QED
    BY <1>1, <2>1
<1>3. oled_CS
  BY <1>1 DEF OledRests, OledAsked
<1>4. /\ oled_RST' = TRUE /\ oled_DC' = (s.sel # "cmd") /\ oled_CS' = TRUE
      /\ oled_shifter' = Loaded(s)
      /\ oled_bitcount' = BYTE_BITS * Len(s.bytes)
  BY <1>1 DEF OledClk, OledSend
<1>5. PICK t \in Nat : t = BYTE_BITS * Len(s.bytes) /\ t # 0
  <2>1. Len(s.bytes) \in {1, 2}
    BY ItemsOfData
  <2>2. BYTE_BITS * 1 = BYTE_BITS /\ BYTE_BITS * 2 = BYTE_BITS + BYTE_BITS
    BY <1>1
  <2> QED
    BY <1>1, <2>1, <2>2
<1>6. oled_got' = <<>> /\ oled_shown' = oled_shown /\ oled_pending' = OledItems(s)
  <2>1. PICK kept : kept = <<>>
    OBVIOUS
  <2>2. Len(kept) # BYTE_BITS
    BY <1>1, <2>1
  <2>3. oled_CS' /\ oled_CS
    BY <1>3, <1>4
  <2>4. /\ oled_got' = kept /\ UNCHANGED oled_shown
        /\ oled_pending' = IF TRUE /\ s \in OledStore /\ s.sel # "cntl" THEN OledItems(s)
                           ELSE oled_pending
    BY <1>1, <1>3, <2>1, <2>2, <2>3, ChipTakesNothing
  <2> QED
    BY <1>1, <2>1, <2>4
<1>7. OledSends(s)'
  <2>1. t - t = 0
    OBVIOUS
  <2>2. ShiftedOut(Loaded(s), 2 * BYTE_BITS, Loaded(s), 0)
    BY <1>1 DEF ShiftedOut
  <2>3. [i \in 1 .. 0 |-> Loaded(s)[0 * BYTE_BITS + i]] = <<>>
    OBVIOUS
  <2>4. [i \in 1 .. Len(s.bytes) - 0 |-> OledItems(s)[i + 0]] = OledItems(s)
    <3>1. Len(s.bytes) - 0 = Len(s.bytes) /\ \A i \in 1 .. Len(s.bytes) : i + 0 = i
      BY ItemsOfData
    <3> QED
      BY <3>1, ItemsOfData
  <2>5. OledTaken(s, 0, 0)'
    BY <1>6, <2>3, <2>4 DEF OledTaken
  <2>6. BYTE_BITS * Len(s.bytes) - oled_bitcount' = 0
    BY <1>4, <1>5, <2>1
  <2> QED
    BY <1>4, <2>2, <2>5, <2>6 DEF OledSends, ShiftedOut
<1>8. oled_sending' /\ oled_bitcount' \in Nat
  BY <1>4, <1>5 DEF oled_sending
<1>9. OledInv'
  BY <1>2, <1>4, <1>7, <1>8, LoadedBytes DEF OledInv
<1>10. OledLink!Store
  BY <1>1, <1>6, ItemsOfData DEF OledLink!Store, OledRests
<1> QED
  BY <1>9, <1>10 DEF OledLink!Next

\* What a display that sends holds.
LEMMA OledSendsWhat ==
  ASSUME OledInv, oled_sending
  PROVE  /\ oled_slow_cnt \in {0, 1} /\ oled_bitcount \in Nat \ {0}
         /\ oled_shifter \in [1 .. 2 * BYTE_BITS -> {0, 1}]
         /\ oled_CS \in BOOLEAN /\ oled_RST
         /\ BYTE_BITS \in Nat /\ BYTE_BITS > 1
         /\ \E s \in OledData, n \in Nat, t \in Nat :
               /\ t = BYTE_BITS * Len(s.bytes) /\ n = t - oled_bitcount
               /\ n < t /\ t <= 2 * BYTE_BITS
               /\ oled_DC = (s.sel # "cmd")
               /\ ShiftedOut(oled_shifter, 2 * BYTE_BITS, Loaded(s), n)
               /\ oled_CS => n = 0 /\ OledTaken(s, 0, 0)
               /\ ~oled_CS => \E j \in 0 .. Len(s.bytes), r \in 0 .. BYTE_BITS - 1 :
                                   n + oled_slow_cnt = j * BYTE_BITS + r /\ OledTaken(s, j, r)
<1>1. /\ oled_slow_cnt \in {0, 1} /\ oled_bitcount \in Nat \ {0}
      /\ oled_shifter \in [1 .. 2 * BYTE_BITS -> {0, 1}]
      /\ oled_CS \in BOOLEAN
      /\ BYTE_BITS \in Nat /\ BYTE_BITS > 1
      /\ \E s \in OledData : OledSends(s)
  BY OledAssumption DEF OledInv, oled_sending
<1>2. PICK s \in OledData : OledSends(s)
  BY <1>1
<1>3. PICK t \in Nat : t = BYTE_BITS * Len(s.bytes) /\ t <= 2 * BYTE_BITS
  <2>1. Len(s.bytes) \in {1, 2}
    BY ItemsOfData
  <2>2. CASE Len(s.bytes) = 1
    <3>1. BYTE_BITS * Len(s.bytes) = BYTE_BITS
      BY <1>1, <2>2
    <3> QED
      BY <1>1, <3>1
  <2>3. CASE Len(s.bytes) = 2
    <3>1. BYTE_BITS * Len(s.bytes) = 2 * BYTE_BITS
      BY <1>1, <2>3
    <3> QED
      BY <1>1, <3>1
  <2> QED
    BY <2>1, <2>2, <2>3
<1>4. /\ oled_RST /\ oled_DC = (s.sel # "cmd")
      /\ t - oled_bitcount >= 0
      /\ ShiftedOut(oled_shifter, 2 * BYTE_BITS, Loaded(s), t - oled_bitcount)
      /\ oled_CS => t - oled_bitcount = 0 /\ OledTaken(s, 0, 0)
      /\ ~oled_CS => \E j \in 0 .. Len(s.bytes), r \in 0 .. BYTE_BITS - 1 :
                        /\ (t - oled_bitcount) + oled_slow_cnt = j * BYTE_BITS + r
                        /\ OledTaken(s, j, r)
  BY <1>2, <1>3 DEF OledSends
<1>5. PICK n \in Nat : n = t - oled_bitcount /\ n < t
  BY <1>1, <1>4
<1> QED
  BY <1>1, <1>3, <1>4, <1>5

\* A display that sends is not stored to: the driver alone goes on.
LEMMA OledGoesOn ==
  ASSUME OLED_PERIOD = 2, OledInv, oled_sending, NEW s,
         OledAsked(FALSE), OledClk(FALSE, s)
  PROVE  /\ oled_slow_cnt' = 1 - oled_slow_cnt /\ oled_slow_cnt' \in {0, 1}
         /\ (oled_CLK' /\ ~oled_CLK) <=> oled_slow_cnt = 0
         /\ UNCHANGED <<oled_DC, oled_RST>>
         /\ oled_CS' = IF oled_slow_cnt = 1 THEN FALSE ELSE oled_CS
         /\ IF oled_slow_cnt = 1 /\ ~oled_CS
            THEN /\ oled_bitcount' = oled_bitcount - 1
                 /\ oled_shifter' = Append(Tail(oled_shifter), 0)
            ELSE UNCHANGED <<oled_bitcount, oled_shifter>>
         /\ state' = "WAIT_ALU_OR_MEM"
<1>1. oled_slow_cnt \in {0, 1} /\ oled_CS \in BOOLEAN
  BY OledSendsWhat
<1>2. /\ oled_slow_cnt' = 1 - oled_slow_cnt
      /\ CLK_falling_edge <=> oled_slow_cnt = 1
      /\ (oled_CLK' /\ ~oled_CLK) <=> oled_slow_cnt = 0
  BY <1>1, OledClock
<1>3. OledShift
  BY DEF OledClk
<1>4. oled_slow_cnt' \in {0, 1}
  BY <1>1, <1>2
<1>5. state' = "WAIT_ALU_OR_MEM"
  BY DEF OledAsked
<1>6. CASE oled_slow_cnt = 1
  BY <1>1, <1>2, <1>3, <1>4, <1>5, <1>6 DEF OledShift
<1>7. CASE oled_slow_cnt = 0
  BY <1>1, <1>2, <1>3, <1>4, <1>5, <1>7 DEF OledShift
<1> QED
  BY <1>1, <1>6, <1>7

\* The wire shows the first bit that is not shifted out.
LEMMA OledNextBit ==
  ASSUME NEW bits, NEW n \in Nat, n < 2 * BYTE_BITS,
         oled_shifter \in [1 .. 2 * BYTE_BITS -> {0, 1}],
         ShiftedOut(oled_shifter, 2 * BYTE_BITS, bits, n)
  PROVE  oled_DIN = bits[n + 1] /\ oled_DIN \in {0, 1}
<1>1. 1 \in 1 .. 2 * BYTE_BITS /\ 1 + n <= 2 * BYTE_BITS /\ 1 + n = n + 1
  BY OledAssumption
<1> QED
  BY <1>1 DEF ShiftedOut, oled_DIN

\* A piece of a sequence of bits, one bit longer.
LEMMA LongerPiece ==
  ASSUME NEW r \in Nat, NEW k \in Nat, NEW bits, NEW g,
         \A i \in 1 .. r + 1 : bits[k + i] \in {0, 1},
         g = [i \in 1 .. r |-> bits[k + i]]
  PROVE  /\ g \in Seq({0, 1}) /\ Len(g) = r
         /\ Append(g, bits[k + (r + 1)]) = [i \in 1 .. r + 1 |-> bits[k + i]]
<1>1. \A i \in 1 .. r : i \in 1 .. r + 1
  OBVIOUS
<1>2. g \in [1 .. r -> {0, 1}]
  BY <1>1
<1>3. g \in Seq({0, 1}) /\ Len(g) = r
  BY <1>2
<1>4. r + 1 \in 1 .. r + 1
  OBVIOUS
<1>5. PICK b \in {0, 1} : b = bits[k + (r + 1)]
  BY <1>4
<1> DEFINE a == Append(g, b)
<1>6. a \in Seq({0, 1}) /\ Len(a) = r + 1 /\ a[r + 1] = b
      /\ \A i \in 1 .. r : a[i] = g[i]
  BY <1>3, AppendProperties
<1> HIDE DEF a
<1>7. a \in [1 .. r + 1 -> {0, 1}]
  BY <1>6, LenProperties
<1>8. ASSUME NEW i \in 1 .. r + 1
      PROVE  a[i] = bits[k + i]
  <2>1. CASE i = r + 1
    BY <1>5, <1>6, <2>1
  <2>2. CASE i # r + 1
    <3>1. i \in 1 .. r
      BY <2>2
    <3> QED
      BY <1>6, <3>1
  <2> QED
    BY <2>1, <2>2
<1>9. a = [i \in 1 .. r + 1 |-> bits[k + i]]
  BY <1>7, <1>8
<1> QED
  BY <1>3, <1>5, <1>9 DEF a

\* Before the display is selected nothing is taken.
LEMMA OledSelects ==
  ASSUME OLED_PERIOD = 2, OledInv, oled_sending, oled_CS, NEW s,
         OledAsked(FALSE), OledClk(FALSE, s), OledChipClk(FALSE, s)
  PROVE  OledInv' /\ UNCHANGED <<oled_pending, oled_shown>>
<1>1. /\ oled_slow_cnt \in {0, 1} /\ oled_bitcount \in Nat \ {0}
      /\ oled_shifter \in [1 .. 2 * BYTE_BITS -> {0, 1}]
      /\ oled_RST
      /\ BYTE_BITS \in Nat /\ BYTE_BITS > 1
  BY OledSendsWhat
<1>2. PICK d \in OledData, n \in Nat, t \in Nat :
        /\ t = BYTE_BITS * Len(d.bytes) /\ n = t - oled_bitcount
        /\ oled_DC = (d.sel # "cmd")
        /\ ShiftedOut(oled_shifter, 2 * BYTE_BITS, Loaded(d), n)
        /\ n = 0 /\ OledTaken(d, 0, 0)
  BY OledSendsWhat
<1>3. /\ oled_slow_cnt' \in {0, 1}
      /\ (oled_CLK' /\ ~oled_CLK) <=> oled_slow_cnt = 0
      /\ UNCHANGED <<oled_DC, oled_RST, oled_bitcount, oled_shifter>>
      /\ oled_CS' = IF oled_slow_cnt = 1 THEN FALSE ELSE oled_CS
      /\ oled_slow_cnt' = 1 - oled_slow_cnt
  BY OledGoesOn
<1>4. oled_got' = <<>> /\ UNCHANGED <<oled_pending, oled_shown>>
  <2>1. PICK kept : kept = <<>>
    OBVIOUS
  <2>2. Len(kept) # BYTE_BITS
    BY <1>1, <2>1
  <2>3. ~(oled_CLK' /\ ~oled_CLK) \/ (oled_CS /\ oled_CS')
    BY <1>1, <1>3
  <2>4. /\ oled_got' = kept /\ UNCHANGED oled_shown
        /\ oled_pending' = IF FALSE /\ s \in OledStore /\ s.sel # "cntl" THEN OledItems(s)
                           ELSE oled_pending
    BY <1>1, <2>1, <2>2, <2>3, ChipTakesNothing
  <2> QED
    BY <2>1, <2>4
<1>5. OledTaken(d, 0, 0)'
  <2>1. [i \in 1 .. 0 |-> Loaded(d)[0 * BYTE_BITS + i]] = <<>>
    OBVIOUS
  <2> QED
    BY <1>2, <1>4, <2>1 DEF OledTaken
<1>6. OledSends(d)'
  <2>1. BYTE_BITS * Len(d.bytes) - oled_bitcount' = 0
    BY <1>2, <1>3
  <2>2. ShiftedOut(oled_shifter', 2 * BYTE_BITS, Loaded(d), 0)
    BY <1>2, <1>3 DEF ShiftedOut
  <2>3. oled_RST' /\ oled_DC' = (d.sel # "cmd")
    BY <1>1, <1>2, <1>3
  <2>4. CASE oled_slow_cnt = 0
    <3>1. oled_CS' = TRUE
      BY <1>3, <2>4
    <3> QED
      BY <1>5, <2>1, <2>2, <2>3, <3>1 DEF OledSends, ShiftedOut
  <2>5. CASE oled_slow_cnt = 1
    <3>1. oled_CS' = FALSE /\ oled_slow_cnt' = 0
      BY <1>3, <2>5
    <3>2. 0 \in 0 .. Len(d.bytes) /\ 0 \in 0 .. BYTE_BITS - 1 /\ 0 + 0 = 0 * BYTE_BITS + 0
      BY <1>1, ItemsOfData
    <3>3. \E j \in 0 .. Len(d.bytes), r \in 0 .. BYTE_BITS - 1 :
            0 + oled_slow_cnt' = j * BYTE_BITS + r /\ OledTaken(d, j, r)'
      BY <1>5, <3>1, <3>2
    <3> QED
      BY <2>1, <2>2, <2>3, <3>1, <3>3 DEF OledSends, ShiftedOut
  <2> QED
    BY <1>1, <2>4, <2>5
<1>7. oled_CS' \in BOOLEAN /\ oled_RST' \in BOOLEAN /\ oled_sending'
  BY <1>1, <1>3 DEF oled_sending
<1> QED
  BY <1>1, <1>3, <1>4, <1>6, <1>7 DEF OledInv

\* Bits and bytes of a store.
LEMMA BytesDone ==
  ASSUME NEW B \in Nat, B > 1, NEW l \in {1, 2}, NEW j \in 0 .. l, NEW r \in 0 .. B - 1,
         NEW n \in Nat, n = j * B + r
  PROVE  /\ n = B * l => j = l /\ r = 0
         /\ n < B * l => j \in 0 .. l - 1 /\ n + 1 <= 2 * B
         /\ n + 1 = j * B + (r + 1) /\ j * B \in Nat
         /\ r + 1 = B => n + 1 = (j + 1) * B + 0
<1>1. j \in {0, 1, 2}
  OBVIOUS
<1>2. CASE l = 1 /\ j = 0
  BY <1>2
<1>3. CASE l = 1 /\ j = 1
  BY <1>3
<1>4. CASE l = 2 /\ j = 0
  BY <1>4
<1>5. CASE l = 2 /\ j = 1
  BY <1>5
<1>6. CASE l = 2 /\ j = 2
  BY <1>6
<1>7. l = 1 => j # 2
  OBVIOUS
<1> QED
  BY <1>1, <1>2, <1>3, <1>4, <1>5, <1>6, <1>7

\* The driver shifts when CLK falls; after the last bit the chip has taken everything.
LEMMA OledShiftsBit ==
  ASSUME OLED_PERIOD = 2, OledInv, oled_sending, ~oled_CS, oled_slow_cnt = 1, NEW s,
         OledAsked(FALSE), OledClk(FALSE, s), OledChipClk(FALSE, s)
  PROVE  OledInv' /\ UNCHANGED <<oled_pending, oled_shown>>
<1>1. /\ oled_bitcount \in Nat \ {0}
      /\ oled_shifter \in [1 .. 2 * BYTE_BITS -> {0, 1}]
      /\ oled_RST
      /\ BYTE_BITS \in Nat /\ BYTE_BITS > 1
  BY OledSendsWhat
<1>2. PICK d \in OledData, n \in Nat, t \in Nat :
        /\ t = BYTE_BITS * Len(d.bytes) /\ n = t - oled_bitcount /\ n < t
        /\ oled_DC = (d.sel # "cmd")
        /\ ShiftedOut(oled_shifter, 2 * BYTE_BITS, Loaded(d), n)
        /\ \E j \in 0 .. Len(d.bytes), r \in 0 .. BYTE_BITS - 1 :
              n + oled_slow_cnt = j * BYTE_BITS + r /\ OledTaken(d, j, r)
  BY OledSendsWhat
<1>3. PICK j \in 0 .. Len(d.bytes), r \in 0 .. BYTE_BITS - 1 :
        n + 1 = j * BYTE_BITS + r /\ OledTaken(d, j, r)
  BY <1>2
<1>4. /\ oled_slow_cnt' = 0
      /\ ~(oled_CLK' /\ ~oled_CLK)
      /\ UNCHANGED <<oled_DC, oled_RST>>
      /\ oled_CS' = FALSE
      /\ oled_bitcount' = oled_bitcount - 1
      /\ oled_shifter' = Append(Tail(oled_shifter), 0)
      /\ state' = "WAIT_ALU_OR_MEM"
  <2>1. /\ oled_slow_cnt' = 1 - oled_slow_cnt
        /\ (oled_CLK' /\ ~oled_CLK) <=> oled_slow_cnt = 0
        /\ UNCHANGED <<oled_DC, oled_RST>>
        /\ oled_CS' = IF oled_slow_cnt = 1 THEN FALSE ELSE oled_CS
        /\ IF oled_slow_cnt = 1 /\ ~oled_CS
           THEN /\ oled_bitcount' = oled_bitcount - 1
                /\ oled_shifter' = Append(Tail(oled_shifter), 0)
           ELSE UNCHANGED <<oled_bitcount, oled_shifter>>
        /\ state' = "WAIT_ALU_OR_MEM"
    BY OledGoesOn
  <2> QED
    BY <2>1
<1>5. /\ oled_shifter' \in [1 .. 2 * BYTE_BITS -> {0, 1}]
      /\ ShiftedOut(oled_shifter', 2 * BYTE_BITS, Loaded(d), n + 1)
  <2>1. 2 * BYTE_BITS \in Nat \ {0}
    BY <1>1
  <2> QED
    BY <1>1, <1>2, <1>4, <2>1, ShiftOnce
<1>6. UNCHANGED <<oled_got, oled_pending, oled_shown>>
  <2>1. Len(oled_got) = r
    BY <1>3 DEF OledTaken
  <2>2. PICK kept : kept = oled_got
    OBVIOUS
  <2>3. Len(kept) # BYTE_BITS
    BY <1>1, <2>1, <2>2
  <2>4. /\ oled_CS \/ ~oled_RST => kept = <<>>
        /\ ~(oled_CS \/ ~oled_RST) => kept = oled_got
        /\ ~(oled_CLK' /\ ~oled_CLK) \/ (oled_CS /\ oled_CS')
        /\ oled_CS \in BOOLEAN
    BY <1>1, <1>4, <2>2, OledSendsWhat
  <2>5. /\ oled_got' = kept /\ UNCHANGED oled_shown
        /\ oled_pending' = IF FALSE /\ s \in OledStore /\ s.sel # "cntl" THEN OledItems(s)
                           ELSE oled_pending
    BY <2>3, <2>4, ChipTakesNothing
  <2> QED
    BY <2>2, <2>5
<1>7. OledTaken(d, j, r)'
  BY <1>3, <1>6 DEF OledTaken
<1>8. oled_bitcount' \in Nat /\ BYTE_BITS * Len(d.bytes) - oled_bitcount' = n + 1
  BY <1>1, <1>2, <1>4
<1>9. CASE oled_bitcount = 1
  <2>1. n + 1 = BYTE_BITS * Len(d.bytes)
    BY <1>2, <1>9
  <2>2. j = Len(d.bytes) /\ r = 0
    <3>1. Len(d.bytes) \in {1, 2} /\ n + 1 \in Nat
      BY ItemsOfData
    <3> QED
      BY <1>1, <1>3, <2>1, <3>1, BytesDone
  <2>3. oled_got = <<>> /\ oled_pending = <<>>
    <3>1. Len(d.bytes) - Len(d.bytes) = 0
      BY ItemsOfData
    <3> QED
      BY <1>3, <2>2, <3>1 DEF OledTaken
  <2>4. ~oled_sending' /\ OledRests'
    BY <1>4, <1>6, <1>9, <2>3 DEF oled_sending, OledRests
  <2> QED
    BY <1>1, <1>4, <1>5, <1>6, <1>8, <2>4 DEF OledInv
<1>10. CASE oled_bitcount # 1
  <2>1. oled_sending'
    BY <1>1, <1>4, <1>10 DEF oled_sending
  <2>2. (n + 1) + oled_slow_cnt' = j * BYTE_BITS + r
    BY <1>3, <1>4
  <2>3. n + 1 >= 0
    OBVIOUS
  <2>4. OledSends(d)'
    <3>1. \E i \in 0 .. Len(d.bytes), q \in 0 .. BYTE_BITS - 1 :
            (n + 1) + oled_slow_cnt' = i * BYTE_BITS + q /\ OledTaken(d, i, q)'
      BY <1>7, <2>2
    <3>2. oled_RST' /\ oled_DC' = (d.sel # "cmd") /\ ~oled_CS'
      BY <1>1, <1>2, <1>4
    <3> QED
      BY <1>5, <1>8, <2>3, <3>1, <3>2 DEF OledSends, ShiftedOut
  <2> QED
    BY <1>1, <1>4, <1>5, <1>6, <1>8, <2>1, <2>4 DEF OledInv
<1> QED
  BY <1>9, <1>10

\* The chip takes the next bit when CLK rises, and with the last one of a byte the byte.
LEMMA ChipTakesNextBit ==
  ASSUME NEW s, OledChipClk(FALSE, s), ~oled_CS, ~oled_CS', oled_RST,
         oled_DIN' = oled_DIN, oled_CLK' /\ ~oled_CLK,
         NEW bits, bits = Append(oled_got, oled_DIN)
  PROVE  IF Len(bits) = BYTE_BITS
         THEN /\ oled_got' = <<>>
              /\ oled_shown' = [DC |-> oled_DC, bits |-> bits]
              /\ oled_pending' = IF oled_pending # <<>> THEN Tail(oled_pending) ELSE oled_pending
         ELSE /\ oled_got' = bits
              /\ UNCHANGED <<oled_pending, oled_shown>>
<1>1. PICK cs \in {oled_CS, oled_CS'}, din \in {oled_DIN, oled_DIN'} :
        LET kept  == IF oled_CS \/ ~oled_RST THEN <<>> ELSE oled_got
            more  == IF oled_CLK' /\ ~oled_CLK /\ ~cs /\ oled_RST THEN Append(kept, din) ELSE kept
            takes == Len(more) = BYTE_BITS
        IN  /\ oled_got' = IF takes THEN <<>> ELSE more
            /\ oled_shown' = IF takes THEN [DC |-> oled_DC, bits |-> more] ELSE oled_shown
            /\ oled_pending' = IF takes /\ oled_pending # <<>> THEN Tail(oled_pending)
                               ELSE oled_pending
  BY DEF OledChipClk
<1>2. ~cs /\ din = oled_DIN
  OBVIOUS
<1>3. (IF oled_CS \/ ~oled_RST THEN <<>> ELSE oled_got) = oled_got
  OBVIOUS
<1>4. (IF oled_CLK' /\ ~oled_CLK /\ ~cs /\ oled_RST THEN Append(oled_got, din) ELSE oled_got) = bits
  BY <1>2
<1>5. LET takes == Len(bits) = BYTE_BITS
      IN  /\ oled_got' = IF takes THEN <<>> ELSE bits
          /\ oled_shown' = IF takes THEN [DC |-> oled_DC, bits |-> bits] ELSE oled_shown
          /\ oled_pending' = IF takes /\ oled_pending # <<>> THEN Tail(oled_pending)
                             ELSE oled_pending
  BY <1>1, <1>3, <1>4
<1> QED
  BY <1>5

\* The chip takes the next bit when CLK rises, and with the last one of a byte it has one
\* of the stored bytes whole.
LEMMA OledTakesBit ==
  ASSUME OLED_PERIOD = 2, OledInv, oled_sending, ~oled_CS, oled_slow_cnt = 0, NEW s,
         OledAsked(FALSE), OledClk(FALSE, s), OledChipClk(FALSE, s)
  PROVE  /\ OledInv'
         /\ OledLink!Next \/ UNCHANGED <<oled_pending, oled_shown>>
<1>1. /\ oled_bitcount \in Nat \ {0}
      /\ oled_shifter \in [1 .. 2 * BYTE_BITS -> {0, 1}]
      /\ oled_RST /\ oled_CS \in BOOLEAN
      /\ BYTE_BITS \in Nat /\ BYTE_BITS > 1
  BY OledSendsWhat
<1>2. PICK d \in OledData, n \in Nat, t \in Nat :
        /\ t = BYTE_BITS * Len(d.bytes) /\ n = t - oled_bitcount /\ n < t
        /\ oled_DC = (d.sel # "cmd")
        /\ ShiftedOut(oled_shifter, 2 * BYTE_BITS, Loaded(d), n)
        /\ \E j \in 0 .. Len(d.bytes), r \in 0 .. BYTE_BITS - 1 :
              n + oled_slow_cnt = j * BYTE_BITS + r /\ OledTaken(d, j, r)
  BY OledSendsWhat
<1>3. PICK j \in 0 .. Len(d.bytes), r \in 0 .. BYTE_BITS - 1 :
        n = j * BYTE_BITS + r /\ OledTaken(d, j, r)
  BY <1>2
<1>4. /\ oled_slow_cnt' = 1
      /\ oled_CLK' /\ ~oled_CLK
      /\ UNCHANGED <<oled_DC, oled_RST, oled_bitcount, oled_shifter>>
      /\ oled_CS' = oled_CS
      /\ state' = "WAIT_ALU_OR_MEM"
  <2>1. /\ oled_slow_cnt' = 1 - oled_slow_cnt
        /\ (oled_CLK' /\ ~oled_CLK) <=> oled_slow_cnt = 0
        /\ UNCHANGED <<oled_DC, oled_RST>>
        /\ oled_CS' = IF oled_slow_cnt = 1 THEN FALSE ELSE oled_CS
        /\ IF oled_slow_cnt = 1 /\ ~oled_CS
           THEN /\ oled_bitcount' = oled_bitcount - 1
                /\ oled_shifter' = Append(Tail(oled_shifter), 0)
           ELSE UNCHANGED <<oled_bitcount, oled_shifter>>
        /\ state' = "WAIT_ALU_OR_MEM"
    BY OledGoesOn
  <2> QED
    BY <2>1
<1>5. PICK l \in {1, 2} : l = Len(d.bytes)
  BY ItemsOfData
<1>6. /\ j \in 0 .. Len(d.bytes) - 1 /\ n + 1 <= 2 * BYTE_BITS
      /\ n + 1 = j * BYTE_BITS + (r + 1) /\ j * BYTE_BITS \in Nat
      /\ r + 1 = BYTE_BITS => n + 1 = (j + 1) * BYTE_BITS + 0
  <2>1. n < BYTE_BITS * l /\ j \in 0 .. l
    BY <1>2, <1>5
  <2>2. /\ j \in 0 .. l - 1 /\ n + 1 <= 2 * BYTE_BITS
        /\ n + 1 = j * BYTE_BITS + (r + 1) /\ j * BYTE_BITS \in Nat
        /\ r + 1 = BYTE_BITS => n + 1 = (j + 1) * BYTE_BITS + 0
    BY <1>1, <1>3, <2>1, BytesDone
  <2> QED
    BY <1>5, <2>2
<1>7. oled_DIN = Loaded(d)[j * BYTE_BITS + (r + 1)] /\ oled_DIN' = oled_DIN
  <2>1. n < 2 * BYTE_BITS
    BY <1>1, <1>6
  <2>2. oled_DIN = Loaded(d)[n + 1]
    BY <1>1, <1>2, <2>1, OledNextBit
  <2> QED
    BY <1>4, <1>6, <2>2 DEF oled_DIN
<1>8. PICK bits :
        /\ bits = Append(oled_got, oled_DIN)
        /\ bits = [i \in 1 .. r + 1 |-> Loaded(d)[j * BYTE_BITS + i]]
        /\ Len(bits) = r + 1
  <2> DEFINE k == j * BYTE_BITS
  <2>1. k \in Nat /\ k + (r + 1) <= 2 * BYTE_BITS /\ r \in Nat
    BY <1>6
  <2>2. \A i \in 1 .. r + 1 : k + i \in 1 .. 2 * BYTE_BITS
    <3> HIDE DEF k
    <3> QED
      BY <1>1, <2>1
  <2>3. oled_got = [i \in 1 .. r |-> Loaded(d)[k + i]] /\ oled_DIN = Loaded(d)[k + (r + 1)]
    BY <1>3, <1>7 DEF OledTaken
  <2> HIDE DEF k
  <2>4. PICK b : b = Loaded(d) /\ \A i \in 1 .. r + 1 : b[k + i] \in {0, 1}
    BY <2>2, LoadedBytes
  <2>5. \A g : g = [i \in 1 .. r |-> b[k + i]] =>
              Append(g, b[k + (r + 1)]) = [i \in 1 .. r + 1 |-> b[k + i]]
    BY <2>1, <2>4, LongerPiece
  <2>6. Append(oled_got, oled_DIN) = [i \in 1 .. r + 1 |-> b[k + i]]
    BY <2>3, <2>4, <2>5
  <2>7. Len([i \in 1 .. r + 1 |-> b[k + i]]) = r + 1
    BY <2>1
  <2> QED
    BY <2>4, <2>6, <2>7 DEF k
<1>9. IF r + 1 = BYTE_BITS
      THEN /\ oled_got' = <<>>
           /\ oled_shown' = [DC |-> oled_DC, bits |-> bits]
           /\ oled_pending' = IF oled_pending # <<>> THEN Tail(oled_pending) ELSE oled_pending
      ELSE /\ oled_got' = bits
           /\ UNCHANGED <<oled_pending, oled_shown>>
  BY <1>1, <1>4, <1>7, <1>8, ChipTakesNextBit
<1>10. /\ oled_sending' /\ BYTE_BITS * Len(d.bytes) - oled_bitcount' = n
       /\ oled_RST' /\ oled_DC' = (d.sel # "cmd") /\ ~oled_CS'
       /\ ShiftedOut(oled_shifter', 2 * BYTE_BITS, Loaded(d), n)
  BY <1>1, <1>2, <1>4 DEF oled_sending
<1>11. ASSUME NEW i \in 0 .. Len(d.bytes), NEW q \in 0 .. BYTE_BITS - 1,
              n + 1 = i * BYTE_BITS + q, OledTaken(d, i, q)'
       PROVE  OledInv'
  <2>1. \E i_1 \in 0 .. Len(d.bytes), q_1 \in 0 .. BYTE_BITS - 1 :
          n + oled_slow_cnt' = i_1 * BYTE_BITS + q_1 /\ OledTaken(d, i_1, q_1)'
    BY <1>4, <1>11
  <2>2. OledSends(d)'
    <3>1. n >= 0
      OBVIOUS
    <3> QED
      BY <1>10, <2>1, <3>1 DEF OledSends, ShiftedOut
  <2>3. oled_CS' \in BOOLEAN /\ oled_RST' \in BOOLEAN
    BY <1>1, <1>4, <1>10
  <2> QED
    BY <1>1, <1>4, <1>10, <2>2, <2>3 DEF OledInv
<1>12. CASE r + 1 # BYTE_BITS
  <2>1. r + 1 \in 0 .. BYTE_BITS - 1
    BY <1>1, <1>12
  <2>2. OledTaken(d, j, r + 1)'
    BY <1>3, <1>8, <1>9, <1>12 DEF OledTaken
  <2> QED
    BY <1>6, <1>9, <1>11, <1>12, <2>1, <2>2
<1>13. CASE r + 1 = BYTE_BITS
  <2>1. /\ j + 1 \in 0 .. Len(d.bytes) /\ 0 \in 0 .. BYTE_BITS - 1
        /\ n + 1 = (j + 1) * BYTE_BITS + 0
    BY <1>1, <1>5, <1>6, <1>13
  <2>2. bits = d.bytes[j + 1]
    BY <1>6, <1>8, <1>13, LoadedBytes
  <2>3. /\ oled_pending # <<>>
        /\ Head(oled_pending) = [DC |-> d.sel # "cmd", bits |-> d.bytes[j + 1]]
        /\ Tail(oled_pending) = [i \in 1 .. Len(d.bytes) - (j + 1) |-> OledItems(d)[i + (j + 1)]]
    <3> DEFINE item(i) == [DC |-> d.sel # "cmd", bits |-> d.bytes[i]]
    <3>1. OledItems(d) = [i \in 1 .. Len(d.bytes) |-> item(i)]
      BY ItemsOfData
    <3>2. oled_pending = [i \in 1 .. Len(d.bytes) - j |-> OledItems(d)[i + j]]
      BY <1>3 DEF OledTaken
    <3> HIDE DEF item
    <3>3. CASE Len(d.bytes) = 1 /\ j = 0
      <4>1. oled_pending = <<item(1)>>
        BY <3>1, <3>2, <3>3
      <4> QED
        BY <3>3, <4>1 DEF item
    <3>4. CASE Len(d.bytes) = 2 /\ j = 0
      <4>1. OledItems(d) = <<item(1), item(2)>> /\ oled_pending = <<item(1), item(2)>>
        BY <3>1, <3>2, <3>4
      <4>2. [i \in 1 .. 1 |-> OledItems(d)[i + 1]] = <<item(2)>>
        BY <4>1
      <4> QED
        BY <3>4, <4>1, <4>2 DEF item
    <3>5. CASE Len(d.bytes) = 2 /\ j = 1
      <4>1. oled_pending = <<item(2)>>
        BY <3>1, <3>2, <3>5
      <4> QED
        BY <3>5, <4>1 DEF item
    <3>6. \/ Len(d.bytes) = 1 /\ j = 0
          \/ Len(d.bytes) = 2 /\ j = 0
          \/ Len(d.bytes) = 2 /\ j = 1
      <4>1. j \in 0 .. l - 1
        BY <1>5, <1>6
      <4>2. \/ l = 1 /\ j = 0
            \/ l = 2 /\ j = 0
            \/ l = 2 /\ j = 1
        <5>1. CASE l = 1
          BY <4>1, <5>1
        <5>2. CASE l = 2
          BY <4>1, <5>2
        <5> QED
          BY <5>1, <5>2
      <4>3. l = Len(d.bytes)
        BY <1>5
      <4> QED
        BY <4>2, <4>3, Zenon
    <3> QED
      BY <3>3, <3>4, <3>5, <3>6
  <2>4. OledTaken(d, j + 1, 0)'
    <3>1. [i \in 1 .. 0 |-> Loaded(d)[(j + 1) * BYTE_BITS + i]] = <<>>
      OBVIOUS
    <3> QED
      BY <1>9, <1>13, <2>3, <3>1 DEF OledTaken
  <2>5. OledLink!Take
    BY <1>2, <1>9, <1>13, <2>2, <2>3 DEF OledLink!Take
  <2> QED
    BY <1>11, <2>1, <2>4, <2>5 DEF OledLink!Next
<1> QED
  BY <1>12, <1>13

-------------------------------------------------------------------------------
(* The program on the processor. *)

\* A clock of the OLED driver keeps the invariant, and is one of the panel.
LEMMA OledStep ==
  ASSUME OLED_PERIOD = 2, OledInv, NEW wstrb \in BOOLEAN, NEW s,
         wstrb => ~oled_sending, OledAsked(wstrb),
         OledClk(wstrb, s), OledChipClk(wstrb, s)
  PROVE  /\ OledInv'
         /\ OledLink!Next \/ UNCHANGED OledLink!linkVars
<1>1. CASE wstrb /\ s \in OledStore /\ s.sel = "cntl"
  <2>1. wstrb = TRUE
    BY <1>1
  <2>2. /\ OledAsked(TRUE) /\ OledClk(TRUE, s) /\ OledChipClk(TRUE, s)
    BY <2>1
  <2>3. OledInv' /\ UNCHANGED <<oled_pending, oled_shown>>
    BY <1>1, <2>2, OledControls
  <2> QED
    BY <2>3 DEF OledLink!linkVars
<1>2. CASE wstrb /\ s \in OledStore /\ s.sel # "cntl"
  <2>1. wstrb = TRUE /\ s \in OledData
    BY <1>2 DEF OledData
  <2>2. /\ OledAsked(TRUE) /\ OledClk(TRUE, s) /\ OledChipClk(TRUE, s)
    BY <2>1
  <2> QED
    BY <2>1, <2>2, OledLoads
<1>3. CASE ~oled_sending /\ (~wstrb \/ s \notin OledStore)
  <2>1. OledInv' /\ UNCHANGED <<oled_pending, oled_shown>>
    BY <1>3, OledIdle
  <2> QED
    BY <2>1 DEF OledLink!linkVars
<1>4. CASE oled_sending
  <2>1. wstrb = FALSE
    BY <1>4
  <2>2. /\ OledAsked(FALSE) /\ OledClk(FALSE, s) /\ OledChipClk(FALSE, s)
    BY <2>1
  <2>3. oled_slow_cnt \in {0, 1} /\ oled_CS \in BOOLEAN
    BY <1>4, OledSendsWhat
  <2>4. CASE oled_CS
    <3>1. OledInv' /\ UNCHANGED <<oled_pending, oled_shown>>
      BY <1>4, <2>2, <2>4, OledSelects
    <3> QED
      BY <3>1 DEF OledLink!linkVars
  <2>5. CASE ~oled_CS /\ oled_slow_cnt = 1
    <3>1. OledInv' /\ UNCHANGED <<oled_pending, oled_shown>>
      BY <1>4, <2>2, <2>5, OledShiftsBit
    <3> QED
      BY <3>1 DEF OledLink!linkVars
  <2>6. CASE ~oled_CS /\ oled_slow_cnt = 0
    <3>1. OledInv' /\ (OledLink!Next \/ UNCHANGED <<oled_pending, oled_shown>>)
      BY <1>4, <2>2, <2>6, OledTakesBit
    <3> QED
      BY <3>1 DEF OledLink!linkVars
  <2> QED
    BY <2>3, <2>4, <2>5, <2>6
<1> QED
  BY <1>1, <1>2, <1>3, <1>4

\* A driver that does not send and is not stored to goes on so, whatever its clock.
LEMMA OledStaysIdle ==
  ASSUME oled_bitcount = 0, NEW s, OledClk(FALSE, s)
  PROVE  oled_bitcount' = 0
BY DEF OledClk, OledShift, oled_sending

\* The displays start at rest.
LEMMA DisplayStarts ==
  ASSUME DisplayInit
  PROVE  /\ ProcessorWaits /\ LedmtxInv /\ LedmtxLink!Init
         /\ OLED_PERIOD = 2 => OledInv
         /\ OledLink!Init
<1>1. ProcessorWaits
  BY DEF DisplayInit, QuarkInit, LedmtxInit, OledInit, ProcessorWaits, Instrs, ZeroWord
<1>2. LedmtxInv /\ LedmtxLink!Init
  BY LedmtxAssumption
  DEF DisplayInit, LedmtxInit, LedmtxInv, ledmtx_sending, LedmtxLink!Init
<1>3. ASSUME OLED_PERIOD = 2
      PROVE  OledInv
  <2>1. oled_shifter \in [1 .. 2 * BYTE_BITS -> {0, 1}]
    BY OledAssumption DEF DisplayInit, OledInit, Zeros
  <2>2. oled_slow_cnt \in {0, 1}
    BY <1>3 DEF DisplayInit, OledInit
  <2> QED
    BY <2>1, <2>2 DEF DisplayInit, OledInit, OledInv, oled_sending, OledRests
<1>4. OledLink!Init
  BY DEF DisplayInit, OledInit, OledLink!Init
<1> QED
  BY <1>1, <1>2, <1>3, <1>4

\* The processor stores when both displays are at rest, so that a clock keeps it waiting
\* for them and is a step of the LED matrix.
LEMMA LedmtxKept ==
  ASSUME ProcessorWaits, LedmtxInv, DisplayNext
  PROVE  /\ ProcessorWaits' /\ LedmtxInv'
         /\ LedmtxLink!Next \/ UNCHANGED LedmtxLink!linkVars
<1>1. /\ state' \in States
      /\ instr' \in Instrs
      /\ io_wstrb => /\ state' = "WAIT_ALU_OR_MEM"
                     /\ ledmtx_bitcount = 0 /\ oled_bitcount = 0
                     /\ instr.bus \in LedmtxStore \cup OledStore \cup {OtherStore}
      /\ state' # "WAIT_ALU_OR_MEM" => ledmtx_bitcount = 0 /\ oled_bitcount = 0
      /\ state' = "FETCH_INSTR" => ~io_wstrb
  BY ProcessorStep DEF DisplayNext
<1>2. PICK word :
        /\ word = IF ToLedmtx THEN IoStore.word ELSE ledmtx_shifter
        /\ LedmtxClk(io_wstrb, ToLedmtx, word)
        /\ LedmtxChipClk(io_wstrb, ToLedmtx, word)
  BY DEF DisplayNext
<1>3. io_wstrb \in BOOLEAN /\ ToLedmtx \in BOOLEAN
  BY DEF io_wstrb, ToLedmtx, Executing
<1>4. io_wstrb /\ ToLedmtx => word \in LedmtxWord
  BY <1>2 DEF ToLedmtx, LedmtxStore
<1>5. io_wstrb => ~ledmtx_sending
  BY <1>1 DEF ledmtx_sending
<1>6. /\ LedmtxInv'
      /\ LedmtxLink!Next \/ UNCHANGED LedmtxLink!linkVars
      /\ ledmtx_bitcount = 0 /\ ~io_wstrb => ledmtx_bitcount' = 0
  BY <1>2, <1>3, <1>4, <1>5, LedmtxStep
<1>7. oled_bitcount = 0 /\ ~io_wstrb => oled_bitcount' = 0
  BY DEF DisplayNext, OledClk, OledShift, oled_sending
<1>8. state' # "WAIT_ALU_OR_MEM" => ~io_wstrb
  BY <1>1
<1> QED
  BY <1>1, <1>6, <1>7, <1>8 DEF ProcessorWaits

\* The same clock is one of the OLED display.
LEMMA OledKept ==
  ASSUME OLED_PERIOD = 2, ProcessorWaits, OledInv, DisplayNext
  PROVE  OledInv' /\ (OledLink!Next \/ UNCHANGED OledLink!linkVars)
<1>1. io_wstrb \in BOOLEAN
  BY DEF io_wstrb, Executing
<1>2. OledClk(io_wstrb, IoStore) /\ OledChipClk(io_wstrb, IoStore)
  BY DEF DisplayNext
<1>3. OledAsked(io_wstrb) /\ (io_wstrb => ~oled_sending)
  <2>1. /\ state' \in States
        /\ io_wstrb => state' = "WAIT_ALU_OR_MEM" /\ oled_bitcount = 0
        /\ state' # "WAIT_ALU_OR_MEM" => oled_bitcount = 0
        /\ state' \in {"WAIT_INSTR", "EXECUTE"} => state \in {"FETCH_INSTR", "WAIT_INSTR"}
    BY ProcessorStep DEF DisplayNext
  <2>2. io_wstrb => state = "EXECUTE"
    BY DEF io_wstrb, Executing
  <2>3. state \in States
    BY DEF ProcessorWaits
  <2> QED
    BY <2>1, <2>2, <2>3 DEF OledAsked, oled_sending
<1>4. PICK wstrb \in BOOLEAN : wstrb = io_wstrb
  BY <1>1
<1>5. PICK s : s = IoStore
  OBVIOUS
<1>6. OledClk(wstrb, s) /\ OledChipClk(wstrb, s) /\ OledAsked(wstrb) /\ (wstrb => ~oled_sending)
  BY <1>2, <1>3, <1>4, <1>5
<1> QED
  BY <1>6, OledStep

\* The LED matrix takes every word that is stored to it, once and before the next, and
\* nothing else, for every width of its words and of either clock divider, with resets of
\* the processor at any clock.
THEOREM LedmtxShowsStores == DisplaySpec => LedmtxTakesWhatIsStored
<1> DEFINE Inv == ProcessorWaits /\ LedmtxInv
<1>1. DisplayInit => Inv /\ LedmtxLink!Init
  BY DisplayStarts
<1>2. Inv /\ [DisplayNext]_displayVars => Inv' /\ [LedmtxLink!Next]_(LedmtxLink!linkVars)
  <2> SUFFICES ASSUME Inv, [DisplayNext]_displayVars
               PROVE  Inv' /\ [LedmtxLink!Next]_(LedmtxLink!linkVars)
    OBVIOUS
  <2>1. CASE DisplayNext
    BY <2>1, LedmtxKept
  <2>2. CASE UNCHANGED displayVars
    <3>1. UNCHANGED <<state, instr, ledmtx_divider, ledmtx_bitcount, ledmtx_shifter,
                      ledmtx_got, ledmtx_pending, ledmtx_shown, oled_bitcount>>
      BY <2>2 DEF displayVars, quarkVars, ledmtxVars, ledmtxDriver, ledmtxChip,
                  oledVars, oledDriver
    <3>2. ProcessorWaits'
      BY <3>1 DEF ProcessorWaits
    <3>3. LedmtxInv'
      BY <3>1 DEF LedmtxInv, ledmtx_sending, LedmtxSends, LedmtxTaken, ShiftedOut, slow_clk
    <3> QED
      BY <3>1, <3>2, <3>3 DEF LedmtxLink!linkVars
  <2> QED
    BY <2>1, <2>2
<1> HIDE DEF Inv
<1> QED
  BY <1>1, <1>2, PTL DEF DisplaySpec, LedmtxTakesWhatIsStored, LedmtxLink!Spec

\* The OLED display takes every byte that is stored to it, as a command or as data as the
\* store said, in order and once, before the next store, and nothing else, although its
\* clock never stops; for every width of a byte, with the clock of period 2.
THEOREM OledShowsStores ==
  ASSUME OLED_PERIOD = 2
  PROVE  DisplaySpec => OledTakesWhatIsStored
<1>1. DisplayInit => DisplayInv /\ OledLink!Init
  BY DisplayStarts DEF DisplayInv
<1>2. DisplayInv /\ [DisplayNext]_displayVars => DisplayInv' /\ [OledLink!Next]_(OledLink!linkVars)
  <2> SUFFICES ASSUME DisplayInv, [DisplayNext]_displayVars
               PROVE  DisplayInv' /\ [OledLink!Next]_(OledLink!linkVars)
    OBVIOUS
  <2>1. CASE DisplayNext
    BY <2>1, LedmtxKept, OledKept DEF DisplayInv
  <2>2. CASE UNCHANGED displayVars
    <3>1. UNCHANGED <<state, instr, ledmtx_divider, ledmtx_bitcount, ledmtx_shifter,
                      ledmtx_got, ledmtx_pending>>
      BY <2>2 DEF displayVars, quarkVars, ledmtxVars, ledmtxDriver, ledmtxChip
    <3>2. UNCHANGED <<oled_slow_cnt, oled_bitcount, oled_shifter, oled_CS, oled_DC, oled_RST,
                      oled_got, oled_pending, oled_shown>>
      BY <2>2 DEF displayVars, oledVars, oledDriver, oledChip
    <3>3. ProcessorWaits'
      BY <3>1, <3>2 DEF ProcessorWaits, DisplayInv
    <3>4. LedmtxInv'
      BY <3>1 DEF LedmtxInv, ledmtx_sending, LedmtxSends, LedmtxTaken, ShiftedOut, slow_clk,
                  DisplayInv
    <3>5. OledInv'
      BY <3>1, <3>2 DEF OledInv, oled_sending, OledSends, OledTaken, OledRests, ShiftedOut,
                        DisplayInv
    <3> QED
      BY <3>2, <3>3, <3>4, <3>5 DEF OledLink!linkVars, DisplayInv
  <2> QED
    BY <2>1, <2>2
<1> QED
  BY <1>1, <1>2, PTL DEF DisplaySpec, OledTakesWhatIsStored, OledLink!Spec

===============================================================================
