---------------------------- MODULE FlashSoCProof ----------------------------
(***************************************************************************)
(* Proofs about FlashSoC, for every size of the chip, of the words, of the *)
(* order and of the counters, every program and every time at which resets *)
(* and breaks come.                                                        *)
(*                                                                         *)
(* A clock is followed through the driver and the chip: the strobe loads   *)
(* the order (StrobeStep), each clock shifts a bit of it out (SendStep),   *)
(* then each clock shifts a bit of the word in (ReceiveStep), and what the *)
(* chip makes of the order is the address of the word (AddressDecoded,     *)
(* ChipHears).  DrainStep is why the first reset is long enough for the    *)
(* counters, which power up with any value.                                *)
(***************************************************************************)
EXTENDS FlashSoC, SequenceTheorems, WellFoundedInduction, TLAPS

-------------------------------------------------------------------------------
(* Registers that shift. *)

\* A register after it has shifted one bit in.
LEMMA Shift ==
  ASSUME NEW S, NEW r \in Seq(S), Len(r) > 0, NEW b \in S
  PROVE  /\ Shifted(r, <<b>>) \in Seq(S)
         /\ Len(Shifted(r, <<b>>)) = Len(r)
         /\ \A i \in 1 .. Len(r) : Shifted(r, <<b>>)[i] = IF i < Len(r) THEN r[i + 1] ELSE b
<1> DEFINE w == r \o <<b>>
<1>1. /\ w \in Seq(S) /\ Len(w) = Len(r) + 1
      /\ \A i \in 1 .. Len(r) + 1 : w[i] = IF i <= Len(r) THEN r[i] ELSE b
  OBVIOUS
<1>2. Shifted(r, <<b>>) = SubSeq(w, 2, Len(r) + 1)
  BY DEF Shifted
<1> HIDE DEF w
<1>3. /\ SubSeq(w, 2, Len(r) + 1) \in Seq(S)
      /\ Len(SubSeq(w, 2, Len(r) + 1)) = Len(r)
      /\ \A i \in 1 .. Len(r) : SubSeq(w, 2, Len(r) + 1)[i] = w[i + 1]
  BY <1>1, SubSeqProperties
<1>4. ASSUME NEW i \in 1 .. Len(r)
      PROVE  Shifted(r, <<b>>)[i] = IF i < Len(r) THEN r[i + 1] ELSE b
  <2>1. i + 1 \in 1 .. Len(r) + 1 /\ (i + 1 <= Len(r) <=> i < Len(r))
    OBVIOUS
  <2>2. w[i + 1] = IF i < Len(r) THEN r[i + 1] ELSE b
    BY <1>1, <2>1
  <2> QED
    BY <1>2, <1>3, <2>2
<1> QED
  BY <1>2, <1>3, <1>4

\* A slice of a sequence, bit by bit.
LEMMA Slice ==
  ASSUME NEW S, NEW s \in Seq(S), NEW t \in Seq(S), NEW k \in Nat, k + Len(t) <= Len(s),
         \A i \in 1 .. Len(t) : s[k + i] = t[i]
  PROVE  SubSeq(s, k + 1, k + Len(t)) = t
<1> DEFINE u == SubSeq(s, k + 1, k + Len(t))
<1>1. /\ u \in Seq(S) /\ Len(u) = Len(t)
      /\ \A i \in 1 .. Len(t) : u[i] = s[k + i]
  BY SubSeqProperties
<1> HIDE DEF u
<1> QED
  BY <1>1, SeqEqual DEF u

\* The row and the column of cell number n * d + k in rows of d.
LEMMA DivMod ==
  ASSUME NEW n \in Nat, NEW d \in Nat \ {0}, NEW k \in 0 .. d - 1
  PROVE  (n * d + k) \div d = n /\ (n * d + k) % d = k
<1>1. (n * d + k) \div d = n
  BY SMTT(30)
<1>2. (n * d + k) % d = k
  BY SMTT(30)
<1> QED
  BY <1>1, <1>2

\* A number below the modulus is its own remainder.
LEMMA SmallMod ==
  ASSUME NEW d \in Nat, NEW k \in 0 .. d - 1
  PROVE  k % d = k
BY SMTT(30)

-------------------------------------------------------------------------------
(* Addresses.  Halved and ValueOf are recursive functions; as in           *)
(* VehicleProof, what they compute is proved by induction with sets.       *)

LessThan == { p \in Nat \X Nat : p[1] < p[2] }

\* A set that holds 0 and the successor of each of its numbers holds them all.
LEMMA SetInduction ==
  ASSUME NEW T, 0 \in T, \A n \in Nat : n \in T => n + 1 \in T
  PROVE  Nat \subseteq T
<1> DEFINE Missing == Nat \ T
<1> SUFFICES ASSUME Missing # {} PROVE FALSE
  OBVIOUS
<1>0. LessThan = OpToRel(<, Nat)
  BY DEF LessThan, OpToRel
<1>1. PICK x \in Missing : \A y \in Missing : <<y, x>> \notin LessThan
  BY <1>0, NatLessThanWellFounded, WFMin
<1>2. x \in Nat /\ x # 0 /\ x \notin T
  OBVIOUS
<1>3. x - 1 \in Nat /\ x - 1 + 1 = x
  BY <1>2
<1>4. <<x - 1, x>> \in LessThan
  BY <1>2, <1>3 DEF LessThan
<1> QED
  BY <1>1, <1>2, <1>3, <1>4

\* There is a function that a recursive definition on 0 .. N describes.
LEMMA RecursiveNumbers ==
  ASSUME NEW N \in Nat, NEW first \in Nat, NEW step \in [Nat -> [Nat -> Nat]]
  PROVE  \E g \in [0 .. N -> Nat] : /\ g[0] = first
                                    /\ \A k \in 1 .. N : g[k] = step[k][g[k - 1]]
<1> DEFINE Steps(g, n) == /\ g[0] = first
                          /\ \A k \in 1 .. n : g[k] = step[k][g[k - 1]]
           T == { n \in Nat : \E g \in [0 .. n -> Nat] : Steps(g, n) }
<1>0. \A k, x \in Nat : step[k][x] \in Nat
  OBVIOUS
<1>1. 0 \in T
  <2>1. Steps([k \in 0 .. 0 |-> first], 0)
    OBVIOUS
  <2> QED
    BY <2>1
<1>2. ASSUME NEW n \in Nat, n \in T
      PROVE  n + 1 \in T
  <2>1. PICK g \in [0 .. n -> Nat] : Steps(g, n)
    BY <1>2
  <2> DEFINE h == [k \in 0 .. n + 1 |-> IF k \in 0 .. n THEN g[k] ELSE step[k][g[n]]]
  <2>2. h \in [0 .. n + 1 -> Nat]
    <3> SUFFICES ASSUME NEW k \in 0 .. n + 1
                 PROVE  (IF k \in 0 .. n THEN g[k] ELSE step[k][g[n]]) \in Nat
      OBVIOUS
    <3>1. g[n] \in Nat
      OBVIOUS
    <3>2. k \in Nat
      OBVIOUS
    <3>3. step[k][g[n]] \in Nat
      BY <1>0, <3>1, <3>2
    <3> QED
      BY <3>3
  <2>3. ASSUME NEW k \in 1 .. n + 1
        PROVE  h[k] = step[k][h[k - 1]]
    <3>1. CASE k \in 1 .. n
      <4>1. h[k] = g[k] /\ h[k - 1] = g[k - 1]
        BY <3>1
      <4> QED
        BY <4>1, <3>1, <2>1
    <3>2. CASE k = n + 1
      <4>1. h[k] = step[k][g[n]] /\ h[k - 1] = g[n]
        BY <3>2
      <4> QED
        BY <4>1
    <3> QED
      BY <3>1, <3>2
  <2>4. h[0] = first
    BY <2>1
  <2>5. Steps(h, n + 1)
    <3> HIDE DEF h
    <3> QED
      BY <2>3, <2>4
  <2>6. n + 1 \in Nat
    OBVIOUS
  <2> HIDE DEF h, Steps
  <2> QED
    BY <2>2, <2>5, <2>6
<1>3. N \in T
  <2> HIDE DEF T
  <2> QED
    BY <1>1, <1>2, SetInduction
<1> QED
  BY <1>3

\* Each step drops a bit.
LEMMA HalvedSteps ==
  ASSUME NEW n \in Nat, NEW w \in Nat
  PROVE  /\ Halved(n, w) \in [0 .. w -> Nat]
         /\ Halved(n, w)[0] = n
         /\ \A k \in 1 .. w : Halved(n, w)[k] = Halved(n, w)[k - 1] \div 2
<1> DEFINE step == [k \in Nat |-> [x \in Nat |-> x \div 2]]
           body(g) == [k \in 0 .. w |-> IF k = 0 THEN n ELSE g[k - 1] \div 2]
           h == Halved(n, w)
<1>1. step \in [Nat -> [Nat -> Nat]]
  OBVIOUS
<1>2. PICK g \in [0 .. w -> Nat] : /\ g[0] = n
                                   /\ \A k \in 1 .. w : g[k] = step[k][g[k - 1]]
  <2> HIDE DEF step
  <2> QED
    BY <1>1, RecursiveNumbers
<1>3. \A k \in 1 .. w : g[k] = g[k - 1] \div 2
  <2> SUFFICES ASSUME NEW k \in 1 .. w
               PROVE  g[k] = g[k - 1] \div 2
    OBVIOUS
  <2>1. k \in Nat /\ g[k - 1] \in Nat
    OBVIOUS
  <2>2. step[k][g[k - 1]] = g[k - 1] \div 2
    BY <2>1
  <2> QED
    BY <1>2, <2>2
<1>4. g = body(g)
  BY <1>2, <1>3
<1>5. h = CHOOSE x : x = body(x)
  BY DEF Halved
<1>6. h = body(h)
  <2> HIDE DEF body
  <2> QED
    BY <1>4, <1>5
<1> HIDE DEF h
<1>7. h[0] = n /\ \A k \in 1 .. w : h[k] = h[k - 1] \div 2
  BY <1>6
<1>8. h \in [0 .. w -> Nat]
  <2> DEFINE U == { k \in Nat : k <= w => h[k] \in Nat }
  <2>1. 0 \in U
    BY <1>7
  <2>2. ASSUME NEW k \in Nat, k \in U
        PROVE  k + 1 \in U
    <3> SUFFICES ASSUME k + 1 <= w PROVE h[k + 1] \in Nat
      OBVIOUS
    <3>1. h[k] \in Nat /\ h[k + 1] = h[k] \div 2
      BY <1>7, <2>2
    <3> QED
      BY <3>1
  <2>3. Nat \subseteq U
    <3> HIDE DEF U
    <3> QED
      BY <2>1, <2>2, SetInduction
  <2>4. \A k \in 0 .. w : h[k] \in Nat
    BY <2>3
  <2> QED
    BY <1>6, <2>4
<1> QED
  BY <1>7, <1>8 DEF h

\* The bits of a number are bits.
LEMMA BitsShape ==
  ASSUME NEW n \in Nat, NEW w \in Nat
  PROVE  Bits(n, w) \in Seq({0, 1}) /\ Len(Bits(n, w)) = w
<1> DEFINE h == Halved(n, w)
<1>1. h \in [0 .. w -> Nat]
  BY HalvedSteps
<1> HIDE DEF h
<1>2. ASSUME NEW i \in 1 .. w
      PROVE  h[w - i] % 2 \in {0, 1}
  <2>1. w - i \in 0 .. w
    OBVIOUS
  <2>2. h[w - i] \in Nat
    BY <1>1, <2>1
  <2> QED
    BY <2>2
<1>3. Bits(n, w) = [i \in 1 .. w |-> h[w - i] % 2]
  BY DEF Bits, h
<1>4. Bits(n, w) \in [1 .. w -> {0, 1}]
  BY <1>2, <1>3
<1> QED
  BY <1>4

\* The bits of a number that fits say the number.
LEMMA BitsValue ==
  ASSUME NEW n \in Nat, NEW w \in Nat, Halved(n, w)[w] = 0
  PROVE  /\ Bits(n, w) \in Seq({0, 1}) /\ Len(Bits(n, w)) = w
         /\ ValueOf(Bits(n, w)) = n
<1> DEFINE b == Bits(n, w)
           h == Halved(n, w)
           body(g) == [i \in 0 .. w |-> IF i = 0 THEN 0 ELSE 2 * g[i - 1] + b[i]]
           v == CHOOSE x : x = body(x)
<1>1. /\ h \in [0 .. w -> Nat] /\ h[0] = n /\ h[w] = 0
      /\ \A k \in 1 .. w : h[k] = h[k - 1] \div 2
  BY HalvedSteps
<1>2. \A i \in 1 .. w : b[i] = h[w - i] % 2
  BY DEF Bits
<1>4. b \in Seq({0, 1}) /\ Len(b) = w
  BY BitsShape
<1>5. ValueOf(b) = v[w]
  <2>1. ValueOf(b) =
          LET value == CHOOSE x : x = [i \in 0 .. Len(b) |->
                                         IF i = 0 THEN 0 ELSE 2 * x[i - 1] + b[i]]
          IN  value[Len(b)]
    BY DEF ValueOf
  <2> HIDE DEF b
  <2> QED
    BY <1>4, <2>1
<1> HIDE DEF b, h
<1>6. \A i \in 1 .. w : h[w - i] = 2 * h[w - (i - 1)] + b[i]
  <2> SUFFICES ASSUME NEW i \in 1 .. w
               PROVE  h[w - i] = 2 * h[w - (i - 1)] + b[i]
    OBVIOUS
  <2>1. h[w - (i - 1)] = h[w - i] \div 2
    <3>1. w - (i - 1) \in 1 .. w /\ (w - (i - 1)) - 1 = w - i
      OBVIOUS
    <3> QED
      BY <1>1, <3>1
  <2>2. h[w - i] \in Nat
    BY <1>1
  <2> QED
    BY <1>2, <2>1, <2>2
<1>7. v = body(v)
  <2> DEFINE g == [i \in 0 .. w |-> h[w - i]]
  <2>1. g = body(g)
    <3>1. g[0] = 0
      BY <1>1
    <3>2. \A i \in 1 .. w : g[i] = 2 * g[i - 1] + b[i]
      BY <1>6
    <3>3. \A i \in 0 .. w : g[i] = body(g)[i]
      <4> HIDE DEF g
      <4> QED
        BY <3>1, <3>2
    <3> QED
      BY <3>3
  <2> HIDE DEF g, body
  <2> QED
    BY <2>1
<1>8. v[0] = 0 /\ \A i \in 1 .. w : v[i] = 2 * v[i - 1] + b[i]
  <2> HIDE DEF v
  <2> QED
    BY <1>7
<1> HIDE DEF v
<1> DEFINE T == { i \in Nat : i <= w => v[i] = h[w - i] }
<1>9. 0 \in T
  BY <1>1, <1>8
<1>10. ASSUME NEW i \in Nat, i \in T
       PROVE  i + 1 \in T
  <2> SUFFICES ASSUME i + 1 <= w PROVE v[i + 1] = h[w - (i + 1)]
    OBVIOUS
  <2>1. v[i] = h[w - i]
    BY <1>10
  <2>2. i + 1 \in 1 .. w /\ (i + 1) - 1 = i
    OBVIOUS
  <2> QED
    BY <1>6, <1>8, <2>1, <2>2
<1>11. Nat \subseteq T
  <2> HIDE DEF T
  <2> QED
    BY <1>9, <1>10, SetInduction
<1>12. v[w] = h[0]
  <2>1. w <= w /\ w - w = 0
    OBVIOUS
  <2>2. w \in T
    BY <1>11
  <2> QED
    BY <2>1, <2>2
<1> QED
  BY <1>1, <1>4, <1>5, <1>12 DEF b, h

\* The address that the chip takes from an order is that of the word.
LEMMA AddressDecoded ==
  ASSUME NEW a \in FlashWord
  PROVE  /\ ByteAddress(a) \in Seq({0, 1}) /\ Len(ByteAddress(a)) = ADDRESS_BITS
         /\ ValueOf(ByteAddress(a)) = BYTES * a
<1>1. BYTES * a \in Nat /\ ADDRESS_BITS \in Nat
  BY FlashAssumption
<1>2. Halved(BYTES * a, ADDRESS_BITS)[ADDRESS_BITS] = 0
  BY FlashAssumption
<1> QED
  BY <1>1, <1>2, BitsValue DEF ByteAddress

-------------------------------------------------------------------------------
(* The driver and the chip. *)

\* What is true of the sizes.
LEMMA Sizes ==
  /\ Command \in Seq({0, 1}) /\ Len(Command) \in Nat
  /\ ORDER \in Nat \ {0} /\ ORDER = Len(Command) + ADDRESS_BITS
  /\ SND \in Nat \ {0} /\ ORDER <= SND /\ SND <= COUNT_MAX
  /\ RCV \in Nat \ {0} /\ RCV <= COUNT_MAX /\ COUNT_MAX \in Nat
  /\ CHIP_BITS \in Nat \ {0} /\ RCV <= CHIP_BITS
<1>1. /\ Command \in Seq({0, 1}) /\ Len(Command) \in Nat
      /\ ADDRESS_BITS \in Nat \ {0} /\ DUMMY_CLOCKS \in Nat
  BY FlashAssumption
<1>2. /\ BYTES \in Nat \ {0} /\ BYTE_BITS \in Nat \ {0} /\ CHIP_BYTES \in Nat
      /\ BYTES <= CHIP_BYTES
  BY FlashAssumption
<1>3. BYTES * BYTE_BITS \in Nat \ {0} /\ BYTE_BITS * CHIP_BYTES \in Nat \ {0}
  BY <1>2, SMTT(30)
<1>4. BYTES * BYTE_BITS <= BYTE_BITS * CHIP_BYTES
  BY <1>2, SMTT(30)
<1> QED
  BY <1>1, <1>3, <1>4, CountAssumption DEF ORDER, SND, RCV, CHIP_BITS

\* The order of a read.
LEMMA OrderSent ==
  ASSUME NEW a \in FlashWord
  PROVE  /\ Command \o ByteAddress(a) \in Seq({0, 1})
         /\ Len(Command \o ByteAddress(a)) = ORDER
         /\ \A i \in 1 .. Len(Command) : OrderBit(a, i) = Command[i]
         /\ \A i \in 1 .. ADDRESS_BITS : OrderBit(a, Len(Command) + i) = ByteAddress(a)[i]
         /\ \A i \in Nat : i > ORDER => OrderBit(a, i) = 1
<1> DEFINE b == ByteAddress(a)
<1>1. b \in Seq({0, 1}) /\ Len(b) = ADDRESS_BITS
  BY AddressDecoded
<1> HIDE DEF b
<1>2. /\ Command \o b \in Seq({0, 1})
      /\ Len(Command \o b) = ORDER
  <2>1. Command \in Seq({0, 1})
    BY Sizes
  <2>2. Command \o b \in Seq({0, 1}) /\ Len(Command \o b) = Len(Command) + Len(b)
    BY <1>1, <2>1, ConcatProperties
  <2> QED
    BY <1>1, <2>2 DEF ORDER
<1>3. \A i \in 1 .. Len(Command) : (Command \o b)[i] = Command[i]
  BY <1>1, Sizes
<1>4. \A i \in 1 .. ADDRESS_BITS : (Command \o b)[Len(Command) + i] = b[i]
  <2> SUFFICES ASSUME NEW i \in 1 .. ADDRESS_BITS
               PROVE  (Command \o b)[Len(Command) + i] = b[i]
    OBVIOUS
  <2>1. /\ Len(Command) + i \in 1 .. Len(Command) + Len(b)
        /\ ~(Len(Command) + i <= Len(Command))
        /\ Len(Command) + i - Len(Command) = i
    BY <1>1, Sizes, FlashAssumption
  <2>2. \A k \in 1 .. Len(Command) + Len(b) :
          (Command \o b)[k] = IF k <= Len(Command) THEN Command[k] ELSE b[k - Len(Command)]
    BY <1>1, Sizes, ConcatProperties
  <2> QED
    BY <2>1, <2>2
<1>5. \A i \in Int : OrderBit(a, i) = IF i <= ORDER THEN (Command \o b)[i] ELSE 1
  BY DEF OrderBit, b
<1>6. /\ \A i \in 1 .. Len(Command) : i \in Int /\ i <= ORDER
      /\ \A i \in 1 .. ADDRESS_BITS : Len(Command) + i \in Int /\ Len(Command) + i <= ORDER
  BY Sizes, FlashAssumption
<1>7. \A i \in 1 .. Len(Command) : OrderBit(a, i) = Command[i]
  BY <1>3, <1>5, <1>6
<1>8. \A i \in 1 .. ADDRESS_BITS : OrderBit(a, Len(Command) + i) = b[i]
  BY <1>4, <1>5, <1>6
<1>9. \A i \in Nat : i > ORDER => OrderBit(a, i) = 1
  BY <1>5, Sizes
<1> QED
  BY <1>2, <1>7, <1>8, <1>9 DEF b

\* A chip that has taken the whole order sends the word.
LEMMA ChipHears ==
  ASSUME FlashTypeOK, NEW a \in FlashWord, Taken(a, SND), out # 0
  PROVE  MISO = BitFrom(BYTES * a, out - 1)
<1>1. got \in Seq({0, 1}) /\ Len(got) = SND /\ \A i \in 1 .. SND : got[i] = OrderBit(a, i)
  BY DEF FlashTypeOK, Taken
<1>2. SubSeq(got, 1, Len(Command)) = Command
  <2>1. \A i \in 1 .. Len(Command) : got[0 + i] = Command[i]
    BY <1>1, OrderSent, Sizes
  <2>2. SubSeq(got, 0 + 1, 0 + Len(Command)) = Command
    BY <1>1, <2>1, Sizes, Slice
  <2> QED
    BY <2>2, Sizes
<1>3. SubSeq(got, Len(Command) + 1, Len(Command) + ADDRESS_BITS) = ByteAddress(a)
  <2>1. ByteAddress(a) \in Seq({0, 1}) /\ Len(ByteAddress(a)) = ADDRESS_BITS
    BY AddressDecoded
  <2>2. \A i \in 1 .. ADDRESS_BITS : got[Len(Command) + i] = ByteAddress(a)[i]
    BY <1>1, OrderSent, Sizes, FlashAssumption
  <2> QED
    BY <1>1, <2>1, <2>2, Sizes, Slice
<1>4. AddressTaken = BYTES * a
  BY <1>3, AddressDecoded DEF AddressTaken
<1> QED
  BY <1>2, <1>4 DEF MISO

\* A strobe starts a read of the word at the address on the bus.
LEMMA StrobeStep ==
  ASSUME FlashTypeOK, Quiet, NEW a \in FlashWord, FlashClk(TRUE, a)
  PROVE  Reading(a)'
<1>1. /\ CS_N' = FALSE /\ snd_bitcount' = SND /\ rcv_bitcount' = rcv_bitcount
      /\ cmd_addr' = Command \o ByteAddress(a)
      /\ got' = <<>> /\ out' = 0
  BY DEF FlashClk, FlashRead, ChipClk, Quiet, rbusy
<1>2. rcv_bitcount = 0
  BY DEF Quiet, flash_busy, receiving
<1>3. \A i \in 1 .. ORDER : cmd_addr'[i] = OrderBit(a, i + (SND - snd_bitcount'))
  <2> SUFFICES ASSUME NEW i \in 1 .. ORDER
               PROVE  cmd_addr'[i] = OrderBit(a, i + (SND - snd_bitcount'))
    OBVIOUS
  <2>1. i + (SND - snd_bitcount') = i
    BY <1>1, Sizes
  <2>2. OrderBit(a, i) = (Command \o ByteAddress(a))[i]
    <3>1. i <= ORDER
      BY Sizes
    <3> QED
      BY <3>1 DEF OrderBit
  <2> QED
    BY <1>1, <2>1, <2>2
<1>4. Taken(a, 0)'
  BY <1>1 DEF Taken
<1>5. Taken(a, SND - snd_bitcount)'
  <2>1. SND - snd_bitcount' = 0
    BY <1>1, Sizes
  <2> QED
    BY <1>4, <2>1 DEF Taken
<1>6. sending' /\ ~receiving' /\ rbusy' /\ snd_bitcount' <= SND
  BY <1>1, <1>2, Sizes DEF sending, receiving, rbusy
<1>7. Sending(a)'
  <2> HIDE DEF Sending
  <2> QED
    BY <1>1, <1>3, <1>5, <1>6 DEF Sending
<1> QED
  BY <1>6, <1>7 DEF Reading

\* While it sends, the driver gives the chip a bit of the order each clock; after
\* the last one the chip sends the first bit of the word.
LEMMA SendStep ==
  ASSUME FlashTypeOK, NEW a \in FlashWord, rbusy, Sending(a), FlashShift, ChipClk
  PROVE  Reading(a)'
<1>0. /\ snd_bitcount \in 1 .. SND /\ rcv_bitcount = 0 /\ ~CS_N
      /\ \A i \in 1 .. ORDER : cmd_addr[i] = OrderBit(a, i + (SND - snd_bitcount))
      /\ Len(got) = SND - snd_bitcount
      /\ \A i \in 1 .. SND - snd_bitcount : got[i] = OrderBit(a, i)
      /\ out = 0
  BY Sizes DEF Sending, Taken, sending, receiving, rbusy, FlashTypeOK
<1>1. /\ cmd_addr \in Seq({0, 1}) /\ Len(cmd_addr) = ORDER
      /\ got \in Seq({0, 1})
  BY DEF FlashTypeOK
<1>2. /\ snd_bitcount' = snd_bitcount - 1
      /\ cmd_addr' = Shifted(cmd_addr, <<1>>)
      /\ rcv_bitcount' = IF snd_bitcount = 1 THEN RCV ELSE 0
      /\ ~CS_N'
  BY <1>0 DEF FlashShift, sending, receiving, flash_busy
<1>3. got' = Append(got, cmd_addr[1])
  BY <1>0, <1>1, Sizes DEF ChipClk, MOSI
<1>4. cmd_addr[1] = OrderBit(a, 1 + (SND - snd_bitcount))
  <2>1. 1 \in 1 .. ORDER
    BY Sizes
  <2>2. \A i \in 1 .. ORDER : cmd_addr[i] = OrderBit(a, i + (SND - snd_bitcount))
    BY <1>0
  <2> QED
    BY <2>1, <2>2, Zenon
<1>5. Taken(a, SND - snd_bitcount)'
  <2>1. Len(got') = SND - snd_bitcount'
    <3>1. Len(got') = Len(got) + 1
      BY <1>1, <1>3
    <3> QED
      BY <1>0, <1>2, <3>1, Sizes
  <2>2. ASSUME NEW i \in 1 .. SND - snd_bitcount'
        PROVE  got'[i] = OrderBit(a, i)
    <3>1. CASE i <= SND - snd_bitcount
      <4>1. got'[i] = got[i] /\ i \in 1 .. SND - snd_bitcount
        BY <1>0, <1>1, <1>3, <3>1, Sizes
      <4> QED
        BY <1>0, <4>1
    <3>2. CASE i > SND - snd_bitcount
      <4>1. i = 1 + (SND - snd_bitcount)
        BY <1>0, <1>2, <3>2, Sizes
      <4>2. got'[i] = cmd_addr[1]
        BY <1>0, <1>1, <1>3, <4>1, Sizes
      <4> QED
        BY <1>4, <4>1, <4>2
    <3> QED
      BY <1>0, <1>2, <3>1, <3>2, Sizes
  <2> QED
    BY <2>1, <2>2 DEF Taken
<1>6. CASE snd_bitcount = 1
  <2>1. /\ snd_bitcount' = 0 /\ rcv_bitcount' = RCV
        /\ SND - snd_bitcount' = SND /\ RCV - rcv_bitcount' = 0
    BY <1>2, <1>6, Sizes
  <2>2. out' = RCV - rcv_bitcount' + 1
    <3>1. Len(got') = SND
      BY <1>5, <2>1 DEF Taken
    <3>2. 0 % CHIP_BITS = 0
      BY Sizes, SmallMod
    <3> QED
      BY <1>0, <2>1, <3>1, <3>2 DEF ChipClk
  <2>3. Received(a, 0)'
    BY DEF Received
  <2>4. ~sending' /\ rcv_bitcount' <= RCV
    BY <2>1, Sizes DEF sending
  <2>5. Taken(a, SND)' /\ Received(a, RCV - rcv_bitcount)'
    BY <1>5, <2>1, <2>3 DEF Taken, Received
  <2>6. Receiving(a)'
    <3> HIDE DEF Receiving
    <3> QED
      BY <2>2, <2>4, <2>5 DEF Receiving
  <2> QED
    BY <1>2, <2>6 DEF Reading, rbusy
<1>7. CASE snd_bitcount # 1
  <2>1. /\ snd_bitcount' \in 1 .. SND /\ rcv_bitcount' = 0
    BY <1>0, <1>2, <1>7, Sizes
  <2>2. out' = 0
    <3>1. Len(got') # SND
      BY <1>0, <1>1, <1>3, <1>7, Sizes
    <3> QED
      BY <1>0, <3>1 DEF ChipClk
  <2>3. ASSUME NEW i \in 1 .. ORDER
        PROVE  cmd_addr'[i] = OrderBit(a, i + (SND - snd_bitcount'))
    <3>0. i + (SND - snd_bitcount') = i + 1 + (SND - snd_bitcount)
      BY <1>0, <1>2, Sizes
    <3>1. cmd_addr'[i] = IF i < ORDER THEN cmd_addr[i + 1] ELSE 1
      <4>1. 1 \in {0, 1} /\ Len(cmd_addr) > 0
        BY <1>1, Sizes
      <4>2. \A j \in 1 .. Len(cmd_addr) :
              Shifted(cmd_addr, <<1>>)[j] = IF j < Len(cmd_addr) THEN cmd_addr[j + 1] ELSE 1
        BY <1>1, <4>1, Shift
      <4> QED
        BY <1>1, <1>2, <4>2
    <3>2. CASE i < ORDER
      <4>1. i + 1 \in 1 .. ORDER
        BY <3>2, Sizes
      <4> QED
        BY <1>0, <3>0, <3>1, <3>2, <4>1
    <3>3. CASE ~(i < ORDER)
      <4>1. i + 1 + (SND - snd_bitcount) \in Nat /\ i + 1 + (SND - snd_bitcount) > ORDER
        BY <1>0, <3>3, Sizes
      <4> QED
        BY <3>0, <3>1, <3>3, <4>1, OrderSent
    <3> QED
      BY <3>2, <3>3
  <2>4. sending' /\ ~receiving' /\ snd_bitcount' <= SND
    BY <2>1, Sizes DEF sending, receiving
  <2>6. Sending(a)'
    BY <1>5, <2>2, <2>3, <2>4 DEF Sending
  <2> QED
    BY <1>2, <2>6 DEF Reading, rbusy
<1> QED
  BY <1>6, <1>7

\* A register shifts and keeps its length.
LEMMA ReceiveShift ==
  ASSUME FlashTypeOK, NEW b, rcv_data' = Shifted(rcv_data, <<b>>)
  PROVE  /\ rcv_data' = [i \in 1 .. RCV |-> rcv_data'[i]]
         /\ \A i \in 1 .. RCV : rcv_data'[i] = IF i < RCV THEN rcv_data[i + 1] ELSE b
<1> DEFINE S == { rcv_data[i] : i \in 1 .. RCV } \cup {b}
<1>1. rcv_data = [i \in 1 .. RCV |-> rcv_data[i]]
  BY DEF FlashTypeOK
<1>2. rcv_data \in [1 .. RCV -> S]
  BY <1>1
<1> HIDE DEF S
<1>3. rcv_data \in Seq(S) /\ Len(rcv_data) = RCV /\ RCV > 0
  BY <1>2, Sizes
<1>4. b \in S
  BY DEF S
<1>5. /\ rcv_data' \in Seq(S) /\ Len(rcv_data') = RCV
      /\ \A i \in 1 .. RCV : rcv_data'[i] = IF i < RCV THEN rcv_data[i + 1] ELSE b
  BY <1>3, <1>4, Shift
<1>6. rcv_data' \in [1 .. RCV -> S]
  BY <1>5, LenProperties
<1> QED
  BY <1>5, <1>6

\* While it receives, the register takes a bit of the word each clock; after the
\* last one the chip is no longer selected.
LEMMA ReceiveStep ==
  ASSUME FlashTypeOK, NEW a \in FlashWord, rbusy, Receiving(a), FlashShift, ChipClk
  PROVE  Reading(a)' \/ (Quiet' /\ Received(a, RCV)')
<1>0. /\ snd_bitcount = 0 /\ rcv_bitcount \in 0 .. RCV /\ ~CS_N
      /\ Taken(a, SND) /\ Len(got) = SND
      /\ rcv_bitcount # 0 => out = RCV - rcv_bitcount + 1
      /\ Received(a, RCV - rcv_bitcount)
  BY Sizes DEF Receiving, Taken, sending, receiving, rbusy, FlashTypeOK
<1>1. CASE rcv_bitcount = 0
  <2>1. snd_bitcount' = 0 /\ rcv_bitcount' = 0 /\ rcv_data' = rcv_data /\ CS_N'
    BY <1>0, <1>1 DEF FlashShift, sending, receiving, flash_busy
  <2>2. Quiet'
    BY <2>1 DEF Quiet, rbusy, flash_busy, sending, receiving
  <2>3. RCV - rcv_bitcount = RCV
    BY <1>1, Sizes
  <2>4. Received(a, RCV)
    BY <1>0, <2>3
  <2>5. Received(a, RCV)'
    BY <2>1, <2>4 DEF Received
  <2> QED
    BY <2>2, <2>5
<1>2. CASE rcv_bitcount # 0
  <2>1. /\ snd_bitcount' = 0 /\ rcv_bitcount' = rcv_bitcount - 1 /\ ~CS_N'
        /\ rcv_data' = Shifted(rcv_data, <<MISO>>)
    BY <1>0, <1>2 DEF FlashShift, sending, receiving, flash_busy
  <2>2. /\ out = RCV - rcv_bitcount + 1 /\ out # 0 /\ out - 1 = RCV - rcv_bitcount
    BY <1>0, <1>2, Sizes
  <2>3. MISO = BitFrom(BYTES * a, RCV - rcv_bitcount)
    BY <1>0, <2>2, ChipHears
  <2>4. got' = got
    BY <1>0, Sizes DEF ChipClk
  <2>5. Taken(a, SND)'
    BY <1>0, <2>4 DEF Taken
  <2>6. rcv_bitcount' # 0 => out' = RCV - rcv_bitcount' + 1
    <3> SUFFICES ASSUME rcv_bitcount' # 0
                 PROVE  out' = RCV - rcv_bitcount' + 1
      OBVIOUS
    <3>1. out \in 0 .. CHIP_BITS - 1
      BY <1>0, <1>2, <2>1, <2>2, Sizes
    <3>2. out % CHIP_BITS = out
      BY <3>1, Sizes, SmallMod
    <3>3. out' = out + 1
      BY <1>0, <2>4, <3>2 DEF ChipClk
    <3> QED
      BY <1>0, <2>1, <2>2, <3>3, Sizes
  <2>7. Received(a, RCV - rcv_bitcount)'
    <3> DEFINE n == RCV - rcv_bitcount
    <3>1. RCV - rcv_bitcount' = n + 1 /\ n \in 0 .. RCV - 1
      BY <1>0, <1>2, <2>1, Sizes
    <3>2. \A i \in 1 .. RCV : rcv_data'[i] = IF i < RCV THEN rcv_data[i + 1] ELSE MISO
      BY <2>1, ReceiveShift
    <3>3. \A i \in 1 .. n : rcv_data[RCV - n + i] = BitFrom(BYTES * a, i - 1)
      BY <1>0 DEF Received
    <3> HIDE DEF n
    <3>4. ASSUME NEW i \in 1 .. n + 1
          PROVE  rcv_data'[RCV - (n + 1) + i] = BitFrom(BYTES * a, i - 1)
      <4>1. CASE i = n + 1
        <5>1. RCV - (n + 1) + i = RCV /\ i - 1 = n
          BY <3>1, <4>1, Sizes
        <5> QED
          BY <2>3, <3>2, <5>1, Sizes DEF n
      <4>2. CASE i # n + 1
        <5>1. /\ i \in 1 .. n
              /\ RCV - (n + 1) + i \in 1 .. RCV /\ RCV - (n + 1) + i < RCV
              /\ RCV - (n + 1) + i + 1 = RCV - n + i
          BY <3>1, <4>2, Sizes
        <5>2. rcv_data'[RCV - (n + 1) + i] = rcv_data[RCV - n + i]
          BY <3>2, <5>1
        <5> QED
          BY <3>3, <5>1, <5>2
      <4> QED
        BY <4>1, <4>2
    <3> QED
      BY <3>1, <3>4 DEF Received
  <2>8. ~sending' /\ rcv_bitcount' <= RCV
    BY <1>0, <2>1, Sizes DEF sending
  <2>9. Receiving(a)'
    <3> HIDE DEF Receiving
    <3> QED
      BY <2>5, <2>6, <2>7, <2>8 DEF Receiving, receiving
  <2> QED
    BY <2>1, <2>9 DEF Reading, rbusy
<1> QED
  BY <1>1, <1>2

\* Element j of a slice that starts behind the first k of m.
LEMMA Within ==
  ASSUME NEW k \in Nat, NEW n \in Nat, NEW m \in Nat, k + n <= m, NEW j \in 1 .. n
  PROVE  k + j \in 1 .. m /\ (k + j) - 1 = k + (j - 1) /\ j - 1 \in 0 .. n - 1
OBVIOUS

\* Two counts, and a step on which neither grows.
LEMMA SumFalls ==
  ASSUME NEW c \in Nat, NEW d \in Nat, NEW s \in Nat, NEW t \in Nat,
         d <= c, c # 0 => d < c, t <= s, c = 0 => t = 0
  PROVE  /\ c + s \in Nat /\ d + t \in Nat
         /\ d + t <= c + s
         /\ c + s # 0 => d + t < c + s
OBVIOUS

\* The register at the end of a read is the word.
LEMMA WordReceived ==
  ASSUME NEW a \in FlashWord, NEW R, NEW r \in [1 .. RCV -> R],
         \A i \in 1 .. RCV : r[i] = BitFrom(BYTES * a, i - 1)
  PROVE  Swizzled(r) = FlashWords[a]
<1> DEFINE S == R \cup {0, 1}
<1>1. r \in Seq(S) /\ Len(r) = RCV
  BY Sizes
<1>2. /\ BYTES \in Nat \ {0} /\ BYTE_BITS \in Nat \ {0}
      /\ CHIP_BYTES \in Nat \ {0} /\ a \in Nat
  BY FlashAssumption
<1>r. RCV = BYTES * BYTE_BITS
  BY DEF RCV
<1>3. ASSUME NEW b \in Nat
      PROVE  ChipByte(b) \in Seq({0, 1}) /\ Len(ChipByte(b)) = BYTE_BITS
  <2>1. b % CHIP_BYTES \in 0 .. CHIP_BYTES - 1
    BY <1>2, SMTT(30)
  <2>2. ChipByte(b) \in [1 .. BYTE_BITS -> {0, 1}]
    BY <2>1, FlashAssumption DEF ChipByte
  <2> QED
    BY <1>2, <2>2
<1>4. ASSUME NEW i \in 0 .. BYTES - 1
      PROVE  SubSeq(r, RCV - (BYTES - 1 - i) * BYTE_BITS - BYTE_BITS + 1,
                       RCV - (BYTES - 1 - i) * BYTE_BITS) = ChipByte(BYTES * a + i)
  <2> DEFINE k == i * BYTE_BITS
             t == ChipByte(BYTES * a + i)
  <2>1. /\ RCV - (BYTES - 1 - i) * BYTE_BITS = k + BYTE_BITS
        /\ k \in Nat /\ k + BYTE_BITS <= RCV
    <3>1. (BYTES - 1 - i) * BYTE_BITS = RCV - BYTE_BITS - k
      BY <1>2, <1>r, Z3T(30)
    <3>2. k \in Nat
      BY <1>2, SMTT(30)
    <3>3. (BYTES - 1 - i) * BYTE_BITS \in Nat
      <4>1. BYTES - 1 - i \in Nat
        BY <1>2
      <4> QED
        BY <1>2, <4>1, SMTT(30)
    <3> DEFINE m == (BYTES - 1 - i) * BYTE_BITS
    <3>4. m = RCV - BYTE_BITS - k /\ m \in Nat /\ k \in Nat /\ RCV \in Nat /\ BYTE_BITS \in Nat
      BY <1>2, <3>1, <3>2, <3>3, Sizes
    <3> HIDE DEF k, m
    <3>5. RCV - m = k + BYTE_BITS /\ k \in Nat /\ k + BYTE_BITS <= RCV
      BY <3>4
    <3> QED
      BY <3>5 DEF m
  <2>2. BYTES * a + i \in Nat
    BY <1>2, SMTT(30)
  <2>3. t \in Seq(S) /\ Len(t) = BYTE_BITS
    <3>1. t \in Seq({0, 1}) /\ Len(t) = BYTE_BITS
      BY <1>3, <2>2
    <3>2. {0, 1} \subseteq S
      OBVIOUS
    <3> HIDE DEF t, S
    <3>3. \A j \in 1 .. Len(t) : t[j] \in S
      BY <3>1, <3>2
    <3> QED
      BY <3>1, <3>3, SeqDef
  <2> DEFINE last == RCV - (BYTES - 1 - i) * BYTE_BITS
  <2>k. k = i * BYTE_BITS
    OBVIOUS
  <2>4. k \in Nat /\ k + BYTE_BITS <= RCV /\ last = k + BYTE_BITS
    BY <2>1
  <2> HIDE DEF S, k, t, last
  <2>5. ASSUME NEW j \in 1 .. BYTE_BITS
        PROVE  r[k + j] = t[j]
    <3>1. k + j \in 1 .. RCV /\ (k + j) - 1 = k + (j - 1) /\ j - 1 \in 0 .. BYTE_BITS - 1
      <4>1. BYTE_BITS \in Nat /\ RCV \in Nat
        BY <1>2, Sizes
      <4> QED
        BY <2>4, <4>1, Within
    <3>2. r[k + j] = BitFrom(BYTES * a, (k + j) - 1)
      BY <3>1, Zenon
    <3>3. (k + (j - 1)) \div BYTE_BITS = i /\ (k + (j - 1)) % BYTE_BITS = j - 1
      <4>1. i \in Nat
        BY <1>2
      <4>2. /\ (i * BYTE_BITS + (j - 1)) \div BYTE_BITS = i
            /\ (i * BYTE_BITS + (j - 1)) % BYTE_BITS = j - 1
        BY <1>2, <3>1, <4>1, DivMod
      <4> QED
        BY <2>k, <4>2, Zenon
    <3>4. j - 1 + 1 = j
      BY <1>2
    <3>5. BitFrom(BYTES * a, k + (j - 1)) = t[j]
      BY <3>3, <3>4, Zenon DEF BitFrom, t
    <3> QED
      BY <3>1, <3>2, <3>5, Zenon
  <2>6. SubSeq(r, k + 1, k + BYTE_BITS) = t
    <3>1. k + Len(t) <= Len(r)
      BY <1>1, <2>3, <2>4
    <3>2. \A j \in 1 .. Len(t) : r[k + j] = t[j]
      BY <2>3, <2>5
    <3>3. SubSeq(r, k + 1, k + Len(t)) = t
      BY <1>1, <2>3, <2>4, <3>1, <3>2, Slice
    <3> QED
      BY <2>3, <3>3
  <2>7. last - BYTE_BITS + 1 = k + 1
    BY <1>2, <2>4
  <2> QED
    BY <2>4, <2>6, <2>7, Zenon DEF t, last
<1>5. Swizzled(r) = [i \in 0 .. BYTES - 1 |-> ChipByte(BYTES * a + i)]
  <2>1. Swizzled(r) = [i \in 0 .. BYTES - 1 |->
                         SubSeq(r, RCV - (BYTES - 1 - i) * BYTE_BITS - BYTE_BITS + 1,
                                   RCV - (BYTES - 1 - i) * BYTE_BITS)]
    BY <1>1 DEF Swizzled
  <2> QED
    BY <1>4, <2>1
<1> QED
  BY <1>5 DEF FlashWords

\* A driver at rest stays so, and keeps the word.
LEMMA QuietStep ==
  ASSUME Quiet, FlashShift
  PROVE  Quiet' /\ rcv_data' = rcv_data
BY DEF Quiet, FlashShift, rbusy, flash_busy, sending, receiving

\* Every clock on which it is not strobed brings the driver closer to its rest.
LEMMA DrainStep ==
  ASSUME FlashTypeOK, FlashShift
  PROVE  /\ ClocksLeft \in Nat /\ ClocksLeft' \in Nat
         /\ ClocksLeft' <= ClocksLeft
         /\ ClocksLeft # 0 => ClocksLeft' < ClocksLeft
<1> DEFINE count  == IF sending THEN snd_bitcount + COUNT_MAX ELSE rcv_bitcount
           select == IF rbusy THEN 1 ELSE 0
<1>0. /\ snd_bitcount \in 0 .. COUNT_MAX /\ rcv_bitcount \in 0 .. COUNT_MAX
      /\ RCV \in Nat \ {0} /\ RCV <= COUNT_MAX /\ COUNT_MAX \in Nat
  BY Sizes DEF FlashTypeOK
<1>1. /\ count \in Nat /\ count' \in Nat
      /\ count' <= count
      /\ count # 0 => count' < count
  BY <1>0 DEF FlashShift, sending, receiving
<1>2. /\ select \in {0, 1} /\ select' \in {0, 1}
      /\ select' <= select
      /\ count = 0 => select' = 0
  <2>1. count = 0 => ~flash_busy
    BY <1>0 DEF flash_busy, sending, receiving
  <2> HIDE DEF count
  <2> QED
    BY <2>1 DEF FlashShift, rbusy
<1>3. ClocksLeft = count + select /\ ClocksLeft' = count' + select'
  BY DEF ClocksLeft
<1>4. /\ count + select \in Nat /\ count' + select' \in Nat
      /\ count' + select' <= count + select
      /\ count + select # 0 => count' + select' < count + select
  <2>1. select \in Nat /\ select' \in Nat
    BY <1>2
  <2> HIDE DEF count, select
  <2> QED
    BY <1>1, <1>2, <2>1, SumFalls
<1> HIDE DEF count, select
<1> QED
  BY <1>3, <1>4, Zenon

-------------------------------------------------------------------------------
(* The system. *)

\* Addresses are of the RAM or of the flash, and those of the flash name words.
LEMMA Addresses ==
  ASSUME FlashTypeOK
  PROVE  /\ ~is("ram") => is("flash") /\ mem_address.word \in FlashWord
         /\ is("flash") => ~is("ram") /\ mem_address.word \in FlashWord
         /\ RESET_ADDR \in CodeAddress
<1>1. mem_address \in [page : {"ram"}, word : RamWord] \cup [page : {"flash"}, word : FlashWord]
  BY MemoryAssumption DEF FlashTypeOK, mem_address
<1> QED
  BY <1>1, MemoryAssumption DEF is

\* What a clock does to the processor: it goes from state to state, and waits
\* while the flash is busy.
LEMMA ProcessorStep ==
  ASSUME FlashTypeOK, ProcessorClk(rbusy, FALSE)
  PROVE  /\ state' \in States
         /\ PC' \in CodeAddress
         /\ loadstore_addr' \in DataAddress
         /\ ~cpuReset => state' = "WAIT_ALU_OR_MEM"
         /\ state = "FETCH_INSTR" /\ cpuReset => state' = "WAIT_INSTR" /\ PC' = PC
         /\ state = "EXECUTE" /\ cpuReset /\ isLoad =>
               state' = "WAIT_ALU_OR_MEM" /\ loadstore_addr' = loadstore_addr
         /\ state = "EXECUTE" => state' # "WAIT_INSTR"
         /\ state = "WAIT_ALU_OR_MEM" => state' # "WAIT_INSTR"
         /\ state = "WAIT_INSTR" /\ state' = "WAIT_INSTR" => rbusy /\ PC' = PC
         /\ state = "WAIT_ALU_OR_MEM" /\ cpuReset => loadstore_addr' = loadstore_addr
         /\ rbusy /\ state \in {"WAIT_INSTR", "WAIT_ALU_OR_MEM"} =>
               state' \in {"WAIT_INSTR", "WAIT_ALU_OR_MEM"}
<1>0. state \in States /\ PC \in CodeAddress /\ loadstore_addr \in DataAddress
      /\ RESET_ADDR \in CodeAddress
  BY MemoryAssumption DEF FlashTypeOK
<1>1. CASE ~cpuReset
  BY <1>0, <1>1 DEF ProcessorClk, HoldReset, States
<1>2. CASE cpuReset /\ FetchInstr /\ UNCHANGED <<PC, loadstore_addr, rs2>>
  BY <1>0, <1>2 DEF FetchInstr, States
<1>3. CASE cpuReset /\ Latch(rbusy) /\ UNCHANGED PC
  <2>1. /\ state = "WAIT_INSTR" /\ PC' = PC
        /\ IF rbusy THEN state' = state ELSE state' = "EXECUTE"
        /\ IF rbusy THEN loadstore_addr' = loadstore_addr ELSE loadstore_addr' \in DataAddress
    BY <1>3 DEF Latch, WaitInstr
  <2> QED
    BY <1>0, <1>3, <2>1 DEF States
<1>4. CASE cpuReset /\ Execute /\ PC' \in CodeAddress /\ UNCHANGED <<loadstore_addr, rs2>>
  BY <1>0, <1>4 DEF Execute, needToWait, States
<1>5. CASE cpuReset /\ WaitAluOrMem(rbusy, FALSE) /\ UNCHANGED <<PC, loadstore_addr, rs2>>
  BY <1>0, <1>5 DEF WaitAluOrMem, States
<1> QED
  BY <1>1, <1>2, <1>3, <1>4, <1>5 DEF ProcessorClk

\* A clock keeps the registers within their widths.
LEMMA TypeStep ==
  ASSUME FlashTypeOK, Next
  PROVE  FlashTypeOK'
<1>0. /\ ProcessorClk(rbusy, FALSE) /\ ResetCounter
      /\ asked' = IF flash_rstrb /\ (cpuReset \/ asked # -1) THEN mem_address.word ELSE asked
      /\ ChipClk
      /\ IF flash_rstrb THEN FlashRead(mem_address.word) ELSE FlashShift
  BY DEF Next, BusClk, FlashClk
<1>1. state' \in States /\ PC' \in CodeAddress /\ loadstore_addr' \in DataAddress
  BY <1>0, ProcessorStep
<1>2. reset_cnt' \in 0 .. RESET_CNT_MAX
  BY <1>0, SoCAssumption DEF ResetCounter, reset, FlashTypeOK
<1>3. flash_rstrb => mem_address.word \in FlashWord
  BY Addresses DEF flash_rstrb
<1>4. asked' \in FlashWord \cup {-1}
  BY <1>0, <1>3 DEF FlashTypeOK
<1>5. cmd_addr \in Seq({0, 1}) /\ Len(cmd_addr) = ORDER /\ MOSI \in {0, 1}
  BY Sizes DEF FlashTypeOK, MOSI
<1>6. got' \in Seq({0, 1}) /\ out' \in Nat
  <2>1. got \in Seq({0, 1}) /\ out \in Nat
    BY DEF FlashTypeOK
  <2>2. got' = <<>> \/ got' = got \/ got' = Append(got, MOSI)
    BY <1>0 DEF ChipClk
  <2>3. got' \in Seq({0, 1})
    <3>1. Append(got, MOSI) \in Seq({0, 1})
      <4> DEFINE b == MOSI
      <4>1. b \in {0, 1}
        BY <1>5
      <4> HIDE DEF b
      <4>2. Append(got, b) \in Seq({0, 1})
        BY <2>1, <4>1
      <4> QED
        BY <4>2 DEF b
    <3>2. <<>> \in Seq({0, 1})
      OBVIOUS
    <3> QED
      BY <2>1, <2>2, <3>1, <3>2, Zenon
  <2>4. out % CHIP_BITS \in Nat
    BY <2>1, Sizes, SMTT(30)
  <2>5. out' \in {0, (out % CHIP_BITS) + 1}
    BY <1>0 DEF ChipClk
  <2> QED
    BY <2>3, <2>4, <2>5
<1>7. CASE flash_rstrb
  <2>1. /\ snd_bitcount' = SND /\ rcv_bitcount' = rcv_bitcount /\ rcv_data' = rcv_data
        /\ cmd_addr' = Command \o ByteAddress(mem_address.word)
    BY <1>0, <1>7 DEF FlashRead
  <2>2. cmd_addr' \in Seq({0, 1}) /\ Len(cmd_addr') = ORDER
    BY <1>3, <1>7, <2>1, OrderSent
  <2>3. snd_bitcount' \in 0 .. COUNT_MAX /\ rcv_bitcount' \in 0 .. COUNT_MAX
    BY <2>1, Sizes DEF FlashTypeOK
  <2>4. rcv_data' = [i \in 1 .. RCV |-> rcv_data'[i]]
    BY <2>1 DEF FlashTypeOK
  <2> QED
    BY <1>1, <1>2, <1>4, <1>6, <2>2, <2>3, <2>4 DEF FlashTypeOK
<1>8. CASE ~flash_rstrb
  <2>1. FlashShift
    BY <1>0, <1>8
  <2>2. snd_bitcount' \in 0 .. COUNT_MAX /\ rcv_bitcount' \in 0 .. COUNT_MAX
    BY <2>1, Sizes DEF FlashShift, FlashTypeOK, sending, receiving
  <2>3. cmd_addr' \in Seq({0, 1}) /\ Len(cmd_addr') = ORDER
    <3>1. cmd_addr' \in {cmd_addr, Shifted(cmd_addr, <<1>>)}
      BY <2>1 DEF FlashShift
    <3>2. 1 \in {0, 1} /\ Len(cmd_addr) > 0
      BY <1>5, Sizes
    <3>3. Shifted(cmd_addr, <<1>>) \in Seq({0, 1}) /\ Len(Shifted(cmd_addr, <<1>>)) = ORDER
      BY <1>5, <3>2, Shift
    <3> QED
      BY <1>5, <3>1, <3>3
  <2>4. rcv_data' = [i \in 1 .. RCV |-> rcv_data'[i]]
    <3>1. CASE receiving
      <4>1. rcv_data' = Shifted(rcv_data, <<MISO>>)
        BY <2>1, <3>1 DEF FlashShift
      <4> QED
        BY <4>1, ReceiveShift
    <3>2. CASE ~receiving
      <4>1. rcv_data' = rcv_data
        BY <2>1, <3>2 DEF FlashShift
      <4> QED
        BY <4>1 DEF FlashTypeOK
    <3> QED
      BY <3>1, <3>2
  <2> QED
    BY <1>1, <1>2, <1>4, <1>6, <2>2, <2>3, <2>4 DEF FlashTypeOK
<1> QED
  BY <1>7, <1>8

\* What a clock does to the driver once it is drained: at rest it stays so, with
\* its word, until a strobe starts a read, and at the end of the read of a word
\* it rests with that word.
LEMMA DriverStep ==
  ASSUME FlashTypeOK, BusInv, DriverInv, Next
  PROVE  \/ /\ Quiet /\ flash_rstrb
            /\ \E a \in FlashWord : /\ a = mem_address.word
                                    /\ Reading(a)' /\ asked' \in {a, -1}
         \/ /\ Quiet /\ ~flash_rstrb
            /\ Quiet' /\ rcv_data' = rcv_data
            /\ asked' = asked
         \/ /\ rbusy /\ ~flash_rstrb
            /\ asked' = asked
            /\ \E a \in FlashWord : /\ asked \in {a, -1}
                                    /\ Reading(a)' \/ (Quiet' /\ Received(a, RCV)')
<1>0. /\ asked' = IF flash_rstrb /\ (cpuReset \/ asked # -1) THEN mem_address.word ELSE asked
      /\ ChipClk
      /\ IF flash_rstrb THEN FlashRead(mem_address.word) ELSE FlashShift
  BY DEF Next, BusClk, FlashClk
<1>1. CASE Quiet /\ flash_rstrb
  <2>1. PICK a \in FlashWord : a = mem_address.word
    BY <1>1, Addresses DEF flash_rstrb
  <2>2. FlashClk(TRUE, a)
    BY <1>0, <1>1, <2>1 DEF FlashClk
  <2>3. Reading(a)'
    BY <1>1, <2>2, StrobeStep
  <2> QED
    BY <1>0, <1>1, <2>1, <2>3
<1>2. CASE Quiet /\ ~flash_rstrb
  BY <1>0, <1>2, QuietStep
<1>3. CASE \E a \in FlashWord : Reading(a) /\ asked \in {a, -1}
  <2>1. PICK a \in FlashWord : Reading(a) /\ asked \in {a, -1}
    BY <1>3
  <2>2. rbusy /\ (Sending(a) \/ Receiving(a))
    BY <2>1 DEF Reading
  <2>3. ~flash_rstrb
    BY <2>2 DEF BusInv, flash_rstrb, mem_rstrb, Executing
  <2>4. FlashShift /\ asked' = asked
    BY <1>0, <2>3
  <2>5. CASE Sending(a)
    BY <1>0, <2>1, <2>2, <2>3, <2>4, <2>5, SendStep
  <2>6. CASE Receiving(a)
    BY <1>0, <2>1, <2>2, <2>3, <2>4, <2>6, ReceiveStep
  <2> QED
    BY <2>2, <2>5, <2>6
<1> QED
  BY <1>1, <1>2, <1>3 DEF DriverInv

\* The counter of the reset at the first clock, and the clocks e to spare.
LEMMA CountStarts ==
  ASSUME NEW M \in Nat, NEW n \in {0, 1}, NEW d \in Nat, NEW e \in Nat, d <= e, e < M
  PROVE  n + d <= M
OBVIOUS

\* The counter n of the reset has moved to m, the clocks left from c to d.
LEMMA CountRises ==
  ASSUME NEW M \in Nat, NEW n \in 0 .. M, n # M, NEW m \in {0, n + 1},
         NEW c \in Nat, NEW d \in Nat, d <= c, c # 0 => d < c, n + c <= M
  PROVE  m + d <= M
OBVIOUS

\* What a clock does to the memory bus once the driver is drained: the processor
\* goes on waiting while the driver reads, and for the word it needs.
LEMMA BusStep ==
  ASSUME FlashTypeOK, BusInv, DriverInv, Next
  PROVE  BusInv'
<1>0. /\ ProcessorClk(rbusy, FALSE) /\ RamClk /\ Loading
      /\ asked' = IF flash_rstrb /\ (cpuReset \/ asked # -1) THEN mem_address.word ELSE asked
      /\ IF flash_rstrb THEN FlashRead(mem_address.word) ELSE FlashShift
      /\ state \in States
  BY DEF Next, BusClk, FlashClk, FlashTypeOK
<1>1. rbusy' => state' \in {"WAIT_INSTR", "WAIT_ALU_OR_MEM"}
  <2>1. CASE flash_rstrb
    <3>1. state = "FETCH_INSTR" \/ (state = "EXECUTE" /\ isLoad)
      BY <2>1 DEF flash_rstrb, mem_rstrb, Executing
    <3> QED
      BY <1>0, <3>1, ProcessorStep
  <2>2. CASE ~flash_rstrb
    <3>1. rbusy' => rbusy
      BY <1>0, <2>2 DEF FlashShift, rbusy
    <3>2. rbusy => state \in {"WAIT_INSTR", "WAIT_ALU_OR_MEM"}
      BY DEF BusInv
    <3> QED
      BY <1>0, <3>1, <3>2, ProcessorStep
  <2> QED
    BY <2>1, <2>2
<1>2. loading' => state' = "WAIT_ALU_OR_MEM"
  BY <1>0 DEF Loading
<1>3. ASSUME state' = "WAIT_INSTR" \/ loading'
      PROVE  IF is("ram")' THEN ram_rdata' = RAM'[mem_address.word'] ELSE asked' = mem_address.word'
  <2>1. /\ cpuReset
        /\ \/ state = "FETCH_INSTR" /\ mem_rstrb
           \/ state = "EXECUTE" /\ isLoad /\ mem_rstrb
           \/ state = "WAIT_INSTR" /\ ~mem_rstrb
           \/ state = "WAIT_ALU_OR_MEM" /\ loading /\ ~mem_rstrb
        /\ mem_address' = mem_address /\ ~mem_wstrb
    <3>1. cpuReset
      BY <1>0, <1>3, ProcessorStep DEF Loading
    <3>2. CASE state' = "WAIT_INSTR"
      BY <1>0, <3>1, <3>2, ProcessorStep
      DEF mem_address, mem_rstrb, mem_wstrb, Executing, States
    <3>3. CASE loading'
      <4>1. isLoad /\ (state = "EXECUTE" \/ loading) /\ state' = "WAIT_ALU_OR_MEM"
        BY <1>0, <3>3 DEF Loading, Executing
      <4>2. loading => state = "WAIT_ALU_OR_MEM"
        BY DEF BusInv
      <4>3. ~isStore
        BY <4>1 DEF isLoad, isStore
      <4>4. loadstore_addr' = loadstore_addr
        BY <1>0, <3>1, <4>1, <4>2, ProcessorStep
      <4> QED
        BY <3>1, <4>1, <4>2, <4>3, <4>4
        DEF mem_address, mem_rstrb, mem_wstrb, Executing
    <3> QED
      BY <1>3, <3>2, <3>3
  <2>2. is("ram")' <=> is("ram")
    BY <2>1 DEF is
  <2>3. RAM' = RAM
    BY <1>0, <2>1 DEF RamClk
  <2>4. CASE is("ram")
    <3>1. ram_rdata' = RAM[mem_address.word]
      BY <1>0, <2>4 DEF RamClk
    <3> QED
      BY <2>1, <2>2, <2>3, <2>4, <3>1
  <2>5. CASE ~is("ram")
    <3>1. is("flash")
      BY <2>5, Addresses
    <3>2. CASE mem_rstrb
      <4>1. flash_rstrb
        BY <3>1, <3>2 DEF flash_rstrb
      <4> QED
        BY <1>0, <2>1, <2>2, <2>5, <4>1
    <3>3. CASE ~mem_rstrb
      <4>1. ~flash_rstrb
        BY <3>3 DEF flash_rstrb
      <4>2. asked = mem_address.word
        BY <2>1, <2>5, <3>3 DEF BusInv
      <4> QED
        BY <1>0, <2>1, <2>2, <2>5, <4>1, <4>2
    <3> QED
      BY <3>2, <3>3
  <2> QED
    BY <2>4, <2>5
<1> QED
  BY <1>1, <1>2, <1>3 DEF BusInv

\* In its first reset the processor can only strobe as it powers up, and then
\* the counter leaves the driver the clocks that it needs.
LEMMA PowerUpStep ==
  ASSUME FlashTypeOK, PowerUp, Next
  PROVE  Draining'
<1>0. /\ ProcessorClk(rbusy, FALSE) /\ Loading /\ ResetCounter
      /\ asked' = IF flash_rstrb /\ (cpuReset \/ asked # -1) THEN mem_address.word ELSE asked
      /\ IF flash_rstrb THEN FlashRead(mem_address.word) ELSE FlashShift
  BY DEF Next, BusClk, FlashClk
<1>1. ~reset /\ ~cpuReset
  BY SoCAssumption DEF PowerUp, reset, cpuReset
<1>2. state' = "WAIT_ALU_OR_MEM" /\ ~loading' /\ asked' = -1
  BY <1>0, <1>1, ProcessorStep DEF PowerUp, Loading
<1>3. reset_cnt' \in {0, 1}
  BY <1>0, <1>1 DEF ResetCounter, PowerUp
<1>4. SND \in Nat \ {0} /\ COUNT_MAX \in Nat /\ RESET_CNT_MAX \in Nat /\ SND <= COUNT_MAX
      /\ RESET_CNT_MAX > SND + 2 * COUNT_MAX
  BY Sizes, SoCAssumption, DrainAssumption
<1>5. ClocksLeft' \in Nat /\ ClocksLeft' <= SND + 2 * COUNT_MAX
  <2>1. CASE flash_rstrb
    <3>1. snd_bitcount' = SND
      BY <1>0, <2>1 DEF FlashRead
    <3>2. sending'
      BY <1>4, <3>1 DEF sending
    <3>3. ClocksLeft' = SND + COUNT_MAX + (IF rbusy' THEN 1 ELSE 0)
      BY <3>1, <3>2 DEF ClocksLeft
    <3>4. (IF rbusy' THEN 1 ELSE 0) \in {0, 1}
      OBVIOUS
    <3> QED
      BY <1>4, <3>3, <3>4
  <2>2. CASE ~flash_rstrb
    <3>1. ClocksLeft \in Nat /\ ClocksLeft' \in Nat /\ ClocksLeft' <= ClocksLeft
          /\ (ClocksLeft # 0 => ClocksLeft' < ClocksLeft)
      BY <1>0, <2>2, DrainStep
    <3>2. ClocksLeft <= 2 * COUNT_MAX
      <4>1. /\ snd_bitcount \in 0 .. COUNT_MAX /\ rcv_bitcount \in 0 .. COUNT_MAX
            /\ ~rbusy
        BY DEF FlashTypeOK, PowerUp
      <4> QED
        BY <1>4, <4>1 DEF ClocksLeft
    <3> DEFINE c == ClocksLeft
               d == ClocksLeft'
    <3>3. c \in Nat /\ d \in Nat /\ d <= c /\ c <= 2 * COUNT_MAX
      BY <3>1, <3>2
    <3> HIDE DEF c, d
    <3>4. d <= SND + 2 * COUNT_MAX
      BY <1>4, <3>3
    <3> QED
      BY <3>3, <3>4 DEF d
  <2> QED
    BY <2>1, <2>2
<1>6. reset_cnt' + ClocksLeft' <= RESET_CNT_MAX
  <2> DEFINE d == ClocksLeft'
  <2>1. d \in Nat /\ d <= SND + 2 * COUNT_MAX
    BY <1>5
  <2>2. SND + 2 * COUNT_MAX \in Nat
    BY <1>4
  <2> HIDE DEF d
  <2>3. reset_cnt' + d <= RESET_CNT_MAX
    BY <1>3, <1>4, <2>1, <2>2, CountStarts
  <2> QED
    BY <2>3 DEF d
<1> QED
  BY <1>2, <1>6 DEF Draining

\* The counter of the reset runs no faster than the driver comes to rest.
LEMMA DrainingStep ==
  ASSUME FlashTypeOK, Draining, Next, ~reset
  PROVE  Draining'
<1>0. /\ ProcessorClk(rbusy, FALSE) /\ Loading /\ ResetCounter
      /\ asked' = IF flash_rstrb /\ (cpuReset \/ asked # -1) THEN mem_address.word ELSE asked
      /\ IF flash_rstrb THEN FlashRead(mem_address.word) ELSE FlashShift
  BY DEF Next, BusClk, FlashClk
<1>1. ~cpuReset
  BY DEF cpuReset
<1>2. ~flash_rstrb
  BY DEF Draining, flash_rstrb, mem_rstrb, Executing
<1>3. state' = "WAIT_ALU_OR_MEM" /\ ~loading' /\ asked' = -1
  BY <1>0, <1>1, <1>2, ProcessorStep DEF Draining, Loading
<1>4. reset_cnt' + ClocksLeft' <= RESET_CNT_MAX
  <2> DEFINE c == ClocksLeft
             d == ClocksLeft'
  <2>1. /\ c \in Nat /\ d \in Nat /\ d <= c /\ (c # 0 => d < c)
    BY <1>0, <1>2, DrainStep
  <2>2. reset_cnt + c <= RESET_CNT_MAX
    BY DEF Draining
  <2>3. /\ reset_cnt \in 0 .. RESET_CNT_MAX /\ RESET_CNT_MAX \in Nat /\ reset_cnt # RESET_CNT_MAX
        /\ reset_cnt' \in {0, reset_cnt + 1}
    BY <1>0, SoCAssumption DEF FlashTypeOK, reset, ResetCounter
  <2> HIDE DEF c, d
  <2>4. reset_cnt' + d <= RESET_CNT_MAX
    BY <2>1, <2>2, <2>3, CountRises
  <2> QED
    BY <2>4 DEF d
<1> QED
  BY <1>3, <1>4 DEF Draining

\* As the reset ends the driver rests.
LEMMA Drained ==
  ASSUME FlashTypeOK, Draining, reset
  PROVE  Quiet /\ BusInv /\ DriverInv
<1> DEFINE count  == IF sending THEN snd_bitcount + COUNT_MAX ELSE rcv_bitcount
           select == IF rbusy THEN 1 ELSE 0
<1>0. /\ snd_bitcount \in 0 .. COUNT_MAX /\ rcv_bitcount \in 0 .. COUNT_MAX /\ COUNT_MAX \in Nat
      /\ reset_cnt = RESET_CNT_MAX /\ RESET_CNT_MAX \in Nat
  BY Sizes, SoCAssumption DEF FlashTypeOK, reset
<1>1. count \in Nat /\ select \in Nat
  BY <1>0
<1>2. RESET_CNT_MAX + (count + select) <= RESET_CNT_MAX
  BY <1>0 DEF Draining, ClocksLeft
<1>3. count = 0 /\ select = 0
  <2> HIDE DEF count, select
  <2> QED
    BY <1>0, <1>1, <1>2
<1>4. ~rbusy
  BY <1>3
<1>5. snd_bitcount = 0 /\ rcv_bitcount = 0
  BY <1>0, <1>3 DEF sending
<1> QED
  BY <1>4, <1>5 DEF Quiet, flash_busy, sending, receiving, BusInv, DriverInv, Draining

\* The counters of the driver may power up with any value.
LEMMA FlashInit_Inv == Init => FlashInv
<1> SUFFICES ASSUME Init PROVE FlashInv
  OBVIOUS
<1>1. BusInit /\ FlashInit /\ QuarkInit /\ ResetInit
  BY DEF Init, BusInit
<1>2. state \in States /\ ~loading /\ asked = -1 /\ ~rbusy /\ reset_cnt = 0
  BY <1>1 DEF BusInit, QuarkInit, ResetInit, FlashInit, rbusy
<1>3. PC \in CodeAddress /\ loadstore_addr \in DataAddress
  BY <1>1 DEF BusInit
<1>4. /\ cmd_addr = Command \o ByteAddress(0)
      /\ got = <<>> /\ out = 0
      /\ snd_bitcount \in 0 .. COUNT_MAX /\ rcv_bitcount \in 0 .. COUNT_MAX
      /\ rcv_data = [i \in 1 .. RCV |-> rcv_data[i]]
  BY <1>1 DEF FlashInit
<1>5. cmd_addr \in Seq({0, 1}) /\ Len(cmd_addr) = ORDER
  <2>1. BYTES * 0 \in Nat /\ ADDRESS_BITS \in Nat
    BY FlashAssumption
  <2>2. ByteAddress(0) \in Seq({0, 1}) /\ Len(ByteAddress(0)) = ADDRESS_BITS
    BY <2>1, BitsShape DEF ByteAddress
  <2> QED
    BY <1>4, <2>2, Sizes, ConcatProperties
<1>6. reset_cnt \in 0 .. RESET_CNT_MAX
  BY <1>2, SoCAssumption
<1>7. got \in Seq({0, 1}) /\ out \in Nat
  BY <1>4
<1>8. FlashTypeOK
  BY <1>2, <1>3, <1>4, <1>5, <1>6, <1>7 DEF FlashTypeOK
<1> QED
  BY <1>2, <1>8 DEF FlashInv, PowerUp

-------------------------------------------------------------------------------
(* The theorems. *)

\* Every clock keeps the invariant.
LEMMA StepKeepsInv ==
  FlashInv /\ [Next]_vars => FlashInv'
<1> SUFFICES ASSUME FlashInv, [Next]_vars
             PROVE  FlashInv'
  OBVIOUS
<1>1. CASE Next
  <2>1. FlashTypeOK /\ FlashTypeOK'
    BY <1>1, TypeStep DEF FlashInv
  <2>2. CASE PowerUp
    BY <1>1, <2>1, <2>2, PowerUpStep DEF FlashInv
  <2>3. CASE Draining /\ ~reset
    BY <1>1, <2>1, <2>3, DrainingStep DEF FlashInv
  <2>4. CASE (Draining /\ reset) \/ (BusInv /\ DriverInv)
    <3>1. BusInv /\ DriverInv
      BY <2>1, <2>4, Drained
    <3>2. BusInv'
      BY <1>1, <2>1, <3>1, BusStep
    <3>3. DriverInv'
      <4>1. CASE /\ Quiet /\ flash_rstrb
                 /\ \E a \in FlashWord : /\ a = mem_address.word
                                         /\ Reading(a)' /\ asked' \in {a, -1}
        BY <4>1 DEF DriverInv
      <4>2. CASE Quiet /\ ~flash_rstrb /\ Quiet' /\ rcv_data' = rcv_data /\ asked' = asked
        <5>1. asked # -1 => Received(asked, RCV)
          BY <3>1, <4>2 DEF DriverInv, Reading, Quiet
        <5> QED
          BY <4>2, <5>1 DEF DriverInv, Received
      <4>3. CASE /\ rbusy /\ ~flash_rstrb
                 /\ asked' = asked
                 /\ \E a \in FlashWord : /\ asked \in {a, -1}
                                         /\ Reading(a)' \/ (Quiet' /\ Received(a, RCV)')
        <5>1. PICK a \in FlashWord : /\ asked \in {a, -1}
                                     /\ Reading(a)' \/ (Quiet' /\ Received(a, RCV)')
          BY <4>3
        <5>2. CASE Reading(a)'
          BY <4>3, <5>1, <5>2 DEF DriverInv
        <5>3. CASE Quiet' /\ Received(a, RCV)'
          <6>1. asked' # -1 => Received(asked, RCV)'
            BY <4>3, <5>1, <5>3 DEF Received
          <6> QED
            BY <5>3, <6>1 DEF DriverInv
        <5> QED
          BY <5>1, <5>2, <5>3
      <4> QED
        BY <1>1, <2>1, <3>1, <4>1, <4>2, <4>3, DriverStep
    <3> QED
      BY <2>1, <3>2, <3>3 DEF FlashInv
  <2> QED
    BY <2>2, <2>3, <2>4 DEF FlashInv
<1>2. CASE UNCHANGED vars
  <2>1. FlashTypeOK'
    BY <1>2 DEF FlashInv, FlashTypeOK,
                vars, busVars, flashVars, driverVars, chipVars, quarkVars, resetVars
  <2>2. PowerUp => PowerUp'
    BY <1>2 DEF PowerUp, vars, busVars, flashVars, driverVars, quarkVars, resetVars, rbusy
  <2>3. Draining => Draining'
    BY <1>2 DEF Draining, ClocksLeft, sending, rbusy,
                vars, busVars, flashVars, driverVars, quarkVars, resetVars
  <2>4. BusInv => BusInv'
    BY <1>2 DEF BusInv, rbusy, is, mem_address,
                vars, busVars, flashVars, driverVars, quarkVars, resetVars
  <2>5. DriverInv => DriverInv'
    BY <1>2 DEF DriverInv, Quiet, Reading, Sending, Receiving, Taken, Received, rbusy, flash_busy,
                sending, receiving, vars, busVars, flashVars, driverVars, chipVars
  <2> QED
    BY <2>1, <2>2, <2>3, <2>4, <2>5 DEF FlashInv
<1> QED
  BY <1>1, <1>2

\* From the first reset on, whatever the counters of the driver held, the bus,
\* the driver and the chip agree on the word that is being read.
THEOREM FlashInvariant == Spec => []FlashInv
<1>1. Init => FlashInv
  BY FlashInit_Inv
<1>2. FlashInv /\ [Next]_vars => FlashInv'
  BY StepKeepsInv
<1> QED
  BY <1>1, <1>2, PTL DEF Spec

\* The wires to the processor when the whole word is in.
LEMMA ReadWord ==
  ASSUME NEW a \in FlashWord, NEW r, r = [i \in 1 .. RCV |-> r[i]],
         \A i \in 1 .. RCV : r[RCV - RCV + i] = BitFrom(BYTES * a, i - 1)
  PROVE  Swizzled(r) = FlashWords[a]
<1> DEFINE R == { r[i] : i \in 1 .. RCV }
<1>1. r \in [1 .. RCV -> R]
  OBVIOUS
<1>2. \A i \in 1 .. RCV : RCV - RCV + i = i
  BY Sizes
<1>3. \A i \in 1 .. RCV : r[i] = BitFrom(BYTES * a, i - 1)
  BY <1>2
<1> HIDE DEF R
<1> QED
  BY <1>1, <1>3, WordReceived

\* Where the processor takes a word the reset is over.
LEMMA InvTakes == FlashInv => TakesTheRightWord
<1> SUFFICES ASSUME FlashInv, TakesWord, ~rbusy
             PROVE  IF is("ram") THEN ram_rdata = RAM[mem_address.word]
                    ELSE rdata = FlashWords[mem_address.word]
  BY DEF TakesTheRightWord
<1>0. FlashTypeOK
  BY DEF FlashInv
<1>1. cpuReset /\ (state = "WAIT_INSTR" \/ loading)
  BY DEF TakesWord
<1>2. ~PowerUp
  BY <1>1, SoCAssumption DEF PowerUp, cpuReset, reset
<1>3. ~Draining
  BY <1>1 DEF Draining
<1>4. BusInv /\ DriverInv
  BY <1>2, <1>3 DEF FlashInv
<1>5. CASE is("ram")
  BY <1>1, <1>4, <1>5 DEF BusInv
<1>6. CASE ~is("ram")
  <2>1. PICK a \in FlashWord : a = mem_address.word
    BY <1>0, <1>6, Addresses
  <2>2. asked = a
    BY <1>1, <1>4, <1>6, <2>1 DEF BusInv
  <2>3. a # -1
    BY FlashAssumption
  <2>4. Received(a, RCV)
    BY <1>4, <2>2, <2>3 DEF DriverInv, Reading
  <2>5. rdata = FlashWords[a]
    BY <1>0, <2>4, ReadWord DEF rdata, Received, FlashTypeOK
  <2> QED
    BY <1>6, <2>1, <2>5
<1> QED
  BY <1>5, <1>6

\* What the processor takes from the bus, an instruction or data, is the word at
\* the address it drives.
THEOREM ProgramsReadRight == Spec => []TakesTheRightWord
BY FlashInvariant, InvTakes, PTL

-------------------------------------------------------------------------------
(* The driver is a memory port.                                            *)

busy_R == rbusy /\ asked # -1
word_R == IF asked = -1 THEN <<>> ELSE rdata

\* Each clock is a step of the port, or nothing that it shows.
LEMMA StepRefines ==
  ASSUME FlashInv, FlashInv', Next
  PROVE  ImplementsPort!Next \/ UNCHANGED <<busy_R, asked, word_R>>
<1>0. /\ FlashTypeOK /\ FlashTypeOK'
      /\ asked' = IF flash_rstrb /\ (cpuReset \/ asked # -1) THEN mem_address.word ELSE asked
  BY DEF FlashInv, Next, BusClk
<1>1. asked' = -1 => asked = -1
  <2>1. flash_rstrb => mem_address.word \in Nat
    BY <1>0, Addresses, FlashAssumption DEF flash_rstrb
  <2> QED
    BY <1>0, <2>1
<1>2. CASE asked' = -1
  BY <1>1, <1>2, Zenon DEF busy_R, word_R
<1>3. CASE asked' # -1
  <2>1. BusInv /\ DriverInv
    <3>1. CASE PowerUp
      <4>1. ~cpuReset
        BY <3>1, SoCAssumption DEF PowerUp, cpuReset, reset
      <4> QED
        BY <1>0, <1>3, <3>1, <4>1 DEF PowerUp
    <3>2. CASE Draining
      <4>1. ~flash_rstrb
        BY <3>2 DEF Draining, flash_rstrb, mem_rstrb, Executing
      <4> QED
        BY <1>0, <1>3, <3>2, <4>1 DEF Draining
    <3> QED
      BY <3>1, <3>2 DEF FlashInv
  <2>2. CASE /\ Quiet /\ flash_rstrb
             /\ \E a \in FlashWord : /\ a = mem_address.word
                                     /\ Reading(a)' /\ asked' \in {a, -1}
    <3>1. ~busy_R /\ busy_R' = TRUE /\ asked' \in FlashWord
      BY <1>3, <2>2 DEF busy_R, Quiet, Reading
    <3> QED
      BY <3>1 DEF ImplementsPort!Next, ImplementsPort!Ask, busy_R
  <2>3. CASE Quiet /\ ~flash_rstrb /\ Quiet' /\ rcv_data' = rcv_data /\ asked' = asked
    BY <2>3 DEF busy_R, word_R, rdata, Quiet
  <2>4. CASE /\ rbusy /\ ~flash_rstrb
             /\ asked' = asked
             /\ \E a \in FlashWord : /\ asked \in {a, -1}
                                     /\ Reading(a)' \/ (Quiet' /\ Received(a, RCV)')
    <3>1. PICK a \in FlashWord : /\ asked \in {a, -1}
                                 /\ Reading(a)' \/ (Quiet' /\ Received(a, RCV)')
      BY <2>4
    <3>2. asked = a /\ rbusy
      BY <1>3, <2>4, <3>1
    <3>3. CASE Reading(a)'
      <4>1. rbusy'
        BY <3>3 DEF Reading
      <4> QED
        BY <1>3, <2>4, <3>2, <4>1 DEF ImplementsPort!Next, ImplementsPort!Work
    <3>4. CASE Quiet' /\ Received(a, RCV)'
      <4>1. ~rbusy'
        BY <3>4 DEF Quiet
      <4>2. rdata' = FlashWords[a]
        BY <1>0, <3>4, ReadWord DEF rdata, Received, FlashTypeOK
      <4> QED
        BY <1>3, <2>4, <3>2, <4>1, <4>2 DEF ImplementsPort!Next, ImplementsPort!Answer
    <3> QED
      BY <3>1, <3>3, <3>4
  <2> QED
    BY <1>0, <2>1, <2>2, <2>3, <2>4, DriverStep
<1> QED
  BY <1>2, <1>3

\* The driver and the chip are a memory port: busy from the clock after each
\* strobe until the word asked for is there, which it then keeps, and never
\* strobed while it is busy.
THEOREM ImplementsMemoryPort == Spec => ReadsThroughPort
<1>1. Init => ImplementsPort!Init
  BY DEF Init, BusInit, FlashInit, rbusy, ImplementsPort!Init
<1>2. FlashInv /\ FlashInv' /\ [Next]_vars => [ImplementsPort!Next]_(ImplementsPort!portVars)
  <2> SUFFICES ASSUME FlashInv, FlashInv', [Next]_vars
               PROVE  ImplementsPort!Next \/ UNCHANGED ImplementsPort!portVars
    OBVIOUS
  <2>1. CASE Next
    BY <2>1, StepRefines DEF ImplementsPort!portVars, busy_R, word_R
  <2>2. CASE UNCHANGED vars
    BY <2>2 DEF ImplementsPort!portVars, rbusy, rdata, vars, busVars, flashVars, driverVars
  <2> QED
    BY <2>1, <2>2
<1> QED
  BY <1>1, <1>2, FlashInvariant, PTL DEF Spec, ReadsThroughPort, ImplementsPort!Spec

===============================================================================
