----------------------------- MODULE SoftFpuProof -----------------------------
(***************************************************************************)
(* The soft FPU is right, for all widths of the numbers and of the words   *)
(* that FpuAssumption allows, and all operands: sums, products and fused   *)
(* operations are within one unit in the last place of the exact result,   *)
(* comparisons and conversions to words return what ResultsAreRight says.  *)
(*                                                                         *)
(* The invariant says what each micro-instruction leaves of the exact      *)
(* result e (After).  Until ADD_SHIFT the registers add up to e exactly.   *)
(* ADD_SHIFT cuts the smaller number to the units of the larger one, and   *)
(* then Aligned has what makes the rest work: whenever bits are lost, the  *)
(* other mantissa is larger by the hidden bit and more, because one of the *)
(* two is an operand, widened by zeros. So a sum or difference that is     *)
(* off has more than MANT bits left (Nearly), and the units that are lost  *)
(* are smaller than its last place when NORM cuts it (Rounds).             *)
(***************************************************************************)
EXTENDS SoftFpu, WellFoundedInduction, SequenceTheorems, TLAPS

-------------------------------------------------------------------------------
(* Pow2 is the function its definition describes.                          *)

LessThan == { p \in Nat \X Nat : p[1] < p[2] }

\* A set that holds 0 and the successor of each of its numbers holds them all.
LEMMA SetInduction ==
  ASSUME NEW T, 0 \in T, \A n \in Nat : n \in T => n + 1 \in T
  PROVE  Nat \subseteq T
<1> DEFINE Missing == Nat \ T
<1> SUFFICES ASSUME Missing # {} PROVE FALSE
  OBVIOUS
<1>0. LessThan = OpToRel(<, Nat)
  BY DEF LessThan, OpToRel
<1>1. PICK m \in Missing : \A k \in Missing : <<k, m>> \notin LessThan
  BY <1>0, NatLessThanWellFounded, WFMin
<1>2. m \in Nat /\ m # 0 /\ m \notin T
  OBVIOUS
<1>3. m - 1 \in Nat /\ m - 1 + 1 = m
  BY <1>2
<1>4. <<m - 1, m>> \in LessThan
  BY <1>2, <1>3 DEF LessThan
<1> QED
  BY <1>1, <1>2, <1>3, <1>4

\* g is what the recursive definition of Pow2 describes, on 0 .. N.
Doubles(g, N) == g[0] = 1 /\ \A k \in 1 .. N : g[k] = 2 * g[k - 1]

\* There is such a function for every N, and only one.
LEMMA DoublesExist == \A N \in Nat : \E g \in [0 .. N -> Nat] : Doubles(g, N)
<1> DEFINE T == { n \in Nat : \E g \in [0 .. n -> Nat] : Doubles(g, n) }
<1>1. 0 \in T
  <2>1. Doubles([k \in 0 .. 0 |-> 1], 0)
    BY DEF Doubles
  <2> QED
    BY <2>1
<1>2. ASSUME NEW n \in Nat, n \in T
      PROVE  n + 1 \in T
  <2>1. PICK g \in [0 .. n -> Nat] : Doubles(g, n)
    BY <1>2
  <2> DEFINE h == [k \in 0 .. n + 1 |-> IF k \in 0 .. n THEN g[k] ELSE 2 * g[n]]
  <2>2. h \in [0 .. n + 1 -> Nat]
    OBVIOUS
  <2>3. Doubles(h, n + 1)
    <3>1. h[0] = 1
      BY <2>1 DEF Doubles
    <3>2. ASSUME NEW k \in 1 .. n + 1
          PROVE  h[k] = 2 * h[k - 1]
      <4>1. h[k - 1] = g[k - 1]
        OBVIOUS
      <4>2. CASE k \in 1 .. n
        BY <4>1, <4>2, <2>1 DEF Doubles
      <4>3. CASE k = n + 1
        BY <4>1, <4>3
      <4> QED
        BY <4>2, <4>3
    <3> QED
      BY <3>1, <3>2 DEF Doubles
  <2> QED
    BY <2>2, <2>3
<1> HIDE DEF T
<1>3. Nat \subseteq T
  BY <1>1, <1>2, SetInduction
<1> QED
  BY <1>3 DEF T

\* The shorter of two such functions is a part of the longer one.
LEMMA DoublesAgree ==
  ASSUME NEW N \in Nat, NEW g \in [0 .. N -> Nat], Doubles(g, N),
         NEW M \in Nat, N <= M, NEW h \in [0 .. M -> Nat], Doubles(h, M)
  PROVE  h[N] = g[N]
<1> DEFINE T == { n \in Nat : n <= N => h[n] = g[n] }
<1>1. 0 \in T
  BY DEF Doubles
<1>2. ASSUME NEW n \in Nat, n \in T
      PROVE  n + 1 \in T
  <2> SUFFICES ASSUME n + 1 <= N PROVE h[n + 1] = g[n + 1]
    OBVIOUS
  <2>1. h[n] = g[n] /\ n + 1 \in 1 .. N /\ n + 1 \in 1 .. M /\ (n + 1) - 1 = n
    BY <1>2
  <2> QED
    BY <2>1 DEF Doubles
<1> HIDE DEF T
<1>3. Nat \subseteq T
  BY <1>1, <1>2, SetInduction
<1> QED
  BY <1>3 DEF T

\* Powers of two are what their recursive definition says.
LEMMA Pow2Def == /\ Pow2 \in [Nat -> Nat \ {0}]
                 /\ Pow2[0] = 1
                 /\ \A n \in Nat : Pow2[n + 1] = 2 * Pow2[n]
<1> DEFINE body(f_) == [n \in Nat |-> IF n = 0 THEN 1 ELSE 2 * f_[n - 1]]
           F == CHOOSE f_ : f_ = body(f_)
           G(n) == CHOOSE g \in [0 .. n -> Nat] : Doubles(g, n)
           H == [n \in Nat |-> G(n)[n]]
<1>1. Pow2 = F
  BY DEF Pow2
<1>2. \A n \in Nat : G(n) \in [0 .. n -> Nat] /\ Doubles(G(n), n)
  BY DoublesExist
<1>3. \A n \in Nat : G(n)[n] \in Nat
  BY <1>2
<1>4. G(0)[0] = 1
  BY <1>2 DEF Doubles
<1>5. ASSUME NEW n \in Nat, n # 0
      PROVE  G(n)[n] = 2 * G(n - 1)[n - 1]
  <2> HIDE DEF G
  <2>1. n - 1 \in Nat /\ n - 1 <= n /\ n \in 1 .. n
    BY <1>5
  <2>2. G(n)[n] = 2 * G(n)[n - 1]
    BY <1>2, <2>1 DEF Doubles
  <2>3. G(n)[n - 1] = G(n - 1)[n - 1]
    BY <1>2, <2>1, DoublesAgree
  <2> QED
    BY <2>2, <2>3
<1> HIDE DEF G
<1>6. H = body(H)
  <2>1. ASSUME NEW n \in Nat
        PROVE  H[n] = body(H)[n]
    <3>1. CASE n = 0
      BY <3>1, <1>4
    <3>2. CASE n # 0
      BY <3>2, <1>5
    <3> QED
      BY <3>1, <3>2
  <2> QED
    BY <2>1
<1> HIDE DEF H
<1>7. F = body(F)
  BY <1>6
<1> HIDE DEF F
<1>8. Pow2[0] = 1 /\ \A n \in Nat : Pow2[n + 1] = 2 * Pow2[n]
  BY <1>1, <1>7
<1>9. Pow2 = [n \in Nat |-> Pow2[n]]
  BY <1>1, <1>7
<1> DEFINE T == { n \in Nat : Pow2[n] \in Nat \ {0} }
<1>10. 0 \in T /\ \A n \in Nat : n \in T => n + 1 \in T
  BY <1>8
<1> HIDE DEF T
<1>11. Nat \subseteq T
  BY <1>10, SetInduction
<1>12. \A n \in Nat : Pow2[n] \in Nat \ {0}
  BY <1>11 DEF T
<1> QED
  BY <1>8, <1>9, <1>12

-------------------------------------------------------------------------------
(* Products and powers of two.                                             *)

\* A power of two is a positive number.
LEMMA Pow2Nat == ASSUME NEW n \in Nat PROVE Pow2[n] \in Nat /\ Pow2[n] >= 1
BY Pow2Def

\* Products of naturals are naturals.
LEMMA ProductNat == ASSUME NEW a \in Nat, NEW b \in Nat PROVE a * b \in Nat
OBVIOUS

\* Products of integers are integers.
LEMMA ProductInt == ASSUME NEW a \in Int, NEW b \in Int PROVE a * b \in Int
OBVIOUS

\* Multiplication by a number that is not negative, or positive.
LEMMA ProductMono ==
  ASSUME NEW a \in Int, NEW b \in Int, NEW c \in Nat, a <= b
  PROVE  a * c <= b * c
<1>1. PICK d \in Nat : b = a + d
  <2>1. b - a \in Nat /\ b = a + (b - a)
    OBVIOUS
  <2> QED BY <2>1
<1>2. b * c = a * c + d * c
  BY <1>1
<1>3. d * c \in Nat /\ a * c \in Int
  OBVIOUS
<1> QED
  BY <1>2, <1>3

\* The same, strictly.
LEMMA ProductLess ==
  ASSUME NEW a \in Int, NEW b \in Int, NEW c \in Nat, c >= 1, a < b
  PROVE  a * c < b * c
<1>1. (a + 1) * c <= b * c
  BY ProductMono
<1>2. (a + 1) * c = a * c + c /\ a * c \in Int /\ b * c \in Int
  OBVIOUS
<1> QED
  BY <1>1, <1>2

\* The order of products is that of the numbers multiplied.
LEMMA ProductOrder ==
  ASSUME NEW a \in Int, NEW b \in Int, NEW c \in Nat, c >= 1
  PROVE  /\ a < b <=> a * c < b * c
         /\ a <= b <=> a * c <= b * c
         /\ a = b <=> a * c = b * c
<1>1. a * c \in Int /\ b * c \in Int
  OBVIOUS
<1>2. a < b => a * c < b * c
  BY ProductLess
<1>3. b < a => b * c < a * c
  BY ProductLess
<1> QED
  BY <1>1, <1>2, <1>3

\* 2 ^ (a + b).
LEMMA Pow2Sum ==
  ASSUME NEW a \in Nat, NEW b \in Nat
  PROVE  Pow2[a + b] = Pow2[a] * Pow2[b]
<1> DEFINE T == { n \in Nat : Pow2[a + n] = Pow2[a] * Pow2[n] }
<1>1. 0 \in T
  <2>1. Pow2[a] \in Nat /\ a + 0 = a
    BY Pow2Nat
  <2> QED
    BY <2>1, Pow2Def
<1>2. ASSUME NEW n \in Nat, n \in T
      PROVE  n + 1 \in T
  <2>1. a + n \in Nat /\ a + (n + 1) = (a + n) + 1
    OBVIOUS
  <2>2. Pow2[a + (n + 1)] = 2 * Pow2[a + n] /\ Pow2[n + 1] = 2 * Pow2[n]
    BY <2>1, Pow2Def
  <2>3. PICK p \in Nat, q \in Nat : p = Pow2[a] /\ q = Pow2[n]
    BY Pow2Nat
  <2>4. p * (2 * q) = 2 * (p * q)
    OBVIOUS
  <2> QED
    BY <1>2, <2>2, <2>3, <2>4
<1> HIDE DEF T
<1>3. Nat \subseteq T
  BY <1>1, <1>2, SetInduction
<1> QED
  BY <1>3 DEF T

\* The next power of two.
LEMMA Pow2Step ==
  ASSUME NEW n \in Nat
  PROVE  Pow2[n + 1] = 2 * Pow2[n] /\ Pow2[n] \in Nat /\ Pow2[n] >= 1
BY Pow2Def, Pow2Nat

\* A larger exponent makes no smaller power.
LEMMA Pow2Mono ==
  ASSUME NEW a \in Nat, NEW b \in Nat, a <= b
  PROVE  Pow2[a] <= Pow2[b]
<1>1. b - a \in Nat /\ b = (b - a) + a
  OBVIOUS
<1>2. PICK p \in Nat, q \in Nat : p = Pow2[b - a] /\ q = Pow2[a] /\ p >= 1
  BY <1>1, Pow2Nat
<1>3. Pow2[b] = p * q
  BY <1>1, <1>2, Pow2Sum
<1>4. 1 * q <= p * q
  BY <1>2, ProductMono
<1> QED
  BY <1>2, <1>3, <1>4

\* A larger exponent makes at least the double.
LEMMA Pow2Less ==
  ASSUME NEW a \in Nat, NEW b \in Nat, a < b
  PROVE  2 * Pow2[a] <= Pow2[b] /\ Pow2[a] < Pow2[b]
<1>1. a + 1 \in Nat /\ a + 1 <= b
  OBVIOUS
<1> QED
  BY <1>1, Pow2Step, Pow2Nat, Pow2Mono

\* A number is less than its power of two.
LEMMA Pow2Above == \A n \in Nat : n < Pow2[n]
<1> DEFINE T == { n \in Nat : n < Pow2[n] }
<1>1. 0 \in T
  BY Pow2Def
<1>2. ASSUME NEW n \in Nat, n \in T
      PROVE  n + 1 \in T
  BY <1>2, Pow2Step
<1> HIDE DEF T
<1>3. Nat \subseteq T
  BY <1>1, <1>2, SetInduction
<1> QED
  BY <1>3 DEF T

\* A number that is not zero lies between two powers of two, and at one place only.
LEMMA BitsExist == \A n \in Nat : n >= 1 => \E b \in 0 .. n : Pow2[b] <= n /\ n < Pow2[b + 1]
<1> DEFINE T == { n \in Nat : n >= 1 => \E b \in 0 .. n : Pow2[b] <= n /\ n < Pow2[b + 1] }
<1>1. 0 \in T
  OBVIOUS
<1>2. ASSUME NEW n \in Nat, n \in T
      PROVE  n + 1 \in T
  <2>1. CASE n = 0
    <3>1. Pow2[0] = 1 /\ Pow2[0 + 1] = 2
      BY Pow2Def
    <3> QED
      BY <2>1, <3>1
  <2>2. CASE n >= 1
    <3>1. PICK b \in 0 .. n : Pow2[b] <= n /\ n < Pow2[b + 1]
      BY <1>2, <2>2
    <3>2. b \in 0 .. n + 1 /\ b + 1 \in 0 .. n + 1 /\ b \in Nat /\ b + 1 \in Nat
      OBVIOUS
    <3>3. Pow2[b + 1] = 2 * Pow2[b] /\ Pow2[(b + 1) + 1] = 2 * Pow2[b + 1] /\ Pow2[b] \in Nat
      BY <3>2, Pow2Step
    <3>4. CASE n + 1 < Pow2[b + 1]
      <4>1. Pow2[b] <= n + 1
        BY <3>1, <3>3
      <4> QED
        BY <3>2, <3>4, <4>1
    <3>5. CASE ~(n + 1 < Pow2[b + 1])
      <4>1. Pow2[b + 1] <= n + 1 /\ n + 1 < Pow2[(b + 1) + 1]
        BY <3>1, <3>3, <3>5
      <4> QED
        BY <3>2, <4>1
    <3> QED
      BY <3>4, <3>5
  <2> QED
    BY <2>1, <2>2
<1> HIDE DEF T
<1>3. Nat \subseteq T
  BY <1>1, <1>2, SetInduction
<1> QED
  BY <1>3 DEF T

\* A number has one first bit.
LEMMA BitsUnique ==
  ASSUME NEW n \in Nat, NEW a \in Nat, NEW b \in Nat,
         Pow2[a] <= n, n < Pow2[a + 1], Pow2[b] <= n, n < Pow2[b + 1]
  PROVE  a = b
<1>0. a + 1 \in Nat /\ b + 1 \in Nat /\ Pow2[a] \in Nat /\ Pow2[b] \in Nat
  BY Pow2Nat
<1>00. Pow2[a + 1] \in Nat /\ Pow2[b + 1] \in Nat
  BY <1>0, Pow2Nat
<1>1. ~(a < b)
  <2> SUFFICES ASSUME a < b PROVE FALSE
    OBVIOUS
  <2>1. Pow2[a + 1] <= Pow2[b]
    BY <1>0, Pow2Mono
  <2> QED
    BY <2>1, <1>0, <1>00
<1>2. ~(b < a)
  <2> SUFFICES ASSUME b < a PROVE FALSE
    OBVIOUS
  <2>1. Pow2[b + 1] <= Pow2[a]
    BY <1>0, Pow2Mono
  <2> QED
    BY <2>1, <1>0, <1>00
<1> QED
  BY <1>1, <1>2

\* The logarithm, and the place of the first bit.
LEMMA Log2Is ==
  ASSUME NEW n \in Nat, NEW a \in Nat, Pow2[a] <= n, n < Pow2[a + 1]
  PROVE  Log2(n) = a
<1>0. Pow2[a] >= 1 /\ Pow2[a] \in Nat
  BY Pow2Nat
<1>1. n >= 1
  BY <1>0
<1>2. a \in 0 .. n
  BY Pow2Above, <1>0
<1>3. n \div 2 < Pow2[a]
  BY Pow2Step
<1>4. \A b \in 0 .. n : Pow2[b] <= n /\ n \div 2 < Pow2[b] => b = a
  <2> TAKE b \in 0 .. n
  <2> HAVE Pow2[b] <= n /\ n \div 2 < Pow2[b]
  <2>1. b \in Nat /\ n < Pow2[b + 1]
    BY Pow2Step
  <2> QED
    BY <2>1, BitsUnique
<1> QED
  BY <1>2, <1>3, <1>4 DEF Log2

\* clz, of what fits in two words.
LEMMA FirstBitSetIs ==
  ASSUME NEW n \in Nat, n >= 1, n < Pow2[2 * WORD]
  PROVE  /\ FirstBitSet(n) \in Nat
         /\ Pow2[FirstBitSet(n)] <= n /\ n < Pow2[FirstBitSet(n) + 1]
<1>1. PICK b \in 0 .. n : Pow2[b] <= n /\ n < Pow2[b + 1]
  BY BitsExist
<1>2. b \in Nat /\ 2 * WORD \in Nat
  BY FpuAssumption
<1>3. Pow2[2 * WORD] \in Nat /\ Pow2[b] \in Nat
  BY <1>2, Pow2Nat
<1>4. b < 2 * WORD
  <2> SUFFICES ASSUME 2 * WORD <= b PROVE FALSE
    BY <1>2
  <2>1. Pow2[2 * WORD] <= Pow2[b]
    BY <1>2, Pow2Mono
  <2> QED
    BY <1>1, <1>3, <2>1
<1>5. b \in 0 .. 2 * WORD - 1
  BY <1>2, <1>4
<1>6. /\ FirstBitSet(n) \in 0 .. 2 * WORD - 1
      /\ Pow2[FirstBitSet(n)] <= n /\ n < Pow2[FirstBitSet(n) + 1]
  BY <1>1, <1>5 DEF FirstBitSet
<1> QED
  BY <1>2, <1>6

-------------------------------------------------------------------------------
(* Rounding.                                                               *)

Registers == [mant : Nat, exp : Int, sign : {0, 1}]
Units     == [A : Registers, B : Registers, adds : BOOLEAN]

\* The constants of the format, from FpuAssumption.
LEMMA Widths ==
  /\ MANT \in Nat /\ MANT >= 1 /\ EXP \in Nat /\ WORD \in Nat /\ 2 * WORD \in Nat
  /\ Hidden = Pow2[MANT] /\ Hidden \in Nat /\ Hidden >= 2 /\ 2 * Hidden = Pow2[MANT + 1]
  /\ Bias \in Nat /\ Bias >= 1 /\ Bias + MANT \in Nat
  /\ Pow2[EXP] \in Nat /\ Pow2[EXP] >= 4
<1>1. MANT \in Nat /\ MANT >= 1 /\ EXP \in Nat /\ EXP >= 2 /\ WORD \in Nat /\ 2 * WORD \in Nat
  BY FpuAssumption
<1>2. Pow2[1] = 2 /\ Pow2[2] = 4
  <2>1. Pow2[0 + 1] = 2 /\ Pow2[1 + 1] = 2 * Pow2[1]
    BY Pow2Def
  <2> QED
    BY <2>1
<1>3. Pow2[1] <= Pow2[MANT] /\ Pow2[MANT] \in Nat /\ Pow2[MANT + 1] = 2 * Pow2[MANT]
  BY <1>1, Pow2Mono, Pow2Step
<1>4. Pow2[2] <= Pow2[EXP] /\ Pow2[EXP] \in Nat
  BY <1>1, Pow2Mono, Pow2Nat
<1>5. EXP - 1 \in Nat /\ 1 <= EXP - 1
  BY <1>1
<1>6. Pow2[1] <= Pow2[EXP - 1] /\ Pow2[EXP - 1] \in Nat
  BY <1>5, Pow2Mono, Pow2Nat
<1>7. Bias \in Nat /\ Bias >= 1
  BY <1>2, <1>6 DEF Bias
<1> QED
  BY <1>1, <1>2, <1>3, <1>4, <1>7 DEF Hidden

\* A small number is its own remainder.
LEMMA SmallMod == ASSUME NEW a \in Nat, NEW n \in Nat, a < n PROVE a % n = a
OBVIOUS

\* A quotient and its remainder.
LEMMA Divided ==
  ASSUME NEW a \in Nat, NEW n \in Nat, n >= 1
  PROVE  \E q \in Nat, r \in Nat : a \div n = q /\ a = q * n + r /\ r < n
<1>1. a \div n \in Nat /\ a % n \in Nat /\ a % n < n
  OBVIOUS
<1>2. a = (a \div n) * n + (a % n)
  OBVIOUS
<1> QED
  BY <1>1, <1>2

\* What is left of a number that is too small, and of zero, is zero.
LEMMA NormFlushes ==
  ASSUME NEW g \in Units,
         g.A.mant = 0 \/ g.A.exp + (FirstBitSet(g.A.mant) - MANT) <= 0
  PROVE  Returned(Norm(g)) = Number(g.A.sign, 0, 0)
<1>1. Norm(g).A.mant = 0 /\ Norm(g).A.exp = 0 /\ Norm(g).A.sign = g.A.sign
  BY DEF Norm, Units, Registers
<1>2. 0 % Pow2[EXP] = 0 /\ 0 % Hidden = 0
  BY Widths, SmallMod
<1> QED
  BY <1>1, <1>2 DEF Returned, Compress

\* Any other number is cut to its first MANT + 1 bits.
Cut(s, up) == IF up > 0 THEN s \div Pow2[up] ELSE s * Pow2[-up]

\* NORM of any other number.
LEMMA NormCuts ==
  ASSUME NEW g \in Units, g.A.mant # 0, NEW up \in Int, up = FirstBitSet(g.A.mant) - MANT,
         g.A.exp + up > 0
  PROVE  Returned(Norm(g)) = Compress(Cut(g.A.mant, up), g.A.exp + up, g.A.sign)
<1>1. /\ Norm(g).A.mant = Cut(g.A.mant, up)
      /\ Norm(g).A.exp = g.A.exp + up
      /\ Norm(g).A.sign = g.A.sign
  BY DEF Norm, Units, Registers, Cut
<1> QED
  BY <1>1 DEF Returned

\* Those bits, and the ones that are dropped.
LEMMA CutIs ==
  ASSUME NEW s \in Nat, s >= 1, NEW p \in Nat, Pow2[p] <= s, s < Pow2[p + 1]
  PROVE  \E m \in Nat, r \in Nat :
            /\ Cut(s, p - MANT) = m /\ Hidden <= m /\ m < 2 * Hidden
            /\ p <= MANT => r = 0 /\ m = s * Pow2[MANT - p]
            /\ p > MANT => s = m * Pow2[p - MANT] + r /\ r < Pow2[p - MANT]
                           /\ (s = Pow2[p] => r = 0)
<1>0. MANT \in Nat /\ Hidden = Pow2[MANT] /\ Hidden \in Nat /\ 2 * Hidden = Pow2[MANT + 1]
  BY Widths
<1>00. Pow2[p] \in Nat /\ Pow2[p + 1] = 2 * Pow2[p]
  BY Pow2Step
<1>1. CASE p <= MANT
  <2>1. PICK k \in Nat : k = MANT - p
    BY <1>0, <1>1
  <2>2. PICK w \in Nat : w = Pow2[k] /\ w >= 1
    BY Pow2Nat
  <2>3. Hidden = Pow2[p] * w
    <3>1. MANT = p + k
      BY <1>0, <2>1
    <3> QED
      BY <1>0, <2>2, <3>1, Pow2Sum
  <2>4. s * w \in Nat /\ Pow2[p] * w <= s * w
    BY <1>00, <2>2, ProductMono
  <2>5. s * w < (2 * Pow2[p]) * w /\ (2 * Pow2[p]) * w = 2 * (Pow2[p] * w)
    BY <1>00, <2>2, ProductLess
  <2>6. Cut(s, p - MANT) = s * w
    <3>1. ~(p - MANT > 0) /\ -(p - MANT) = k
      BY <1>0, <1>1, <2>1
    <3> QED
      BY <3>1, <2>2 DEF Cut
  <2>7. /\ Cut(s, p - MANT) = s * w /\ Hidden <= s * w /\ s * w < 2 * Hidden
        /\ p <= MANT => s * w = s * Pow2[MANT - p]
        /\ ~(p > MANT)
    BY <1>0, <1>1, <2>1, <2>2, <2>3, <2>4, <2>5, <2>6
  <2> QED
    BY <2>4, <2>7
<1>2. CASE p > MANT
  <2>1. PICK k \in Nat : k = p - MANT /\ k > 0 /\ p = MANT + k
    <3>1. p - MANT \in Nat /\ p - MANT > 0 /\ p = MANT + (p - MANT)
      BY <1>0, <1>2
    <3> QED
      BY <3>1
  <2>2. PICK w \in Nat : w = Pow2[k] /\ w >= 1
    BY Pow2Nat
  <2>3. Pow2[p] = Hidden * w
    BY <1>0, <2>1, <2>2, Pow2Sum
  <2>4. PICK m \in Nat, r \in Nat : s \div w = m /\ s = m * w + r /\ r < w
    BY <2>2, Divided
  <2>5. Cut(s, p - MANT) = m
    BY <2>1, <2>2, <2>4 DEF Cut
  <2>6. Hidden <= m
    <3> SUFFICES ASSUME m + 1 <= Hidden PROVE FALSE
      BY <1>0
    <3>1. (m + 1) * w <= Hidden * w /\ (m + 1) * w = m * w + w /\ m * w \in Nat /\ Hidden * w \in Nat
      BY <1>0, <2>2, ProductMono
    <3> QED
      BY <3>1, <2>2, <2>3, <2>4
  <2>7. m < 2 * Hidden
    <3> SUFFICES ASSUME 2 * Hidden <= m PROVE FALSE
      BY <1>0
    <3>1. (2 * Hidden) * w <= m * w /\ (2 * Hidden) * w = 2 * (Hidden * w) /\ m * w \in Nat
      BY <1>0, <2>2, ProductMono
    <3> QED
      BY <3>1, <2>3, <2>4, <1>00
  <2>8. s = Pow2[p] => r = 0
    <3> SUFFICES ASSUME s = Hidden * w, r >= 1 PROVE FALSE
      BY <2>3
    <3>1. m * w < Hidden * w
      BY <2>4, <2>2
    <3>2. m < Hidden
      BY <3>1, <2>2, <1>0, ProductOrder
    <3> QED
      BY <3>2, <2>6, <1>0
  <2>9. /\ Cut(s, p - MANT) = m /\ Hidden <= m /\ m < 2 * Hidden
        /\ ~(p <= MANT)
        /\ s = m * Pow2[p - MANT] + r /\ r < Pow2[p - MANT]
        /\ s = Pow2[p] => r = 0
    BY <1>0, <1>2, <2>1, <2>2, <2>4, <2>5, <2>6, <2>7, <2>8
  <2> QED
    BY <2>9
<1> QED
  BY <1>0, <1>1, <1>2

\* A number that fits its fields.
LEMMA CompressKeeps ==
  ASSUME NEW m \in Nat, Hidden <= m, m < 2 * Hidden,
         NEW exp \in Nat, 0 < exp, exp < Pow2[EXP], NEW sign \in {0, 1}
  PROVE  LET v == Compress(m, exp, sign)
         IN  v.exp = exp /\ v.sign = sign /\ Expand(v).mant = m
<1> DEFINE v == Compress(m, exp, sign)
<1>1. exp % Pow2[EXP] = exp
  BY Widths, SmallMod
<1>2. m % Hidden = m - Hidden
  BY Widths
<1>3. v = [sign |-> sign, exp |-> exp, mant |-> m - Hidden]
  BY <1>1, <1>2 DEF Compress, Number
<1>4. Expand(v).mant = m
  <2>1. (m - Hidden) + Hidden = m
    BY Widths
  <2> QED
    BY <1>3, <2>1 DEF Expand
<1> QED
  BY <1>3, <1>4

-------------------------------------------------------------------------------
(* Nearly exact numbers.                                                   *)

\* t is nearly s units: it is s units, or less than one unit off when s has more than MANT
\* bits and is not the least of those.
Nearly(t, s, unit) ==
    t = s * unit \/ (s >= Hidden + 1 /\ (s - 1) * unit < t /\ t < (s + 1) * unit)

\* The number that register r holds, in the units of Exact.
Scale(r) == Pow2[r.exp + (Bias + MANT)]
Value(r) == Signed(r.sign, r.mant * Scale(r))

\* A sign does not change the magnitude.
LEMMA MagnitudeSigned ==
  ASSUME NEW sign \in {0, 1}, NEW a \in Nat
  PROVE  /\ Magnitude(Signed(sign, a)) = a /\ Signed(sign, a) \in Int
         /\ Signed(sign, a) = 0 <=> a = 0
BY DEF Magnitude, Signed

\* Numbers of the same sign are as far apart as their magnitudes.
LEMMA SignedDifference ==
  ASSUME NEW sign \in {0, 1}, NEW a \in Nat, NEW b \in Nat, NEW c \in Nat, a - b < c, b - a < c
  PROVE  Magnitude(Signed(sign, a) - Signed(sign, b)) < c
BY DEF Magnitude, Signed

\* A sign goes through a product.
LEMMA SignedProduct ==
  ASSUME NEW sign \in {0, 1}, NEW a \in Nat, NEW b \in Nat
  PROVE  Signed(sign, a) * b = Signed(sign, a * b)
<1>1. (-a) * b = -(a * b)
  OBVIOUS
<1> QED
  BY <1>1 DEF Signed

\* The logarithm of a number that is nearly s units.
LEMMA LogNearly ==
  ASSUME NEW s \in Nat, NEW p \in Nat, Pow2[p] <= s, s < Pow2[p + 1],
         NEW o \in Nat, NEW t \in Nat, Nearly(t, s, Pow2[o])
  PROVE  /\ t >= 1
         /\ \/ Log2(t) = p + o
            \/ Log2(t) = p + o - 1 /\ s = Pow2[p] /\ p > MANT /\ t # s * Pow2[o]
<1>1. PICK u \in Nat : u = Pow2[o] /\ u >= 1
  BY Pow2Nat
<1>2. PICK w \in Nat : w = Pow2[p] /\ w >= 1
  BY Pow2Nat
<1>3. p + o \in Nat /\ Pow2[p + o] = w * u /\ Pow2[(p + o) + 1] = 2 * (w * u) /\ w * u \in Nat
  <2>1. p + o \in Nat /\ w * u \in Nat
    OBVIOUS
  <2>2. Pow2[p + o] = w * u
    BY <1>1, <1>2, Pow2Sum
  <2> QED
    BY <2>1, <2>2, Pow2Step
<1>4. Pow2[p + 1] = 2 * w /\ (2 * w) * u = 2 * (w * u)
  BY <1>2, Pow2Step
<1>5. w * u <= s * u /\ s * u < 2 * (w * u) /\ s * u \in Nat
  BY <1>1, <1>2, <1>4, ProductMono, ProductLess
<1>6. 1 * u <= s * u
  BY <1>1, <1>2, ProductMono
<1>7. CASE t = s * u
  <2>1. t >= 1
    BY <1>1, <1>6, <1>7
  <2>2. Log2(t) = p + o
    BY <1>3, <1>5, <1>7, Log2Is
  <2> QED
    BY <2>1, <2>2
<1>8. CASE s >= Hidden + 1 /\ (s - 1) * u < t /\ t < (s + 1) * u /\ t # s * u
  <2>0. Hidden \in Nat /\ Hidden = Pow2[MANT] /\ MANT \in Nat
    BY Widths
  <2>1. (s + 1) * u <= 2 * (w * u)
    BY <1>1, <1>2, <1>4, ProductMono
  <2>2. t < 2 * (w * u)
    BY <1>8, <2>1, <1>3
  <2>3. (s - 1) * u \in Nat
    BY <1>2, <1>1
  <2>4. t >= 1
    BY <1>8, <2>3
  <2>5. CASE w * u <= t
    BY <2>2, <2>4, <2>5, <1>3, Log2Is
  <2>6. CASE t < w * u
    <3>1. s = w
      <4> SUFFICES ASSUME w <= s - 1 PROVE FALSE
        BY <1>2
      <4>1. w * u <= (s - 1) * u
        BY <1>1, <1>2, ProductMono
      <4> QED
        BY <4>1, <1>8, <2>6, <2>3, <1>3
    <3>2. p > MANT
      <4> SUFFICES ASSUME p <= MANT PROVE FALSE
        BY <2>0
      <4>1. Pow2[p] <= Pow2[MANT]
        BY <2>0, Pow2Mono
      <4> QED
        BY <4>1, <3>1, <1>2, <1>8, <2>0
    <3>3. p - 1 \in Nat /\ (p - 1) + o \in Nat /\ (p - 1) + 1 = p
          /\ (p - 1) + o = p + o - 1 /\ ((p - 1) + o) + 1 = p + o
      BY <3>2, <2>0
    <3>4. PICK h \in Nat : h = Pow2[p - 1] /\ w = 2 * h /\ h >= 1
      BY <1>2, <3>3, Pow2Step
    <3>5. Pow2[p + o - 1] = h * u
      BY <3>3, <3>4, <1>1, Pow2Sum
    <3>6. h * u <= (s - 1) * u /\ h * u \in Nat
      BY <3>1, <3>4, <1>1, ProductMono
    <3>7. Pow2[p + o - 1] <= t /\ t < Pow2[(p + o - 1) + 1]
      BY <3>3, <3>5, <3>6, <2>6, <1>3, <1>8, <2>3
    <3>8. Log2(t) = p + o - 1
      BY <3>3, <3>7, Log2Is
    <3> QED
      BY <3>8, <3>1, <3>2, <1>1, <1>2, <1>8, <2>4
  <2> QED
    BY <2>5, <2>6, <1>3
<1> QED
  BY <1>1, <1>7, <1>8 DEF Nearly

\* s is nearly t, m what is left of it when the bits below w are cut off, and b the error
\* that is allowed.
IsCut(s, t, u, m, r, w, b) ==
    /\ u >= 1 /\ w >= 1 /\ Nearly(t, s, u)
    /\ s = m * w + r /\ r < w
    /\ b = w * u \/ (r = 0 /\ b >= u)

\* The error of cutting off the bits of a number below w, when it was nearly right before.
LEMMA CutError ==
  ASSUME NEW s \in Nat, NEW t \in Nat, NEW u \in Nat, NEW m \in Nat, NEW r \in Nat,
         NEW w \in Nat, NEW b \in Nat, IsCut(s, t, u, m, r, w, b)
  PROVE  m * (w * u) - t < b /\ t - m * (w * u) < b
<1> USE DEF IsCut
<1>0. Hidden \in Nat
  BY Widths
<1>1. PICK a \in Nat : a = m * (w * u)
  OBVIOUS
<1>2. PICK c \in Nat : c = r * u
  OBVIOUS
<1>3. s * u = a + c
  <2>1. (m * w + r) * u = (m * w) * u + r * u /\ (m * w) * u = m * (w * u)
    BY ProductNat
  <2> QED
    BY <2>1, <1>1, <1>2
<1>4. (s - 1) * u = a + c - u /\ (s + 1) * u = a + c + u
  <2>1. (s - 1) * u = s * u - u /\ (s + 1) * u = s * u + u
    OBVIOUS
  <2> QED
    BY <2>1, <1>3
<1>5. (r + 1) * u <= w * u /\ (r + 1) * u = c + u /\ w * u \in Nat
  BY <1>2, ProductMono
<1>6. r = 0 => c = 0
  BY <1>2
<1>7. t = a + c \/ ((a + c) - u < t /\ t < a + c + u)
  <2>1. t = s * u \/ ((s - 1) * u < t /\ t < (s + 1) * u)
    BY DEF Nearly
  <2>2. CASE t = s * u
    BY <2>2, <1>3
  <2>3. CASE (s - 1) * u < t /\ t < (s + 1) * u
    <3>1. (a + c) - u < t /\ t < a + c + u
      BY <2>3, <1>4
    <3> QED
      BY <3>1
  <2> QED
    BY <2>1, <2>2, <2>3
<1>8. a - t < b /\ t - a < b
  BY <1>5, <1>6, <1>7
<1> QED
  BY <1>1, <1>8

\* NORM and compress return a faithful number when what they are given is nearly the exact
\* one.
LEMMA Rounds ==
  ASSUME NEW g \in Units, g.A.mant < Pow2[2 * WORD],
         NEW o \in Nat, o = g.A.exp + (Bias + MANT),
         NEW t \in Nat, Nearly(t, g.A.mant, Pow2[o])
  PROVE  Faithful(Returned(Norm(g)), Signed(g.A.sign, t), 1)
<1> DEFINE v == Returned(Norm(g))
<1>1. PICK s \in Nat, e \in Int, sign \in {0, 1} : s = g.A.mant /\ e = g.A.exp /\ sign = g.A.sign
  BY DEF Units, Registers
<1>2. PICK u \in Nat : u = Pow2[o] /\ u >= 1
  BY Pow2Nat
<1>3. /\ MANT \in Nat /\ MANT >= 1 /\ Bias + MANT \in Nat /\ Hidden \in Nat /\ Hidden >= 2
      /\ Hidden = Pow2[MANT] /\ Pow2[EXP] \in Nat /\ Pow2[EXP] >= 4
  BY Widths
<1>4. CASE s = 0
  <2>1. v = Number(sign, 0, 0)
    BY <1>1, <1>4, NormFlushes
  <2>2. t = 0
    BY <1>1, <1>2, <1>3, <1>4 DEF Nearly
  <2>3. Signed(sign, t) = 0
    BY <2>2, MagnitudeSigned
  <2>4. IsZero(v)
    BY <2>1 DEF IsZero, Number
  <2> QED
    BY <1>1, <2>3, <2>4 DEF Faithful
<1>5. CASE s >= 1
  <2>1. PICK p \in Nat : p = FirstBitSet(s) /\ Pow2[p] <= s /\ s < Pow2[p + 1]
    BY <1>1, <1>5, FirstBitSetIs
  <2>2. /\ t >= 1
        /\ \/ Log2(t) = p + o
           \/ Log2(t) = p + o - 1 /\ s = Pow2[p] /\ p > MANT /\ t # s * u
    BY <1>1, <1>2, <2>1, LogNearly
  <2> DEFINE up == p - MANT
             n == Log2(t) - MANT - (Bias + MANT)
  <2>3. n = e + up \/ (n = e + up - 1 /\ s = Pow2[p] /\ p > MANT /\ t # s * u)
    BY <2>2, <1>1, <1>3
  <2>4. n \in Int /\ up \in Int /\ e + up \in Int
    BY <2>3, <1>3
  <2>5. Signed(sign, t) # 0 /\ Magnitude(Signed(sign, t)) = t
    BY <2>2, MagnitudeSigned
  <2>6. SUFFICES /\ n <= 0 => IsZero(v) \/ v.exp = 1
                 /\ ~(n <= 0) /\ n < Pow2[EXP] - 2 =>
                       Magnitude(Whole(v) * Unit - Signed(sign, t)) < 1 * Pow2[n] * Unit
    BY <1>1, <2>5 DEF Faithful
  <2> HIDE DEF n
  <2>7. CASE e + up <= 0
    <3>1. v = Number(sign, 0, 0)
      BY <1>1, <2>1, <2>7, NormFlushes
    <3>2. n <= 0
      BY <2>3, <2>4, <2>7
    <3> QED
      BY <3>1, <3>2 DEF IsZero, Number
  <2>8. CASE e + up > 0
    <3>1. PICK m \in Nat, r \in Nat :
            /\ Cut(s, up) = m /\ Hidden <= m /\ m < 2 * Hidden
            /\ p <= MANT => r = 0 /\ m = s * Pow2[MANT - p]
            /\ p > MANT => s = m * Pow2[p - MANT] + r /\ r < Pow2[p - MANT]
                           /\ (s = Pow2[p] => r = 0)
      BY <1>5, <2>1, CutIs
    <3>2. v = Compress(m, e + up, sign)
      BY <1>1, <1>5, <2>1, <2>4, <2>8, <3>1, NormCuts
    <3>3. e + up < Pow2[EXP] => v.exp = e + up /\ v.sign = sign /\ Expand(v).mant = m
      <4>1. e + up \in Nat
        BY <2>4, <2>8
      <4> QED
        BY <3>1, <3>2, <4>1, <2>8, CompressKeeps
    <3>4. CASE n <= 0
      <4>1. e + up = 1
        BY <2>3, <2>4, <2>8, <3>4
      <4> QED
        BY <3>3, <3>4, <4>1, <1>3
    <3>5. CASE n > 0 /\ n < Pow2[EXP] - 2
      <4>1. PICK k \in Nat : k = e + up /\ k >= n /\ k < Pow2[EXP]
        BY <2>3, <2>4, <3>5, <1>3
      <4>2. Whole(v) = Signed(sign, m * Pow2[k])
        BY <3>3, <4>1 DEF Whole
      <4>3. /\ Pow2[k] \in Nat /\ Unit = Pow2[Bias + MANT] /\ Unit \in Nat
            /\ Pow2[k] * Unit = Pow2[k + (Bias + MANT)]
            /\ Pow2[n] \in Nat /\ Pow2[n] * Unit = Pow2[n + (Bias + MANT)]
        <5>1. n \in Nat
          BY <2>4, <3>5
        <5> QED
          BY <5>1, <1>3, Pow2Nat, Pow2Sum DEF Unit
      <4>4. PICK c \in Nat, b \in Nat : c = Pow2[k + (Bias + MANT)] /\ b = Pow2[n + (Bias + MANT)]
                                        /\ c >= 1 /\ b >= 1
        <5>1. n + (Bias + MANT) \in Nat /\ k + (Bias + MANT) \in Nat
          BY <2>4, <3>5, <1>3
        <5> QED
          BY <5>1, Pow2Nat
      <4>5. Whole(v) * Unit = Signed(sign, m * c)
        <5>1. PICK d \in Nat, h \in Nat : d = Pow2[k] /\ h = Unit
          BY <4>3
        <5>2. PICK a \in Nat : a = m * d
          BY <3>1, <5>1, ProductNat
        <5>4. Signed(sign, a) * h = Signed(sign, a * h)
          BY <1>1, <5>1, <5>2, SignedProduct
        <5>3. (m * d) * h = m * (d * h)
          OBVIOUS
        <5> QED
          BY <4>2, <4>3, <4>4, <5>1, <5>2, <5>3, <5>4
      <4>6. 1 * Pow2[n] * Unit = b
        BY <4>3, <4>4
      <4>7. k + (Bias + MANT) = o + up
        BY <4>1, <1>1, <1>3, <2>4
      <4>8. m * c - t < b /\ t - m * c < b
        <5>1. CASE p <= MANT
          <6>1. PICK j \in Nat : j = MANT - p
            BY <5>1, <1>3
          <6>2. o = (k + (Bias + MANT)) + j
            BY <6>1, <4>7, <1>3, <4>1
          <6>3. PICK w \in Nat : w = Pow2[j] /\ w >= 1
            BY Pow2Nat
          <6>4. u = c * w
            <7>1. k + (Bias + MANT) \in Nat
              BY <1>3
            <7> QED
              BY <7>1, <6>2, <6>3, <4>4, <1>2, Pow2Sum
          <6>5. m * c = s * u
            <7>1. m = s * w
              BY <3>1, <5>1, <6>1, <6>3
            <7>2. (s * w) * c = s * (c * w)
              BY ProductNat
            <7> QED
              BY <7>1, <7>2, <6>4
          <6>6. CASE t = s * u
            BY <6>5, <6>6, <4>4
          <6>7. CASE t # s * u
            <7>1. s >= Hidden + 1 /\ (s - 1) * u < t /\ t < (s + 1) * u
              BY <1>1, <1>2, <6>7 DEF Nearly
            <7>2. p = MANT
              <8> SUFFICES ASSUME p + 1 <= MANT PROVE FALSE
                BY <5>1, <1>3
              <8>1. Pow2[p + 1] <= Pow2[MANT] /\ Pow2[p + 1] \in Nat
                BY <1>3, Pow2Mono, Pow2Nat
              <8> QED
                BY <8>1, <7>1, <2>1, <1>3
            <7>3. n = k /\ k + (Bias + MANT) = o
              BY <7>2, <2>3, <4>1, <4>7, <1>3
            <7>4. b = u
              BY <7>3, <4>4, <1>2
            <7>5. (s - 1) * u = s * u - u /\ (s + 1) * u = s * u + u /\ s * u \in Nat
              OBVIOUS
            <7> QED
              BY <7>1, <7>4, <7>5, <6>5
          <6> QED
            BY <6>6, <6>7
        <5>2. CASE p > MANT
          <6>1. PICK j \in Nat : j = p - MANT /\ j >= 1
            <7>1. p - MANT \in Nat /\ p - MANT >= 1
              BY <5>2, <1>3
            <7> QED
              BY <7>1
          <6>2. PICK w \in Nat : w = Pow2[j] /\ w >= 1
            BY Pow2Nat
          <6>3. c = w * u
            <7>1. k + (Bias + MANT) = j + o
              BY <6>1, <4>7, <1>3
            <7>2. Pow2[j + o] = Pow2[j] * Pow2[o]
              BY <6>1, Pow2Sum
            <7> QED
              BY <7>1, <7>2, <6>2, <4>4, <1>2
          <6>4. s = m * w + r /\ r < w
            BY <3>1, <5>2, <6>1, <6>2
          <6>5. b = w * u \/ (r = 0 /\ b >= u)
            <7>1. CASE n = k
              BY <7>1, <6>3, <4>4
            <7>2. CASE n = k - 1 /\ s = Pow2[p]
              <8>1. r = 0
                BY <3>1, <5>2, <7>2
              <8>2. n + (Bias + MANT) = o + (j - 1) /\ j - 1 \in Nat
                BY <7>2, <6>1, <4>7, <1>3, <4>1
              <8>3. o <= n + (Bias + MANT) /\ n + (Bias + MANT) \in Nat
                BY <8>2
              <8>4. u <= b
                BY <8>3, <1>2, <4>4, Pow2Mono
              <8> QED
                BY <8>1, <8>4
            <7> QED
              BY <7>1, <7>2, <2>3, <2>4, <4>1
          <6>6. Nearly(t, s, u)
            BY <1>1, <1>2
          <6>7. IsCut(s, t, u, m, r, w, b)
            BY <1>2, <6>2, <6>4, <6>5, <6>6 DEF IsCut
          <6>8. m * (w * u) - t < b /\ t - m * (w * u) < b
            BY <6>7, CutError
          <6> QED
            BY <6>3, <6>8
        <5> QED
          BY <5>1, <5>2, <1>3
      <4>9. m * c \in Nat
        BY ProductNat
      <4>10. Magnitude(Signed(sign, m * c) - Signed(sign, t)) < b
        BY <1>1, <4>4, <4>8, <4>9, SignedDifference
      <4>11. Magnitude(Whole(v) * Unit - Signed(sign, t)) < 1 * Pow2[n] * Unit
        BY <4>5, <4>6, <4>10, Zenon
      <4>12. ~(n <= 0)
        BY <3>5, <2>4
      <4> QED
        BY <4>11, <4>12, Zenon
    <3>6. CASE n > 0 /\ ~(n < Pow2[EXP] - 2)
      BY <3>6, <2>4
    <3> QED
      BY <3>4, <3>5, <3>6, <2>4
  <2> QED
    BY <2>7, <2>8, <2>4
<1> QED
  BY <1>1, <1>4, <1>5

-------------------------------------------------------------------------------
(* What the registers hold after each micro-instruction, when e is the     *)
(* exact result.                                                           *)

\* An operand, and its mantissa with the hidden bit.
Operand(n) == n \in Numbers /\ (n.exp = 0 => n.mant = 0)

Mantissas == {0} \cup (Hidden .. 2 * Hidden - 1)

\* A register that holds a product, an operand, or either; a register with a scale.
IsProduct(r) == \E k, l \in Hidden .. 2 * Hidden - 1 : r.mant = k * l
IsWide(r)    == \E k \in Hidden .. 2 * Hidden - 1 : r.mant = k * (2 * Hidden)
IsScaled(r)  == r.exp + (Bias + MANT) >= 0

\* After LOAD_B and LOAD_AB: the sum of the registers is exact.
Loaded(g, o, e) ==
    /\ g \in Units /\ g.adds
    /\ IsScaled(g.A) /\ IsScaled(g.B) /\ Value(g.A) + Value(g.B) = e
    /\ g.A.mant = 0 \/ IsWide(g.A) \/ (o \notin Sums /\ IsProduct(g.A))
    /\ g.B.mant = 0 \/ IsWide(g.B)

\* After ADD_FRAC: register A is nearly exact.
Summed(g, e) ==
    /\ g \in Units /\ IsScaled(g.A) /\ g.A.mant < Pow2[2 * WORD]
    /\ e = Signed(g.A.sign, Magnitude(e))
    /\ Nearly(Magnitude(e), g.A.mant, Scale(g.A))

\* After ADD_SWP_EXP: register B is the larger number, and one of the two is an operand.
Ordered(g, o, e) ==
    IF g.adds
    THEN /\ g \in Units
         /\ IsScaled(g.A) /\ IsScaled(g.B) /\ Value(g.A) + Value(g.B) = e
         /\ g.A.exp <= g.B.exp /\ (g.A.exp = g.B.exp => g.A.mant <= g.B.mant)
         /\ \/ IsWide(g.A) /\ IsWide(g.B)
            \/ o \notin Sums /\ IsWide(g.A) /\ IsProduct(g.B)
            \/ o \notin Sums /\ IsProduct(g.A) /\ IsWide(g.B)
    ELSE Summed(g, e)

\* After ADD_SHIFT: register A is what has to be added to register B, cut to its units, and
\* what was cut off is lost only when the two numbers are far apart.
Aligned(g, e) ==
    LET a == Magnitude(e - Value(g.B))
    IN  IF g.adds
        THEN /\ g \in Units /\ IsScaled(g.B) /\ g.A.exp = g.B.exp
             /\ g.A.mant < 4 * (Hidden * Hidden) /\ g.B.mant < 4 * (Hidden * Hidden)
             /\ e - Value(g.B) = Signed(g.A.sign, a)
             /\ g.A.mant * Scale(g.B) <= a /\ a < (g.A.mant + 1) * Scale(g.B)
             /\ a = g.A.mant * Scale(g.B) \/ g.B.mant >= g.A.mant + 1 + Hidden
        ELSE Summed(g, e)

\* The subtraction of the mantissas does not wrap.
Subtractable(g) == g.adds => g.A.mant <= g.B.mant

\* expand of an operand.
LEMMA Expanded ==
  ASSUME NEW n, Operand(n)
  PROVE  /\ Expand(n) \in Registers /\ Expand(n).sign = n.sign /\ Expand(n).exp = n.exp
         /\ n.exp \in Nat /\ n.exp < Pow2[EXP] /\ n.sign \in {0, 1}
         /\ Expand(n).mant \in Mantissas /\ (n.exp = 0 <=> Expand(n).mant = 0)
<1>1. Hidden \in Nat /\ Hidden >= 2 /\ Pow2[EXP] \in Nat
  BY Widths
<1>2. n.exp \in 0 .. Pow2[EXP] - 1 /\ n.mant \in 0 .. Hidden - 1 /\ n.sign \in {0, 1}
  BY DEF Operand, Numbers
<1>3. CASE n.exp = 0
  <2>1. Expand(n) = [sign |-> n.sign, exp |-> n.exp, mant |-> 0]
    BY <1>3 DEF Expand, Operand
  <2> QED
    BY <1>1, <1>2, <1>3, <2>1 DEF Registers, Mantissas
<1>4. CASE n.exp # 0
  <2>1. PICK m \in Nat : m = n.mant + Hidden /\ Hidden <= m /\ m < 2 * Hidden
    BY <1>1, <1>2
  <2>2. Expand(n) = [sign |-> n.sign, exp |-> n.exp, mant |-> m]
    BY <1>4, <2>1 DEF Expand
  <2> QED
    BY <1>1, <1>2, <1>4, <2>1, <2>2 DEF Registers, Mantissas
<1> QED
  BY <1>3, <1>4

\* An operand widened is the operand, in the units of Exact.
LEMMA WidenedValue ==
  ASSUME NEW n, Operand(n), NEW flip \in BOOLEAN
  PROVE  LET r == Flipped(Widened(Expand(n)), flip)
         IN  /\ r \in Registers /\ IsScaled(r)
             /\ r.mant = 0 \/ IsWide(r)
             /\ Value(r) = IF flip THEN -(Whole(n) * Unit) ELSE Whole(n) * Unit
<1> DEFINE r == Flipped(Widened(Expand(n)), flip)
<1>1. /\ Hidden \in Nat /\ Hidden >= 2 /\ 2 * Hidden = Pow2[MANT + 1] /\ MANT \in Nat
      /\ Bias \in Nat /\ Bias >= 1
  BY Widths
<1>2. PICK m \in Mantissas, e \in Nat, sign \in {0, 1} :
        Expand(n) = [sign |-> sign, exp |-> e, mant |-> m] /\ (e = 0 <=> m = 0)
  <2>1. Expand(n) = [sign |-> n.sign, exp |-> n.exp, mant |-> Expand(n).mant]
    BY DEF Expand
  <2>2. /\ Expand(n).mant \in Mantissas /\ n.exp \in Nat /\ n.sign \in {0, 1}
        /\ n.exp = 0 <=> Expand(n).mant = 0
    BY Expanded
  <2> QED
    BY <2>1, <2>2, Zenon
<1>20. n.sign = sign /\ n.exp = e /\ Expand(n).mant = m
  BY <1>2, Expanded
<1>3. m \in Nat /\ m < 2 * Hidden
  BY <1>1 DEF Mantissas
<1>4. Widened(Expand(n)) = [sign |-> sign, exp |-> e - (MANT + 1), mant |-> m * (2 * Hidden)]
  <2>1. Widened(Expand(n)) = [sign |-> sign, exp |-> e - (MANT + 1), mant |-> m * Pow2[MANT + 1]]
    <3>1. Widened(Expand(n)) = [[sign |-> sign, exp |-> e, mant |-> m]
                                  EXCEPT !.mant = @ * Pow2[MANT + 1], !.exp = @ - (MANT + 1)]
      BY <1>2 DEF Widened
    <3>2. PICK c \in Int, d \in Int : c = m * Pow2[MANT + 1] /\ d = e - (MANT + 1)
      BY <1>1, <1>3
    <3>3. [[sign |-> sign, exp |-> e, mant |-> m] EXCEPT !.mant = c, !.exp = d]
            = [sign |-> sign, exp |-> d, mant |-> c]
      <4>1. [[sign |-> sign, exp |-> e, mant |-> m] EXCEPT !.mant = c]
              = [sign |-> sign, exp |-> e, mant |-> c]
        OBVIOUS
      <4>2. [[sign |-> sign, exp |-> e, mant |-> c] EXCEPT !.exp = d]
              = [sign |-> sign, exp |-> d, mant |-> c]
        OBVIOUS
      <4>3. [[sign |-> sign, exp |-> e, mant |-> m] EXCEPT !.mant = c, !.exp = d]
              = [[[sign |-> sign, exp |-> e, mant |-> m] EXCEPT !.mant = c] EXCEPT !.exp = d]
        OBVIOUS
      <4> QED
        BY <4>1, <4>2, <4>3, Zenon
    <3>4. [[sign |-> sign, exp |-> e, mant |-> m]
                                  EXCEPT !.mant = @ * Pow2[MANT + 1], !.exp = @ - (MANT + 1)]
           = [[sign |-> sign, exp |-> e, mant |-> m] EXCEPT !.mant = c, !.exp = d]
      BY <3>2
    <3> QED
      BY <3>1, <3>2, <3>3, <3>4, Zenon
  <2> QED
    BY <1>1, <2>1, Zenon
<1>5. r = [sign |-> IF flip THEN 1 - sign ELSE sign, exp |-> e - (MANT + 1), mant |-> m * (2 * Hidden)]
  BY <1>4 DEF Flipped
<1>6. m * (2 * Hidden) \in Nat
  BY <1>1, <1>3
<1>7. r \in Registers
  <2>1. (IF flip THEN 1 - sign ELSE sign) \in {0, 1}
    OBVIOUS
  <2> QED
    BY <1>1, <1>5, <1>6, <2>1 DEF Registers
<1>8. r.mant = 0 \/ IsWide(r)
  BY <1>1, <1>5 DEF Mantissas, IsWide
<1>9. IsScaled(r)
  BY <1>1, <1>5 DEF IsScaled
<1>10. m * (2 * Hidden) * Scale(r) = (m * Pow2[e]) * Unit
  <2>1. CASE m = 0
    <3>1. Scale(r) \in Nat /\ Unit \in Nat /\ Pow2[e] \in Nat
      <4>1. r.exp + (Bias + MANT) \in Nat /\ Bias + MANT \in Nat
        BY <1>1, <1>5, <1>9 DEF IsScaled
      <4> QED
        BY <4>1, Pow2Nat DEF Scale, Unit
    <3> QED
      BY <2>1, <3>1, <1>1
  <2>2. CASE m # 0
    <3>1. e >= 1
      BY <1>2, <2>2
    <3>2. PICK d \in Nat : d = e - (MANT + 1) + (Bias + MANT) /\ (MANT + 1) + d = e + (Bias + MANT)
      <4>1. e - (MANT + 1) + (Bias + MANT) \in Nat
        BY <1>1, <3>1
      <4> QED
        BY <4>1, <1>1
    <3>3. PICK s \in Nat : s = Pow2[d] /\ s = Scale(r)
      <4>1. r.exp + (Bias + MANT) = d
        BY <1>5, <3>2
      <4>2. Scale(r) = Pow2[d] /\ Pow2[d] \in Nat
        BY <4>1, Pow2Nat DEF Scale
      <4> QED
        BY <4>2
    <3>4. (2 * Hidden) * s = Pow2[(MANT + 1) + d]
      <4>1. Pow2[(MANT + 1) + d] = Pow2[MANT + 1] * Pow2[d]
        BY <1>1, Pow2Sum
      <4> QED
        BY <1>1, <3>3, <4>1, Zenon
    <3>5. PICK u \in Nat, w \in Nat : u = Unit /\ w = Pow2[e] /\ w * u = Pow2[e + (Bias + MANT)]
      <4>1. Bias + MANT \in Nat
        BY <1>1
      <4> QED
        BY <4>1, Pow2Nat, Pow2Sum DEF Unit
    <3>6. (2 * Hidden) * s = w * u
      BY <3>2, <3>4, <3>5
    <3>7. m * (2 * Hidden) * s = m * ((2 * Hidden) * s) /\ m * (w * u) = (m * w) * u
      BY <1>1, <1>3
    <3> QED
      BY <3>3, <3>5, <3>6, <3>7
  <2> QED
    BY <2>1, <2>2
<1>11. Value(r) = IF flip THEN -(Whole(n) * Unit) ELSE Whole(n) * Unit
  <2>1. PICK a \in Nat, u \in Nat : a = m * Pow2[e] /\ u = Unit
    <3>1. Bias + MANT \in Nat
      BY <1>1
    <3>2. Pow2[e] \in Nat /\ Unit \in Nat
      BY <3>1, Pow2Nat DEF Unit
    <3> QED
      BY <3>2, <1>3, ProductNat
  <2>2. Whole(n) = Signed(sign, a)
    BY <1>20, <2>1 DEF Whole
  <2>3. Whole(n) * Unit = Signed(sign, a * u)
    <3>1. Signed(sign, a) * u = Signed(sign, a * u)
      BY SignedProduct
    <3> QED
      BY <2>1, <2>2, <3>1, Zenon
  <2>4. Value(r) = Signed(r.sign, a * u)
    BY <2>1, <1>5, <1>10 DEF Value
  <2>5. a * u \in Int
    OBVIOUS
  <2> QED
    BY <2>3, <2>4, <2>5, <1>5 DEF Signed
<1> QED
  BY <1>7, <1>8, <1>9, <1>11

\* The rule of signs.
SignRule(s, t, a, b) == Signed(s, a) * Signed(t, b) = Signed(Xor(s, t), a * b)

\* It holds.
LEMMA SignedTimes ==
  ASSUME NEW s \in {0, 1}, NEW t \in {0, 1}, NEW a \in Nat, NEW b \in Nat
  PROVE  SignRule(s, t, a, b)
<1> USE DEF SignRule
<1>1. (-a) * b = -(a * b) /\ a * (-b) = -(a * b) /\ (-a) * (-b) = a * b
  OBVIOUS
<1>2. Xor(0, 0) = 0 /\ Xor(0, 1) = 1 /\ Xor(1, 0) = 1 /\ Xor(1, 1) = 0
  BY DEF Xor
<1>3. s = 0 \/ s = 1
  OBVIOUS
<1>4. t = 0 \/ t = 1
  OBVIOUS
<1>5. CASE s = 0 /\ t = 0
  BY <1>2, <1>5 DEF Signed
<1>6. CASE s = 0 /\ t = 1
  BY <1>1, <1>2, <1>6 DEF Signed
<1>7. CASE s = 1 /\ t = 0
  BY <1>1, <1>2, <1>7 DEF Signed
<1>8. CASE s = 1 /\ t = 1
  BY <1>1, <1>2, <1>8 DEF Signed
<1> QED
  BY <1>3, <1>4, <1>5, <1>6, <1>7, <1>8

\* Products of mantissas are below four times the square of the hidden bit.
LEMMA ProductBounds ==
  ASSUME NEW k \in Hidden .. 2 * Hidden - 1, NEW l \in Hidden .. 2 * Hidden - 1
  PROVE  /\ k * l \in Nat /\ Hidden * Hidden \in Nat
         /\ Hidden * Hidden <= k * l
         /\ k * l <= 4 * (Hidden * Hidden) - 4 * Hidden + 1
<1>1. Hidden \in Nat /\ Hidden >= 2
  BY Widths
<1>2. PICK h \in Nat : h = Hidden
  BY <1>1
<1>3. k \in Nat /\ l \in Nat /\ h <= k /\ h <= l /\ k <= 2 * h - 1 /\ l <= 2 * h - 1 /\ 2 * h - 1 \in Nat
  BY <1>1, <1>2
<1>4. h * h <= k * h /\ k * h <= k * l
  <2>1. h * h <= k * h
    BY <1>3, ProductMono
  <2>2. h * k <= l * k /\ h * k = k * h /\ l * k = k * l
    BY <1>3, ProductMono
  <2> QED
    BY <2>1, <2>2
<1>5. k * l <= (2 * h - 1) * l /\ (2 * h - 1) * l <= (2 * h - 1) * (2 * h - 1)
  <2>1. k * l <= (2 * h - 1) * l
    BY <1>3, ProductMono
  <2>2. l * (2 * h - 1) <= (2 * h - 1) * (2 * h - 1) /\ l * (2 * h - 1) = (2 * h - 1) * l
    BY <1>3, ProductMono
  <2> QED
    BY <2>1, <2>2
<1>6. (2 * h - 1) * (2 * h - 1) = 4 * (h * h) - 4 * h + 1
  OBVIOUS
<1>7. k * l \in Nat /\ h * h \in Nat /\ k * h \in Nat /\ (2 * h - 1) * l \in Nat
  BY <1>3, ProductNat
<1> QED
  BY <1>2, <1>4, <1>5, <1>6, <1>7

\* Twice as many bits fit in two words, with the carry.
LEMMA TwoWords ==
  /\ 4 * (Hidden * Hidden) \in Nat
  /\ 8 * (Hidden * Hidden) <= Pow2[2 * WORD] /\ Pow2[2 * WORD] \in Nat
  /\ 4 * (Hidden * Hidden) = Pow2[2 * MANT + 2]
<1>1. MANT \in Nat /\ 2 * MANT + 3 <= 2 * WORD /\ 2 * WORD \in Nat /\ Hidden = Pow2[MANT]
  BY Widths, FpuAssumption
<1>2. PICK h \in Nat : h = Hidden
  BY Widths
<1>3. Pow2[MANT + MANT] = h * h
  BY <1>1, <1>2, Pow2Sum
<1>4. MANT + MANT \in Nat /\ (MANT + MANT) + 1 \in Nat /\ ((MANT + MANT) + 1) + 1 \in Nat
  BY <1>1
<1>5. Pow2[((MANT + MANT) + 1) + 1] = 2 * Pow2[(MANT + MANT) + 1] /\ Pow2[(MANT + MANT) + 1] = 2 * Pow2[MANT + MANT]
      /\ Pow2[(((MANT + MANT) + 1) + 1) + 1] = 2 * Pow2[((MANT + MANT) + 1) + 1]
  BY <1>4, Pow2Step
<1>6. ((MANT + MANT) + 1) + 1 = 2 * MANT + 2 /\ (((MANT + MANT) + 1) + 1) + 1 = 2 * MANT + 3
  BY <1>1
<1>7. Pow2[2 * MANT + 3] <= Pow2[2 * WORD] /\ Pow2[2 * WORD] \in Nat
  <2>1. 2 * MANT + 3 \in Nat
    BY <1>1
  <2> QED
    BY <1>1, <2>1, Pow2Mono, Pow2Nat
<1>8. h * h \in Nat
  OBVIOUS
<1> QED
  BY <1>2, <1>3, <1>5, <1>6, <1>7, <1>8

\* MUL: the product of two operands is exact, and fits.
LEMMA ProductValue ==
  ASSUME NEW a, NEW b, Operand(a), Operand(b)
  PROVE  LET r == Product(Expand(a), Expand(b))
         IN  /\ r \in Registers /\ IsScaled(r) /\ r.mant < 4 * (Hidden * Hidden)
             /\ r.mant = 0 \/ IsProduct(r)
             /\ Value(r) = Whole(a) * Whole(b)
<1> DEFINE r == Product(Expand(a), Expand(b))
<1>0. Hidden \in Nat /\ Hidden >= 2 /\ Bias \in Nat /\ MANT \in Nat /\ Mantissas \subseteq Nat
  BY Widths DEF Mantissas
<1>1. PICK m \in Mantissas, d \in Nat, s \in {0, 1} :
        m = Expand(a).mant /\ d = Expand(a).exp /\ s = Expand(a).sign /\ d = a.exp /\ s = a.sign
  BY Expanded
<1>2. PICK n \in Mantissas, e \in Nat, t \in {0, 1} :
        n = Expand(b).mant /\ e = Expand(b).exp /\ t = Expand(b).sign /\ e = b.exp /\ t = b.sign
  BY Expanded
<1>3. r = [mant |-> m * n, exp |-> d + e - Bias - MANT, sign |-> Xor(s, t)]
  BY <1>1, <1>2 DEF Product
<1>4. m \in Nat /\ n \in Nat /\ m * n \in Nat
  BY <1>0, ProductNat
<1>5. Xor(s, t) \in {0, 1}
  BY DEF Xor
<1>6. r \in Registers
  <2>1. d + e - Bias - MANT \in Int
    BY <1>0
  <2> QED
    BY <1>3, <1>4, <1>5, <2>1 DEF Registers
<1>7. r.exp + (Bias + MANT) = d + e
  BY <1>0, <1>3
<1>8. IsScaled(r)
  BY <1>7 DEF IsScaled
<1>9. m = 0 \/ n = 0 => r.mant = 0
  BY <1>3, <1>4
<1>10. r.mant < 4 * (Hidden * Hidden) /\ (r.mant = 0 \/ IsProduct(r))
  <2>1. CASE m = 0 \/ n = 0
    <3>1. Hidden * Hidden >= 1 /\ Hidden * Hidden \in Nat
      <4>1. 1 * Hidden <= Hidden * Hidden /\ Hidden * Hidden \in Nat
        BY <1>0, ProductMono
      <4> QED
        BY <4>1, <1>0
    <3> QED
      BY <1>9, <2>1, <3>1
  <2>2. CASE m # 0 /\ n # 0
    <3>1. m \in Hidden .. 2 * Hidden - 1 /\ n \in Hidden .. 2 * Hidden - 1
      BY <2>2 DEF Mantissas
    <3>2. m * n <= 4 * (Hidden * Hidden) - 4 * Hidden + 1 /\ Hidden * Hidden \in Nat
      BY <3>1, ProductBounds
    <3>3. m * n < 4 * (Hidden * Hidden)
      BY <3>2, <1>0, <1>4
    <3> QED
      BY <1>3, <3>1, <3>3 DEF IsProduct
  <2> QED
    BY <2>1, <2>2
<1>11. Value(r) = Whole(a) * Whole(b)
  <2>1. PICK v \in Nat, w \in Nat : v = Pow2[d] /\ w = Pow2[e] /\ Pow2[d + e] = v * w
    BY Pow2Nat, Pow2Sum
  <2>2. Whole(a) = Signed(s, m * v) /\ Whole(b) = Signed(t, n * w)
    BY <1>1, <1>2, <2>1 DEF Whole
  <2>3. m * v \in Nat /\ n * w \in Nat
    BY <1>4, ProductNat
  <2>4. Signed(s, m * v) * Signed(t, n * w) = Signed(Xor(s, t), (m * v) * (n * w))
    <3>1. PICK p \in Nat, q \in Nat : p = m * v /\ q = n * w
      BY <2>3
    <3>2. SignRule(s, t, p, q)
      BY SignedTimes
    <3> QED
      BY <3>1, <3>2, Zenon DEF SignRule
  <2>5. (m * v) * (n * w) = (m * n) * (v * w)
    BY <1>4
  <2>6. Scale(r) = v * w
    BY <1>7, <2>1 DEF Scale
  <2>7. Value(r) = Signed(Xor(s, t), (m * n) * (v * w))
    BY <1>3, <2>6 DEF Value
  <2> QED
    BY <2>2, <2>4, <2>5, <2>7
<1> QED
  BY <1>6, <1>8, <1>10, <1>11

\* Exact, by operation.
LEMMA ExactIs ==
  /\ Exact("FADD") = (Whole(x) + Whole(y)) * Unit
  /\ Exact("FSUB") = (Whole(x) - Whole(y)) * Unit
  /\ Exact("FMUL") = Whole(x) * Whole(y)
  /\ Exact("FMADD") = Whole(x) * Whole(y) + Whole(z) * Unit
  /\ Exact("FMSUB") = Whole(x) * Whole(y) - Whole(z) * Unit
  /\ Exact("FNMADD") = -(Whole(x) * Whole(y)) - Whole(z) * Unit
  /\ Exact("FNMSUB") = -(Whole(x) * Whole(y)) + Whole(z) * Unit
BY DEF Exact

\* Operands are whole numbers.
LEMMA WholeInt ==
  ASSUME NEW n, Operand(n)
  PROVE  Whole(n) \in Int /\ Unit \in Int /\ Whole(n) * Unit \in Int
<1>1. Expand(n).mant \in Nat /\ n.exp \in Nat /\ n.sign \in {0, 1}
  BY Expanded, Widths DEF Mantissas
<1>2. PICK a \in Nat : a = Expand(n).mant * Pow2[n.exp]
  BY <1>1, Pow2Nat, ProductNat
<1>3. Whole(n) \in Int
  BY <1>1, <1>2 DEF Whole, Signed
<1>4. Unit \in Int
  BY Widths, Pow2Nat DEF Unit
<1> QED
  BY <1>3, <1>4, ProductInt

\* The sign of register A is changed after the product.
LEMMA FlippedValue ==
  ASSUME NEW r \in Registers, IsScaled(r), NEW flip \in BOOLEAN
  PROVE  /\ Flipped(r, flip) \in Registers /\ IsScaled(Flipped(r, flip))
         /\ Flipped(r, flip).mant = r.mant
         /\ Value(Flipped(r, flip)) = IF flip THEN -Value(r) ELSE Value(r)
<1>1. r.sign \in {0, 1} /\ r.mant \in Nat /\ r.exp \in Int
  BY DEF Registers
<1>2. CASE flip
  <2>1. /\ Flipped(r, flip).mant = r.mant /\ Flipped(r, flip).exp = r.exp
        /\ Flipped(r, flip).sign = 1 - r.sign /\ Flipped(r, flip) \in Registers
    BY <1>1, <1>2 DEF Flipped, Registers
  <2>2. Scale(Flipped(r, flip)) = Scale(r) /\ IsScaled(Flipped(r, flip))
    BY <2>1 DEF Scale, IsScaled
  <2>3. PICK a \in Int : a = r.mant * Scale(r)
    <3>1. Scale(r) \in Nat
      <4>1. r.exp + (Bias + MANT) \in Nat
        BY <1>1, Widths DEF IsScaled
      <4> QED
        BY <4>1, Pow2Nat DEF Scale
    <3> QED
      BY <3>1, <1>1
  <2>4. Value(r) = Signed(r.sign, a) /\ Value(Flipped(r, flip)) = Signed(1 - r.sign, a)
    BY <2>1, <2>2, <2>3 DEF Value
  <2>5. Signed(1 - r.sign, a) = -Signed(r.sign, a)
    BY <1>1 DEF Signed
  <2> QED
    BY <1>2, <2>1, <2>2, <2>4, <2>5
<1>3. CASE ~flip
  BY <1>3 DEF Flipped
<1> QED
  BY <1>2, <1>3

\* LOAD_B: the product, with the third operand.
LEMMA LoadsB ==
  ASSUME NEW o \in Fused, Operand(x), Operand(y), Operand(z),
         NEW g \in Units, g.adds, g.A = Product(Expand(x), Expand(y))
  PROVE  Loaded(Step(g, "LOAD_B", o, x, y, z), o, Exact(o))
<1> DEFINE p == Product(Expand(x), Expand(y))
           h == Step(g, "LOAD_B", o, x, y, z)
           a == Flipped(p, FlipsA(o))
           b == Flipped(Widened(Expand(z)), FlipsB(o))
<1>1. FlipsA(o) \in BOOLEAN /\ FlipsB(o) \in BOOLEAN
  BY DEF FlipsA, FlipsB
<1>2. h = [g EXCEPT !.A = a, !.B = b]
  BY DEF Step
<1>3. p \in Registers /\ IsScaled(p) /\ (p.mant = 0 \/ IsProduct(p)) /\ Value(p) = Whole(x) * Whole(y)
  BY ProductValue
<1>4. /\ a \in Registers /\ IsScaled(a) /\ a.mant = p.mant
      /\ Value(a) = IF FlipsA(o) THEN -(Whole(x) * Whole(y)) ELSE Whole(x) * Whole(y)
  BY <1>1, <1>3, FlippedValue
<1>5. /\ b \in Registers /\ IsScaled(b) /\ (b.mant = 0 \/ IsWide(b))
      /\ Value(b) = IF FlipsB(o) THEN -(Whole(z) * Unit) ELSE Whole(z) * Unit
  BY <1>1, WidenedValue
<1> HIDE DEF a, b, p, h
<1>6. h \in Units /\ h.A = a /\ h.B = b /\ h.adds
  BY <1>2, <1>4, <1>5 DEF Units
<1>7. a.mant = 0 \/ (o \notin Sums /\ IsProduct(a))
  <2>1. o \notin Sums
    BY DEF Fused, Sums
  <2> QED
    BY <2>1, <1>3, <1>4 DEF IsProduct
<1>8. Value(a) + Value(b) = Exact(o)
  <2>1. PICK s \in Int, t \in Int : s = Whole(x) * Whole(y) /\ t = Whole(z) * Unit
    BY WholeInt, ProductInt
  <2>2. o \in {"FMADD", "FMSUB", "FNMADD", "FNMSUB"}
    BY DEF Fused
  <2>3. CASE o = "FMADD"
    BY <2>1, <2>3, <1>4, <1>5, ExactIs DEF FlipsA, FlipsB
  <2>4. CASE o = "FMSUB"
    BY <2>1, <2>4, <1>4, <1>5, ExactIs DEF FlipsA, FlipsB
  <2>5. CASE o = "FNMADD"
    BY <2>1, <2>5, <1>4, <1>5, ExactIs DEF FlipsA, FlipsB
  <2>6. CASE o = "FNMSUB"
    BY <2>1, <2>6, <1>4, <1>5, ExactIs DEF FlipsA, FlipsB
  <2> QED
    BY <2>2, <2>3, <2>4, <2>5, <2>6
<1>9. Loaded(h, o, Exact(o))
  BY <1>4, <1>5, <1>6, <1>7, <1>8 DEF Loaded
<1> QED
  BY <1>9 DEF h

\* LOAD_AB: the two operands.
LEMMA LoadsAB ==
  ASSUME NEW o \in Sums, Operand(x), Operand(y), NEW g \in Units
  PROVE  Loaded(Step(g, "LOAD_AB", o, x, y, z), o, Exact(o))
<1> DEFINE h == Step(g, "LOAD_AB", o, x, y, z)
           a == Widened(Expand(x))
           b == Flipped(Widened(Expand(y)), FlipsB(o))
<1>1. FlipsB(o) \in BOOLEAN
  BY DEF FlipsB
<1>2. h = [A |-> a, B |-> b, adds |-> TRUE]
  <2> HIDE DEF a, b
  <2>1. Step(g, "LOAD_AB", o, x, y, z)
          = [A |-> Widened(Expand(x)), B |-> Flipped(Widened(Expand(y)), FlipsB(o)), adds |-> TRUE]
    BY DEF Step
  <2> QED
    BY <2>1 DEF a, b
<1>3. a = Flipped(a, FALSE)
  BY DEF Flipped
<1>4. /\ a \in Registers /\ IsScaled(a) /\ (a.mant = 0 \/ IsWide(a))
      /\ Value(a) = Whole(x) * Unit
  <2>1. LET r == Flipped(Widened(Expand(x)), FALSE)
        IN  /\ r \in Registers /\ IsScaled(r) /\ (r.mant = 0 \/ IsWide(r))
            /\ Value(r) = Whole(x) * Unit
    BY WidenedValue
  <2> QED
    BY <1>3, <2>1
<1>5. /\ b \in Registers /\ IsScaled(b) /\ (b.mant = 0 \/ IsWide(b))
      /\ Value(b) = IF FlipsB(o) THEN -(Whole(y) * Unit) ELSE Whole(y) * Unit
  BY <1>1, WidenedValue
<1> HIDE DEF a, b, h
<1>6. h \in Units /\ h.A = a /\ h.B = b /\ h.adds
  BY <1>2, <1>4, <1>5 DEF Units
<1>8. Value(a) + Value(b) = Exact(o)
  <2>1. PICK s \in Int, t \in Int, u \in Int : s = Whole(x) /\ t = Whole(y) /\ u = Unit
    BY WholeInt
  <2>2. (s + t) * u = s * u + t * u /\ (s - t) * u = s * u - t * u /\ s * u \in Int /\ t * u \in Int
    OBVIOUS
  <2>3. o \in {"FADD", "FSUB"}
    BY DEF Sums
  <2>4. CASE o = "FADD"
    <3>1. Value(b) = t * u /\ Value(a) = s * u /\ Exact(o) = (s + t) * u
      BY <2>1, <2>4, <1>4, <1>5, ExactIs DEF FlipsB
    <3> QED
      BY <3>1, <2>2
  <2>5. CASE o = "FSUB"
    <3>1. Value(b) = -(t * u) /\ Value(a) = s * u /\ Exact(o) = (s - t) * u
      BY <2>1, <2>5, <1>4, <1>5, ExactIs DEF FlipsB
    <3> QED
      BY <3>1, <2>2
  <2> QED
    BY <2>3, <2>4, <2>5
<1>9. Loaded(h, o, Exact(o))
  BY <1>4, <1>5, <1>6, <1>8 DEF Loaded
<1> QED
  BY <1>9 DEF h

\* A register that holds the exact number.
LEMMA ExactSum ==
  ASSUME NEW g \in Units, IsScaled(g.A), g.A.mant < 4 * (Hidden * Hidden)
  PROVE  Summed(g, Value(g.A))
<1>1. g.A.sign \in {0, 1} /\ g.A.mant \in Nat /\ g.A.exp \in Int
  BY DEF Units, Registers
<1>2. Scale(g.A) \in Nat
  <2>1. g.A.exp + (Bias + MANT) \in Nat
    BY <1>1, Widths DEF IsScaled
  <2> QED
    BY <2>1, Pow2Nat DEF Scale
<1>3. PICK t \in Nat : t = g.A.mant * Scale(g.A)
  BY <1>1, <1>2, ProductNat
<1>4. Value(g.A) = Signed(g.A.sign, t) /\ Magnitude(Value(g.A)) = t
  <2>1. PICK sign \in {0, 1} : sign = g.A.sign
    BY <1>1
  <2>2. Magnitude(Signed(sign, t)) = t
    BY MagnitudeSigned
  <2>3. Value(g.A) = Signed(g.A.sign, t)
    BY <1>3 DEF Value
  <2> QED
    BY <2>1, <2>2, <2>3
<1>5. g.A.mant < Pow2[2 * WORD]
  <2>1. PICK q \in Nat : q = Hidden * Hidden
    BY Widths, ProductNat
  <2> QED
    BY <1>1, <2>1, TwoWords
<1> QED
  BY <1>3, <1>4, <1>5 DEF Summed, Nearly

\* The bounds of a widened mantissa.
LEMMA WideBounds ==
  ASSUME NEW r \in Registers, IsWide(r)
  PROVE  2 * (Hidden * Hidden) <= r.mant /\ r.mant <= 4 * (Hidden * Hidden) - 2 * Hidden
<1>1. PICK h \in Nat : h = Hidden /\ h >= 2
  BY Widths
<1>2. PICK k \in Nat : h <= k /\ k <= 2 * h - 1 /\ r.mant = k * (2 * h)
  BY <1>1 DEF IsWide
<1>3. h * (2 * h) <= k * (2 * h) /\ k * (2 * h) <= (2 * h - 1) * (2 * h)
  BY <1>1, <1>2, ProductMono
<1>4. h * (2 * h) = 2 * (h * h) /\ (2 * h - 1) * (2 * h) = 4 * (h * h) - 2 * h
  OBVIOUS
<1> QED
  BY <1>1, <1>2, <1>3, <1>4

\* The bounds of a product.
LEMMA ProductRegisterBounds ==
  ASSUME NEW r \in Registers, IsProduct(r)
  PROVE  Hidden * Hidden <= r.mant /\ r.mant <= 4 * (Hidden * Hidden) - 4 * Hidden + 1
BY ProductBounds DEF IsProduct

\* The hidden bit and its square.
LEMMA Squares ==
  /\ Hidden * Hidden \in Nat /\ 2 * Hidden <= Hidden * Hidden
  /\ Hidden \in Nat /\ Hidden >= 2
<1>1. PICK h \in Nat : h = Hidden /\ h >= 2
  BY Widths
<1>2. 2 * h <= h * h /\ h * h \in Nat
  BY <1>1, ProductMono
<1> QED
  BY <1>1, <1>2

-------------------------------------------------------------------------------
(* Additions.                                                              *)

\* Step, by micro-instruction.
LEMMA StepIs ==
  ASSUME NEW g, NEW o
  PROVE  /\ Step(g, "NORM", o, x, y, z) = Norm(g)
         /\ Step(g, "ADD_SWP_EXP", o, x, y, z) = IF g.adds THEN AddSwpExp(g) ELSE g
         /\ Step(g, "ADD_SHIFT", o, x, y, z) = IF g.adds THEN AddShift(g) ELSE g
         /\ Step(g, "ADD_SWP_FRAC", o, x, y, z) = IF g.adds THEN AddSwpFrac(g) ELSE g
         /\ Step(g, "ADD_FRAC", o, x, y, z) = IF g.adds THEN AddFrac(g) ELSE g
BY DEF Step, Addition

\* The registers after a swap, and after there is nothing to add.
LEMMA SwappedIs ==
  ASSUME NEW g \in Units
  PROVE  /\ Swapped(g) \in Units /\ Swapped(g).A = g.B /\ Swapped(g).B = g.A /\ Swapped(g).adds = g.adds
         /\ [Swapped(g) EXCEPT !.adds = FALSE] \in Units
         /\ [Swapped(g) EXCEPT !.adds = FALSE].A = g.B
         /\ ~[Swapped(g) EXCEPT !.adds = FALSE].adds
         /\ [g EXCEPT !.adds = FALSE] \in Units /\ [g EXCEPT !.adds = FALSE].A = g.A
         /\ ~[g EXCEPT !.adds = FALSE].adds
<1>1. /\ Swapped(g) \in Units /\ Swapped(g).A = g.B /\ Swapped(g).B = g.A /\ Swapped(g).adds = g.adds
  BY DEF Swapped, Units
<1>2. /\ [g EXCEPT !.adds = FALSE] \in Units /\ [g EXCEPT !.adds = FALSE].A = g.A
      /\ ~[g EXCEPT !.adds = FALSE].adds
  BY DEF Units
<1>3. /\ [Swapped(g) EXCEPT !.adds = FALSE] \in Units
      /\ [Swapped(g) EXCEPT !.adds = FALSE].A = Swapped(g).A
      /\ ~[Swapped(g) EXCEPT !.adds = FALSE].adds
  BY <1>1 DEF Units
<1> QED
  BY <1>1, <1>2, <1>3

\* The scale of a register is a positive number, and its value an integer.
LEMMA ScaleNat ==
  ASSUME NEW r \in Registers, IsScaled(r)
  PROVE  /\ r.exp + (Bias + MANT) \in Nat
         /\ Scale(r) \in Nat /\ Scale(r) >= 1
         /\ Value(r) \in Int
         /\ r.mant = 0 => Value(r) = 0
<1>1. r.exp \in Int /\ r.mant \in Nat /\ r.sign \in {0, 1}
  BY DEF Registers
<1>2. r.exp + (Bias + MANT) \in Nat
  BY <1>1, Widths DEF IsScaled
<1>3. PICK s \in Nat : s = Scale(r) /\ s >= 1
  BY <1>2, Pow2Nat DEF Scale
<1>4. PICK a \in Nat : a = r.mant * s /\ (r.mant = 0 => a = 0)
  <2>1. r.mant * s \in Nat /\ (r.mant = 0 => r.mant * s = 0)
    BY <1>1, ProductNat
  <2> QED
    BY <2>1
<1>5. Value(r) = Signed(r.sign, a)
  BY <1>3, <1>4 DEF Value
<1> QED
  BY <1>2, <1>3, <1>4, <1>5 DEF Signed

\* Each of the shapes fits.
LEMMA ShapeBounds ==
  ASSUME NEW r \in Registers, r.mant = 0 \/ IsWide(r) \/ IsProduct(r)
  PROVE  r.mant \in Nat /\ r.mant < 4 * (Hidden * Hidden)
<1>1. PICK h \in Nat, q \in Nat : h = Hidden /\ q = Hidden * Hidden /\ h >= 2 /\ 2 * h <= q
  BY Squares
<1>2. r.mant \in Nat
  BY DEF Registers
<1>3. IsWide(r) => r.mant <= 4 * q - 2 * h
  BY <1>1, WideBounds
<1>4. IsProduct(r) => r.mant <= 4 * q - 4 * h + 1
  BY <1>1, ProductRegisterBounds
<1>5. r.mant < 4 * q
  BY <1>1, <1>2, <1>3, <1>4
<1> QED
  BY <1>1, <1>2, <1>5

\* ADD_SWP_EXP.
LEMMA SwapsExp ==
  ASSUME NEW o, NEW e \in Int, NEW g, Loaded(g, o, e)
  PROVE  Ordered(AddSwpExp(g), o, e)
<1>1. /\ g \in Units /\ g.adds /\ g.A \in Registers /\ g.B \in Registers
      /\ IsScaled(g.A) /\ IsScaled(g.B) /\ Value(g.A) + Value(g.B) = e
      /\ g.A.mant = 0 \/ IsWide(g.A) \/ (o \notin Sums /\ IsProduct(g.A))
      /\ g.B.mant = 0 \/ IsWide(g.B)
  BY DEF Loaded, Units
<1>2. Value(g.A) \in Int /\ Value(g.B) \in Int
  BY <1>1, ScaleNat
<1>3. CASE g.B.mant = 0
  <2>1. AddSwpExp(g) = [g EXCEPT !.adds = FALSE]
    BY <1>3 DEF AddSwpExp
  <2>2. Value(g.A) = e
    BY <1>1, <1>2, <1>3, ScaleNat
  <2> DEFINE h == [g EXCEPT !.adds = FALSE]
  <2>3. h \in Units /\ h.A = g.A /\ ~h.adds
    BY <1>1, SwappedIs
  <2>4. g.A.mant < 4 * (Hidden * Hidden)
    BY <1>1, ShapeBounds
  <2> HIDE DEF h
  <2>5. Summed(h, e)
    BY <1>1, <2>2, <2>3, <2>4, ExactSum
  <2>6. Ordered(h, o, e)
    BY <2>3, <2>5 DEF Ordered
  <2> QED
    BY <2>1, <2>6 DEF h
<1>4. CASE g.B.mant # 0 /\ g.A.mant = 0
  <2>1. AddSwpExp(g) = [Swapped(g) EXCEPT !.adds = FALSE]
    BY <1>4 DEF AddSwpExp
  <2>2. Value(g.B) = e
    BY <1>1, <1>2, <1>4, ScaleNat
  <2> DEFINE h == [Swapped(g) EXCEPT !.adds = FALSE]
  <2>3. h \in Units /\ h.A = g.B /\ ~h.adds
    BY <1>1, SwappedIs
  <2>4. g.B.mant < 4 * (Hidden * Hidden)
    BY <1>1, ShapeBounds
  <2> HIDE DEF h
  <2>5. Summed(h, e)
    BY <1>1, <2>2, <2>3, <2>4, ExactSum
  <2>6. Ordered(h, o, e)
    BY <2>3, <2>5 DEF Ordered
  <2> QED
    BY <2>1, <2>6 DEF h
<1>5. CASE g.B.mant # 0 /\ g.A.mant # 0
  <2>1. /\ g.A.mant \in Nat /\ g.B.mant \in Nat /\ g.A.exp \in Int /\ g.B.exp \in Int
    BY <1>1 DEF Registers
  <2>2. CASE g.A.exp > g.B.exp \/ (g.A.exp = g.B.exp /\ g.A.mant > g.B.mant)
    <3> DEFINE h == Swapped(g)
    <3>1. AddSwpExp(g) = h
      BY <1>5, <2>2 DEF AddSwpExp
    <3>2. h \in Units /\ h.A = g.B /\ h.B = g.A /\ h.adds
      BY <1>1, SwappedIs
    <3>3. Value(h.A) + Value(h.B) = e
      BY <1>1, <1>2, <3>2
    <3> HIDE DEF h
    <3>4. Ordered(h, o, e)
      BY <1>1, <1>5, <2>1, <2>2, <3>2, <3>3 DEF Ordered
    <3> QED
      BY <3>1, <3>4
  <2>3. CASE ~(g.A.exp > g.B.exp \/ (g.A.exp = g.B.exp /\ g.A.mant > g.B.mant))
    <3>1. AddSwpExp(g) = g
      BY <1>5, <2>3 DEF AddSwpExp
    <3>2. Ordered(g, o, e)
      BY <1>1, <1>5, <2>1, <2>3 DEF Ordered
    <3> QED
      BY <3>1, <3>2
  <2> QED
    BY <2>2, <2>3
<1> QED
  BY <1>3, <1>4, <1>5

\* q is what is left of a shifted by shift places, and r what is shifted out.
ShiftsOut(a, shift, u, q, r) ==
    /\ q = IF shift > 2 * (MANT + 1) - 1 THEN 0 ELSE a \div Pow2[shift]
    /\ a = q * Pow2[shift] + r /\ r < Pow2[shift]
    /\ q * (Pow2[shift] * u) <= a * u /\ a * u < (q + 1) * (Pow2[shift] * u)
    /\ r = 0 => a * u = q * (Pow2[shift] * u)

\* ADD_SHIFT cuts the units of the larger number.
LEMMA ShiftedOut ==
  ASSUME NEW a \in Nat, a < 4 * (Hidden * Hidden), NEW shift \in Nat, NEW u \in Nat, u >= 1
  PROVE  \E q \in Nat, r \in Nat : ShiftsOut(a, shift, u, q, r)
<1>1. PICK w \in Nat : w = Pow2[shift] /\ w >= 1
  BY Pow2Nat
<1>2. PICK q \in Nat, r \in Nat : a \div w = q /\ a = q * w + r /\ r < w
  BY <1>1, Divided
<1>3. shift > 2 * (MANT + 1) - 1 => q = 0
  <2> SUFFICES ASSUME shift > 2 * (MANT + 1) - 1, q >= 1 PROVE FALSE
    BY <1>2
  <2>1. 2 * MANT + 2 \in Nat /\ 2 * MANT + 2 <= shift
    BY Widths
  <2>2. Pow2[2 * MANT + 2] <= w
    BY <1>1, <2>1, Pow2Mono
  <2>3. a < w
    <3>1. PICK s \in Nat : s = 4 * (Hidden * Hidden) /\ s = Pow2[2 * MANT + 2]
      BY TwoWords
    <3> QED
      BY <3>1, <2>2, <1>1
  <2>4. 1 * w <= q * w /\ q * w \in Nat
    BY <1>1, <1>2, ProductMono
  <2> QED
    BY <2>3, <2>4, <1>1, <1>2
<1>4. q = IF shift > 2 * (MANT + 1) - 1 THEN 0 ELSE a \div Pow2[shift]
  BY <1>1, <1>2, <1>3
<1>5. PICK b \in Nat, c \in Nat, d \in Nat : b = q * (w * u) /\ c = r * u /\ d = w * u
  BY ProductNat
<1>6. a * u = b + c
  <2>1. (q * w + r) * u = (q * w) * u + r * u /\ (q * w) * u = q * (w * u)
    BY ProductNat
  <2> QED
    BY <2>1, <1>2, <1>5
<1>7. c < d
  BY <1>1, <1>2, <1>5, ProductLess
<1>8. (q + 1) * (w * u) = b + d
  <2>1. (q + 1) * d = q * d + d
    OBVIOUS
  <2> QED
    BY <2>1, <1>5
<1>9. r = 0 => c = 0
  BY <1>5
<1>10. /\ q * (w * u) <= a * u /\ a * u < (q + 1) * (w * u)
       /\ r = 0 => a * u = q * (w * u)
  BY <1>5, <1>6, <1>7, <1>8, <1>9
<1>11. /\ q * (Pow2[shift] * u) <= a * u /\ a * u < (q + 1) * (Pow2[shift] * u)
       /\ r = 0 => a * u = q * (Pow2[shift] * u)
       /\ a = q * Pow2[shift] + r /\ r < Pow2[shift]
  BY <1>1, <1>2, <1>10, Zenon
<1> QED
  BY <1>4, <1>11, Zenon DEF ShiftsOut

\* ADD_SHIFT when there is something to add: register A has the exponent of register B,
\* and its mantissa is cut.
LEMMA AddShiftIs ==
  ASSUME NEW g \in Units, NEW q \in Nat,
         q = IF g.B.exp - g.A.exp > 2 * (MANT + 1) - 1 THEN 0
             ELSE g.A.mant \div Pow2[g.B.exp - g.A.exp]
  PROVE  /\ AddShift(g) \in Units /\ AddShift(g).B = g.B /\ AddShift(g).adds = g.adds
         /\ AddShift(g).A \in Registers
         /\ AddShift(g).A.mant = q /\ AddShift(g).A.exp = g.B.exp /\ AddShift(g).A.sign = g.A.sign
<1>1. AddShift(g) = [g EXCEPT !.A.mant = q, !.A.exp = g.B.exp]
  BY DEF AddShift
<1>2. g.B.exp \in Int
  BY DEF Units, Registers
<1>3. PICK d \in Int : d = g.B.exp
  BY <1>2
<1>4. AddShift(g) = [g EXCEPT !.A.mant = q, !.A.exp = d]
  BY <1>1, <1>3
<1>5. [g EXCEPT !.A.mant = q, !.A.exp = d] \in Units
  BY DEF Units, Registers
<1>6. /\ [g EXCEPT !.A.mant = q, !.A.exp = d].B = g.B
      /\ [g EXCEPT !.A.mant = q, !.A.exp = d].adds = g.adds
      /\ [g EXCEPT !.A.mant = q, !.A.exp = d].A.mant = q
      /\ [g EXCEPT !.A.mant = q, !.A.exp = d].A.exp = d
      /\ [g EXCEPT !.A.mant = q, !.A.exp = d].A.sign = g.A.sign
  BY DEF Units, Registers
<1> QED
  BY <1>3, <1>4, <1>5, <1>6 DEF Units

\* What is lost is lost far from the first bit of the other number.
LEMMA LostFarAway ==
  ASSUME NEW a \in Registers, NEW b \in Registers, NEW shift \in Nat,
         \/ IsWide(a) /\ (IsWide(b) \/ IsProduct(b))
         \/ IsProduct(a) /\ IsWide(b),
         NEW q \in Nat, NEW r \in Nat, a.mant = q * Pow2[shift] + r, r < Pow2[shift]
  PROVE  r = 0 \/ b.mant >= q + 1 + Hidden
<1>1. PICK h \in Nat, s \in Nat : h = Hidden /\ s = Hidden * Hidden /\ h >= 2 /\ 2 * h <= s
  BY Squares
<1>2. PICK w \in Nat : w = Pow2[shift] /\ w >= 1
  BY Pow2Nat
<1>3. a.mant \in Nat /\ b.mant \in Nat /\ q * w \in Nat
  BY <1>2, ProductNat DEF Registers
<1>4. a.mant = q * w + r /\ r < w
  BY <1>2
<1> SUFFICES ASSUME r # 0 PROVE b.mant >= q + 1 + h
  BY <1>1
<1>5. CASE IsProduct(a) /\ IsWide(b)
  <2>1. 2 * q <= q * w
    <3>1. 2 * q <= w * q /\ w * q = q * w
      BY <1>2, <1>4, ProductMono
    <3> QED
      BY <3>1
  <2>2. a.mant <= 4 * s - 4 * h + 1 /\ 2 * s <= b.mant
    BY <1>1, <1>5, ProductRegisterBounds, WideBounds
  <2>3. 2 * q <= 4 * s - 4 * h + 1
    BY <2>1, <2>2, <1>3, <1>4
  <2> QED
    BY <2>2, <2>3, <1>1, <1>3
<1>6. CASE IsWide(a) /\ (IsWide(b) \/ IsProduct(b))
  <2>1. PICK k \in Nat : a.mant = k * (2 * h)
    BY <1>1, <1>6 DEF IsWide
  <2>2. shift > MANT + 1
    <3> SUFFICES ASSUME shift <= MANT + 1 PROVE FALSE
      BY Widths
    <3>1. PICK j \in Nat : MANT + 1 = j + shift
      <4>1. (MANT + 1) - shift \in Nat /\ MANT + 1 = ((MANT + 1) - shift) + shift
        BY Widths
      <4> QED
        BY <4>1
    <3>2. PICK v \in Nat : v = Pow2[j]
      BY Pow2Nat
    <3>3. 2 * h = v * w
      <4>1. Pow2[j + shift] = Pow2[j] * Pow2[shift]
        BY Pow2Sum
      <4> QED
        BY <4>1, <3>1, <3>2, <1>1, <1>2, Widths
    <3>4. PICK n \in Nat : n = k * v
      BY ProductNat
    <3>5. a.mant = n * w
      <4>1. k * (v * w) = (k * v) * w
        BY ProductNat
      <4> QED
        BY <4>1, <3>3, <3>4, <2>1
    <3>6. ~(q + 1 <= n)
      <4> SUFFICES ASSUME q + 1 <= n PROVE FALSE
        OBVIOUS
      <4>1. PICK m \in Nat : m = q + 1
        OBVIOUS
      <4>2. m * w <= n * w
        BY <1>2, <4>1, ProductMono
      <4>3. m * w = q * w + w
        BY <4>1
      <4> QED
        BY <4>2, <4>3, <3>5, <1>2, <1>3, <1>4
    <3>7. n * w <= q * w
      BY <3>6, <1>2, ProductMono
    <3> QED
      BY <3>5, <3>7, <1>3, <1>4
  <2>3. 4 * h <= w
    <3>1. MANT + 2 \in Nat /\ MANT + 2 <= shift /\ (MANT + 1) + 1 = MANT + 2 /\ MANT + 1 \in Nat
      BY <2>2, Widths
    <3>2. Pow2[MANT + 2] <= w
      BY <3>1, <1>2, Pow2Mono
    <3>3. Pow2[MANT + 2] = 2 * Pow2[MANT + 1]
      BY <3>1, Pow2Step
    <3> QED
      BY <3>2, <3>3, <1>1, Widths
  <2>4. q * (4 * h) <= q * w
    <3>1. (4 * h) * q <= w * q /\ w * q = q * w /\ (4 * h) * q = q * (4 * h)
      BY <2>3, <1>2, ProductMono
    <3> QED
      BY <3>1
  <2>5. a.mant < 4 * s
    BY <1>1, <1>6, ShapeBounds
  <2>6. q < h
    <3> SUFFICES ASSUME h <= q PROVE FALSE
      BY <1>1
    <3>1. h * (4 * h) <= q * (4 * h) /\ h * (4 * h) = 4 * (h * h) /\ q * (4 * h) \in Nat
      BY ProductMono, ProductNat
    <3> QED
      BY <3>1, <2>4, <2>5, <1>1, <1>3, <1>4
  <2>7. s <= b.mant
    <3>1. IsWide(b) => 2 * s <= b.mant
      BY <1>1, WideBounds
    <3>2. IsProduct(b) => s <= b.mant
      BY <1>1, ProductRegisterBounds
    <3> QED
      BY <3>1, <3>2, <1>1, <1>3, <1>6
  <2> QED
    BY <2>6, <2>7, <1>1, <1>3
<1> QED
  BY <1>5, <1>6

\* ADD_SHIFT.
LEMMA Aligns ==
  ASSUME NEW o, NEW e \in Int, NEW g, g.adds, Ordered(g, o, e)
  PROVE  Aligned(AddShift(g), e) /\ (o \in Sums => Subtractable(AddShift(g)))
<1>1. /\ g \in Units /\ g.A \in Registers /\ g.B \in Registers
      /\ IsScaled(g.A) /\ IsScaled(g.B) /\ Value(g.A) + Value(g.B) = e
      /\ g.A.exp <= g.B.exp /\ (g.A.exp = g.B.exp => g.A.mant <= g.B.mant)
      /\ \/ IsWide(g.A) /\ IsWide(g.B)
         \/ o \notin Sums /\ IsWide(g.A) /\ IsProduct(g.B)
         \/ o \notin Sums /\ IsProduct(g.A) /\ IsWide(g.B)
  BY DEF Ordered, Units
<1>2. /\ g.A.mant \in Nat /\ g.B.mant \in Nat /\ g.A.exp \in Int /\ g.B.exp \in Int
      /\ g.A.sign \in {0, 1}
  BY <1>1 DEF Registers
<1>3. PICK shift \in Nat : shift = g.B.exp - g.A.exp
  BY <1>1, <1>2
<1>4. PICK v \in Nat : v = Scale(g.A) /\ v >= 1
  BY <1>1, ScaleNat
<1>5. PICK w \in Nat : w = Pow2[shift] /\ w >= 1
  BY Pow2Nat
<1>6. Scale(g.B) = w * v
  <2>1. g.B.exp + (Bias + MANT) = shift + (g.A.exp + (Bias + MANT))
    BY <1>2, <1>3, Widths
  <2>2. g.A.exp + (Bias + MANT) \in Nat
    BY <1>1, ScaleNat
  <2>3. Pow2[shift + (g.A.exp + (Bias + MANT))] = Pow2[shift] * Pow2[g.A.exp + (Bias + MANT)]
    BY <2>2, Pow2Sum
  <2> QED
    BY <2>1, <2>3, <1>4, <1>5 DEF Scale
<1>7. g.A.mant < 4 * (Hidden * Hidden) /\ g.B.mant < 4 * (Hidden * Hidden)
  BY <1>1, ShapeBounds
<1>8. PICK q \in Nat, r \in Nat :
        /\ q = IF shift > 2 * (MANT + 1) - 1 THEN 0 ELSE g.A.mant \div Pow2[shift]
        /\ g.A.mant = q * Pow2[shift] + r /\ r < Pow2[shift]
        /\ q * (Pow2[shift] * v) <= g.A.mant * v /\ g.A.mant * v < (q + 1) * (Pow2[shift] * v)
        /\ r = 0 => g.A.mant * v = q * (Pow2[shift] * v)
  <2>1. PICK a \in Nat : a = g.A.mant /\ a < 4 * (Hidden * Hidden)
    BY <1>2, <1>7
  <2>2. \E q \in Nat, r \in Nat : ShiftsOut(a, shift, v, q, r)
    BY <1>4, <2>1, ShiftedOut
  <2> QED
    BY <2>1, <2>2, Zenon DEF ShiftsOut
<1> DEFINE h == AddShift(g)
<1>9. /\ h \in Units /\ h.B = g.B /\ h.adds = g.adds /\ h.A \in Registers
      /\ h.A.mant = q /\ h.A.exp = g.B.exp /\ h.A.sign = g.A.sign
  BY <1>1, <1>3, <1>8, AddShiftIs
<1> HIDE DEF h
<1>10. PICK t \in Nat : t = g.A.mant * v
  BY <1>2, ProductNat
<1>11. Value(g.A) = Signed(g.A.sign, t)
  BY <1>4, <1>10 DEF Value
<1>12. e - Value(h.B) = Value(g.A)
  <2>1. Value(g.A) \in Int /\ Value(g.B) \in Int
    BY <1>1, ScaleNat
  <2> QED
    BY <2>1, <1>1, <1>9
<1>13. Magnitude(e - Value(h.B)) = t
  <2>1. PICK sign \in {0, 1} : sign = g.A.sign
    BY <1>2
  <2>2. Magnitude(Signed(sign, t)) = t
    BY MagnitudeSigned
  <2> QED
    BY <2>1, <2>2, <1>11, <1>12
<1>14. q * (w * v) <= t /\ t < (q + 1) * (w * v) /\ (r = 0 => t = q * (w * v))
  BY <1>5, <1>8, <1>10, Zenon
<1>15. r = 0 \/ g.B.mant >= q + 1 + Hidden
  BY <1>1, <1>8, LostFarAway
<1>16. q <= g.A.mant
  <2>1. q * 1 <= q * w /\ q * w \in Nat
    <3>1. 1 * q <= w * q /\ w * q = q * w /\ w * q \in Nat
      BY <1>5, ProductMono, ProductNat
    <3> QED
      BY <3>1
  <2>2. g.A.mant = q * w + r
    BY <1>5, <1>8
  <2> QED
    BY <2>1, <2>2
<1>17. Aligned(h, e)
  <2>1. q < 4 * (Hidden * Hidden)
    <3>1. PICK s \in Nat : s = 4 * (Hidden * Hidden)
      BY TwoWords
    <3> QED
      BY <3>1, <1>2, <1>7, <1>16
  <2>2. Scale(h.B) = w * v
    BY <1>6, <1>9
  <2>3. t = q * (w * v) \/ h.B.mant >= q + 1 + Hidden
    BY <1>9, <1>14, <1>15
  <2> QED
    BY <2>1, <2>2, <2>3, <1>1, <1>7, <1>9, <1>11, <1>12, <1>13, <1>14 DEF Aligned
<1>18. ASSUME o \in Sums PROVE Subtractable(h)
  <2>1. IsWide(g.A) /\ IsWide(g.B)
    BY <1>1, <1>18
  <2>2. CASE shift = 0
    BY <2>2, <1>1, <1>2, <1>3, <1>9, <1>16 DEF Subtractable
  <2>3. CASE shift >= 1
    <3>1. 2 <= w
      <4>1. 0 \in Nat /\ 0 < shift /\ Pow2[0] = 1
        BY <2>3, Pow2Def
      <4>2. 2 * Pow2[0] <= Pow2[shift]
        BY <4>1, Pow2Less
      <4> QED
        BY <4>1, <4>2, <1>5
    <3>2. 2 * q <= w * q /\ w * q = q * w /\ q * w \in Nat
      BY <3>1, ProductMono, ProductNat
    <3>3. g.A.mant = q * w + r
      BY <1>5, <1>8
    <3>4. PICK s \in Nat : s = Hidden * Hidden
      BY Squares
    <3>5. g.A.mant < 4 * s /\ 2 * s <= g.B.mant
      BY <3>4, <1>1, <1>7, <2>1, WideBounds
    <3>6. q <= g.B.mant
      BY <3>2, <3>3, <3>5, <1>2
    <3> QED
      BY <3>6, <1>9 DEF Subtractable
  <2> QED
    BY <2>2, <2>3
<1> QED
  BY <1>17, <1>18 DEF h

\* Numbers with the same exponent have the same scale.
LEMMA SameScale ==
  ASSUME NEW a, NEW b, a.exp = b.exp
  PROVE  Scale(a) = Scale(b) /\ (IsScaled(a) <=> IsScaled(b))
BY DEF Scale, IsScaled

\* ADD_SWP_FRAC.
LEMMA SwapsFrac ==
  ASSUME NEW e \in Int, NEW g, g.adds, Aligned(g, e)
  PROVE  Aligned(AddSwpFrac(g), e) /\ Subtractable(AddSwpFrac(g))
<1>1. PICK a \in Nat, b \in Nat, u \in Nat, sign \in {0, 1}, t \in Nat :
        /\ a = g.A.mant /\ b = g.B.mant /\ u = Scale(g.B) /\ u >= 1
        /\ sign = g.A.sign /\ t = Magnitude(e - Value(g.B))
  <2>1. g.A \in Registers /\ g.B \in Registers /\ IsScaled(g.B)
    BY DEF Aligned, Units
  <2>2. /\ g.A.mant \in Nat /\ g.B.mant \in Nat /\ g.A.sign \in {0, 1}
        /\ Scale(g.B) \in Nat /\ Scale(g.B) >= 1 /\ Value(g.B) \in Int
    BY <2>1, ScaleNat DEF Registers
  <2>3. Magnitude(e - Value(g.B)) \in Nat
    BY <2>2 DEF Magnitude
  <2> QED
    BY <2>2, <2>3
<1>2. /\ g \in Units /\ g.A \in Registers /\ g.B \in Registers
      /\ IsScaled(g.B) /\ g.A.exp = g.B.exp
      /\ a < 4 * (Hidden * Hidden) /\ b < 4 * (Hidden * Hidden)
      /\ e - Value(g.B) = Signed(sign, t)
      /\ a * u <= t /\ t < (a + 1) * u
      /\ t = a * u \/ b >= a + 1 + Hidden
  BY <1>1 DEF Aligned, Units
<1>3. CASE a > b
  <2> DEFINE h == Swapped(g)
  <2>1. AddSwpFrac(g) = h
    BY <1>1, <1>3 DEF AddSwpFrac
  <2>2. h \in Units /\ h.A = g.B /\ h.B = g.A /\ h.adds
    BY <1>2, SwappedIs
  <2> HIDE DEF h
  <2>3. t = a * u
    BY <1>2, <1>3, Widths
  <2>4. Scale(g.A) = u /\ IsScaled(g.A)
    BY <1>1, <1>2, SameScale
  <2>5. Value(g.A) = Signed(sign, t)
    BY <1>1, <2>3, <2>4 DEF Value
  <2>6. PICK s \in Nat : s = b * u
    BY ProductNat
  <2>7. Value(g.B) = Signed(g.B.sign, s)
    BY <1>1, <2>6 DEF Value
  <2>8. Value(g.A) \in Int /\ Value(g.B) \in Int
    BY <1>2, <2>4, ScaleNat
  <2>9. e - Value(h.B) = Value(g.B)
    BY <1>2, <2>2, <2>5, <2>8
  <2>10. Magnitude(e - Value(h.B)) = s
    <3>1. PICK other \in {0, 1} : other = g.B.sign
      BY <1>2 DEF Registers
    <3>2. Magnitude(Signed(other, s)) = s
      BY MagnitudeSigned
    <3> QED
      BY <3>1, <3>2, <2>7, <2>9
  <2>11. s < (b + 1) * u
    <3>1. (b + 1) * u = b * u + u
      OBVIOUS
    <3> QED
      BY <3>1, <2>6, <1>1
  <2>12. Aligned(h, e)
    <3>1. Scale(h.B) = u /\ h.A.mant = b /\ h.B.mant = a /\ h.A.exp = h.B.exp /\ IsScaled(h.B)
      BY <1>1, <1>2, <2>2, <2>4
    <3>2. e - Value(h.B) = Signed(h.A.sign, s)
      BY <2>2, <2>7, <2>9
    <3>3. b * u <= s
      BY <2>6
    <3> QED
      BY <3>1, <3>2, <3>3, <1>2, <2>2, <2>6, <2>10, <2>11 DEF Aligned
  <2>13. Subtractable(h)
    BY <1>1, <1>3, <2>2 DEF Subtractable
  <2> QED
    BY <2>1, <2>12, <2>13
<1>4. CASE ~(a > b)
  <2>1. AddSwpFrac(g) = g
    BY <1>1, <1>4 DEF AddSwpFrac
  <2>2. Subtractable(g)
    BY <1>1, <1>4 DEF Subtractable
  <2> QED
    BY <2>1, <2>2
<1> QED
  BY <1>3, <1>4

\* ADD_FRAC when the difference does not wrap.
LEMMA AddFracIs ==
  ASSUME NEW g \in Units, g.A.mant < 4 * (Hidden * Hidden), g.B.mant < 4 * (Hidden * Hidden),
         g.A.mant <= g.B.mant,
         NEW m, m = IF g.A.sign # g.B.sign THEN g.B.mant - g.A.mant ELSE g.B.mant + g.A.mant
  PROVE  /\ m \in Nat /\ m < Pow2[2 * WORD]
         /\ AddFrac(g) \in Units /\ AddFrac(g).A.exp = g.A.exp /\ AddFrac(g).A.mant = m
         /\ m # 0 => AddFrac(g).A.sign = g.B.sign
<1>1. PICK a \in Nat, b \in Nat, n \in Nat, q \in Nat :
        /\ a = g.A.mant /\ b = g.B.mant /\ n = Pow2[2 * WORD] /\ q = Hidden * Hidden /\ 8 * q <= n
  <2>1. g.A.mant \in Nat /\ g.B.mant \in Nat
    BY DEF Units, Registers
  <2> QED
    BY <2>1, Squares, TwoWords
<1>2. m \in Nat /\ m < n
  <2>1. a < 4 * q /\ b < 4 * q /\ a <= b
    BY <1>1
  <2>2. m = b - a \/ m = b + a
    BY <1>1
  <2> QED
    BY <2>1, <2>2, <1>1
<1>3. m % n = m
  BY <1>2, SmallMod
<1>4. PICK s \in {0, 1} : /\ s = IF m = 0 /\ (g.A.sign = 0 \/ g.B.sign = 0) THEN 0 ELSE g.B.sign
                          /\ m # 0 => s = g.B.sign
  <2>1. g.A.sign \in {0, 1} /\ g.B.sign \in {0, 1}
    BY DEF Units, Registers
  <2> QED
    BY <2>1
<1>5. AddFrac(g) = [g EXCEPT !.A.mant = m, !.A.sign = s]
  <2>1. (IF g.A.sign # g.B.sign THEN g.B.mant - g.A.mant ELSE g.B.mant + g.A.mant) % Pow2[2 * WORD] = m
    BY <1>1, <1>3
  <2> DEFINE k == (IF g.A.sign # g.B.sign THEN g.B.mant - g.A.mant ELSE g.B.mant + g.A.mant) % Pow2[2 * WORD]
             c == IF k = 0 /\ (g.A.sign = 0 \/ g.B.sign = 0) THEN 0 ELSE g.B.sign
  <2>2. AddFrac(g) = [g EXCEPT !.A.mant = k, !.A.sign = c]
    BY DEF AddFrac
  <2>3. k = m
    BY <2>1
  <2>4. c = s
    BY <2>3, <1>4
  <2> HIDE DEF k, c
  <2> QED
    BY <2>2, <2>3, <2>4
<1>6. [g EXCEPT !.A.mant = m, !.A.sign = s] \in Units
  BY <1>2 DEF Units, Registers
<1>7. /\ [g EXCEPT !.A.mant = m, !.A.sign = s].A.mant = m
      /\ [g EXCEPT !.A.mant = m, !.A.sign = s].A.exp = g.A.exp
      /\ [g EXCEPT !.A.mant = m, !.A.sign = s].A.sign = s
  BY DEF Units, Registers
<1> QED
  BY <1>1, <1>2, <1>4, <1>5, <1>6, <1>7

\* The sum of b units and about a units, or their difference, is nearly what ADD_FRAC makes
\* of them.
LEMMA SumNearly ==
  ASSUME NEW a \in Nat, NEW b \in Nat, NEW u \in Nat, u >= 1, NEW t \in Nat, a <= b,
         a * u <= t, t < (a + 1) * u, t = a * u \/ b >= a + 1 + Hidden
  PROVE  /\ b * u + t \in Nat /\ Nearly(b * u + t, b + a, u)
         /\ b * u - t \in Nat /\ Nearly(b * u - t, b - a, u)
<1>0. Hidden \in Nat
  BY Widths
<1>1. PICK p \in Nat, q \in Nat : p = a * u /\ q = b * u /\ p <= q
  <2>1. a * u \in Nat /\ b * u \in Nat /\ a * u <= b * u
    BY ProductMono, ProductNat
  <2> QED
    BY <2>1
<1>2. p <= t /\ t < p + u
  <2>1. (a + 1) * u = a * u + u
    OBVIOUS
  <2> QED
    BY <2>1, <1>1
<1>3. CASE t = p
  <2>1. (b + a) * u = q + p /\ (b - a) * u = q - p
    BY <1>1
  <2> QED
    BY <1>1, <1>3, <2>1 DEF Nearly
<1>4. CASE t # p
  <2>1. b >= a + 1 + Hidden
    BY <1>1, <1>4
  <2>2. /\ (b + a - 1) * u = q + p - u /\ (b + a + 1) * u = q + p + u
        /\ (b - a - 1) * u = q - p - u /\ (b - a + 1) * u = q - p + u
    <3>1. PICK c \in Nat, d \in Nat : c = b + a /\ d = b - a
      OBVIOUS
    <3>2. c * u = q + p /\ d * u = q - p
      BY <1>1, <3>1
    <3>3. (c - 1) * u = c * u - u /\ (c + 1) * u = c * u + u /\ (d - 1) * u = d * u - u /\ (d + 1) * u = d * u + u
      OBVIOUS
    <3>4. b + a - 1 = c - 1 /\ b - a - 1 = d - 1
      BY <3>1
    <3> QED
      BY <3>1, <3>2, <3>3, <3>4
  <2>3. p + u <= q
    <3>1. (a + 1) * u <= b * u /\ (a + 1) * u = a * u + u
      BY <2>1, <1>0, ProductMono
    <3> QED
      BY <3>1, <1>1
  <2>4. /\ q + t \in Nat /\ q - t \in Nat /\ b + a >= Hidden + 1 /\ b - a >= Hidden + 1
        /\ q + p - u < q + t /\ q + t < q + p + u
        /\ q - p - u < q - t /\ q - t < q - p + u
    BY <1>0, <1>2, <2>1, <2>3, <1>4
  <2>5. (b + a) - 1 = b + a - 1 /\ (b - a) - 1 = b - a - 1 /\ (b + a) + 1 = b + a + 1 /\ (b - a) + 1 = b - a + 1
    OBVIOUS
  <2>6. Nearly(q + t, b + a, u)
    <3>1. ((b + a) - 1) * u < q + t /\ q + t < ((b + a) + 1) * u
      BY <2>2, <2>4, <2>5
    <3> QED
      BY <2>4, <3>1 DEF Nearly
  <2>7. Nearly(q - t, b - a, u)
    <3>1. ((b - a) - 1) * u < q - t /\ q - t < ((b - a) + 1) * u
      BY <2>2, <2>4, <2>5
    <3> QED
      BY <2>4, <3>1 DEF Nearly
  <2> QED
    BY <1>1, <2>4, <2>6, <2>7
<1> QED
  BY <1>3, <1>4

\* ADD_FRAC.
LEMMA AddsFrac ==
  ASSUME NEW e \in Int, NEW g, g.adds, Aligned(g, e), Subtractable(g)
  PROVE  Summed(AddFrac(g), e)
<1>1. PICK a \in Nat, b \in Nat, u \in Nat, sa \in {0, 1}, sb \in {0, 1}, t \in Nat :
        /\ a = g.A.mant /\ b = g.B.mant /\ u = Scale(g.B) /\ u >= 1
        /\ sa = g.A.sign /\ sb = g.B.sign /\ t = Magnitude(e - Value(g.B))
  <2>1. g.A \in Registers /\ g.B \in Registers /\ IsScaled(g.B)
    BY DEF Aligned, Units
  <2>2. /\ g.A.mant \in Nat /\ g.B.mant \in Nat /\ g.A.sign \in {0, 1} /\ g.B.sign \in {0, 1}
        /\ Scale(g.B) \in Nat /\ Scale(g.B) >= 1 /\ Value(g.B) \in Int
    BY <2>1, ScaleNat DEF Registers
  <2>3. Magnitude(e - Value(g.B)) \in Nat
    BY <2>2 DEF Magnitude
  <2> QED
    BY <2>2, <2>3
<1>2. /\ g \in Units /\ g.A \in Registers /\ g.B \in Registers
      /\ IsScaled(g.B) /\ g.A.exp = g.B.exp
      /\ a < 4 * (Hidden * Hidden) /\ b < 4 * (Hidden * Hidden) /\ a <= b
      /\ e - Value(g.B) = Signed(sa, t)
      /\ a * u <= t /\ t < (a + 1) * u
      /\ t = a * u \/ b >= a + 1 + Hidden
  BY <1>1 DEF Aligned, Units, Subtractable
<1>3. PICK q \in Nat : q = b * u /\ Value(g.B) = Signed(sb, q)
  <2>1. b * u \in Nat
    BY ProductNat
  <2>2. Value(g.B) = Signed(sb, b * u)
    BY <1>1 DEF Value
  <2> QED
    BY <2>1, <2>2
<1>4. /\ q + t \in Nat /\ Nearly(q + t, b + a, u)
      /\ q - t \in Nat /\ Nearly(q - t, b - a, u)
  BY <1>1, <1>2, <1>3, SumNearly
<1> DEFINE m == IF g.A.sign # g.B.sign THEN g.B.mant - g.A.mant ELSE g.B.mant + g.A.mant
           h == AddFrac(g)
<1>5. /\ m \in Nat /\ m < Pow2[2 * WORD]
      /\ h \in Units /\ h.A.exp = g.A.exp /\ h.A.mant = m
      /\ m # 0 => h.A.sign = g.B.sign
  BY <1>1, <1>2, AddFracIs
<1>6. m = IF sa # sb THEN b - a ELSE b + a
  BY <1>1
<1> HIDE DEF m, h
<1>7. PICK n \in Nat : n = (IF sa # sb THEN q - t ELSE q + t) /\ Nearly(n, m, u)
  BY <1>4, <1>6
<1>8. e = Signed(sb, n)
  <2>1. e = Signed(sb, q) + Signed(sa, t)
    <3>1. Signed(sb, q) \in Int /\ Signed(sa, t) \in Int
      BY DEF Signed
    <3> QED
      BY <3>1, <1>2, <1>3
  <2> QED
    BY <2>1, <1>7 DEF Signed
<1>9. m = 0 => n = 0
  <2> SUFFICES ASSUME m = 0 PROVE n = 0
    OBVIOUS
  <2>1. 0 * u = 0
    OBVIOUS
  <2> QED
    BY <2>1, <1>7, Widths DEF Nearly
<1>10. e = Signed(h.A.sign, n) /\ Magnitude(e) = n
  <2>1. PICK sign \in {0, 1} : sign = h.A.sign
    BY <1>5 DEF Units, Registers
  <2>2. Magnitude(Signed(sign, n)) = n /\ Magnitude(Signed(sb, n)) = n
    BY MagnitudeSigned
  <2>3. m # 0 => sign = sb
    BY <2>1, <1>1, <1>5
  <2>4. n = 0 => Signed(sign, n) = Signed(sb, n)
    BY DEF Signed
  <2>5. Signed(sign, n) = Signed(sb, n)
    BY <2>3, <2>4, <1>9
  <2> QED
    BY <2>1, <2>2, <2>5, <1>8
<1>11. Scale(h.A) = u /\ IsScaled(h.A)
  BY <1>1, <1>2, <1>5, SameScale
<1> QED
  BY <1>5, <1>7, <1>10, <1>11 DEF Summed, h

\* NORM.
LEMMA Norms ==
  ASSUME NEW e \in Int, NEW g, Summed(g, e)
  PROVE  Faithful(Returned(Norm(g)), e, 1)
<1>1. /\ g \in Units /\ g.A \in Registers /\ IsScaled(g.A) /\ g.A.mant < Pow2[2 * WORD]
      /\ e = Signed(g.A.sign, Magnitude(e))
      /\ Nearly(Magnitude(e), g.A.mant, Scale(g.A))
  BY DEF Summed, Units
<1>2. PICK o \in Nat : o = g.A.exp + (Bias + MANT) /\ Scale(g.A) = Pow2[o]
  BY <1>1, ScaleNat DEF Scale
<1>3. PICK t \in Nat : t = Magnitude(e)
  BY DEF Magnitude
<1>4. Nearly(t, g.A.mant, Pow2[o])
  BY <1>1, <1>2, <1>3
<1>5. e = Signed(g.A.sign, t)
  BY <1>1, <1>3
<1>6. Faithful(Returned(Norm(g)), Signed(g.A.sign, t), 1)
  BY <1>1, <1>2, <1>4, Rounds
<1> QED
  BY <1>5, <1>6

\* MUL: register A is the product, exactly.
LEMMA Multiplies ==
  ASSUME Operand(x), Operand(y), NEW g \in Units, NEW o
  PROVE  LET h == Step(g, "MUL", o, x, y, z)
         IN  h \in Units /\ h.adds /\ h.A = Product(Expand(x), Expand(y))
<1>1. PICK p \in Registers : p = Product(Expand(x), Expand(y))
  BY ProductValue
<1>2. Step(g, "MUL", o, x, y, z) = [g EXCEPT !.A = p, !.adds = TRUE]
  BY <1>1 DEF Step
<1>3. [g EXCEPT !.A = p, !.adds = TRUE].A = p /\ [g EXCEPT !.A = p, !.adds = TRUE].adds
  BY DEF Units
<1>4. [g EXCEPT !.A = p, !.adds = TRUE] \in Units
  BY DEF Units
<1> QED
  BY <1>1, <1>2, <1>3, <1>4

\* The product is the exact result of FMUL.
LEMMA ProductSummed ==
  ASSUME Operand(x), Operand(y), NEW g \in Units, g.A = Product(Expand(x), Expand(y))
  PROVE  Summed(g, Exact("FMUL"))
<1>1. /\ IsScaled(g.A) /\ g.A.mant < 4 * (Hidden * Hidden) /\ Value(g.A) = Whole(x) * Whole(y)
  BY ProductValue
<1>2. Summed(g, Value(g.A))
  BY <1>1, ExactSum
<1> QED
  BY <1>1, <1>2, ExactIs

\* The exact result is an integer, in the units of Exact.
LEMMA ExactInt ==
  ASSUME Operand(x), Operand(y), Operand(z), NEW o \in Fused \cup Sums \cup {"FMUL"}
  PROVE  Exact(o) \in Int
<1>1. PICK a \in Int, b \in Int, c \in Int, u \in Int :
         a = Whole(x) /\ b = Whole(y) /\ c = Whole(z) /\ u = Unit
  BY WholeInt
<1>2. a * b \in Int /\ c * u \in Int /\ (a + b) * u \in Int /\ (a - b) * u \in Int
  <2>1. a + b \in Int /\ a - b \in Int
    OBVIOUS
  <2> QED
    BY <2>1, ProductInt
<1>3. PICK p \in Int, q \in Int, r \in Int, t \in Int :
         p = a * b /\ q = c * u /\ r = (a + b) * u /\ t = (a - b) * u
  BY <1>2
<1>4. /\ Exact("FADD") = r /\ Exact("FSUB") = t /\ Exact("FMUL") = p
      /\ Exact("FMADD") = p + q /\ Exact("FMSUB") = p - q
      /\ Exact("FNMADD") = -p - q /\ Exact("FNMSUB") = -p + q
  BY <1>1, <1>3, ExactIs
<1>5. o \in {"FADD", "FSUB", "FMUL", "FMADD", "FMSUB", "FNMADD", "FNMSUB"}
  BY DEF Fused, Sums
<1> QED
  BY <1>4, <1>5

-------------------------------------------------------------------------------
(* The invariant.                                                          *)

\* The micro-program of operation o from its i-th micro-instruction on.
From(o, i) == SubSeq(Program(o), i, Len(Program(o)))

\* What holds after micro-instruction micro of operation o.
After(micro, g, o) ==
    CASE micro = "MUL"                   -> g \in Units /\ g.adds /\ g.A = Product(Expand(x), Expand(y))
      [] micro \in {"LOAD_B", "LOAD_AB"} -> Loaded(g, o, Exact(o))
      [] micro = "ADD_SWP_EXP"           -> Ordered(g, o, Exact(o))
      [] micro = "ADD_SHIFT"             -> Aligned(g, Exact(o)) /\ (o \in Sums => Subtractable(g))
      [] micro = "ADD_SWP_FRAC"          -> Aligned(g, Exact(o)) /\ Subtractable(g)
      [] micro = "ADD_FRAC"              -> Summed(g, Exact(o))
      [] micro = "NORM"                  -> Faithful(Returned(g), Exact(o), 1)

\* What holds before micro-instruction i of operation o.
Before(i, g, o) == IF i = 1 THEN g = ZeroRegisters ELSE After(Program(o)[i - 1], g, o)

Operands == Operand(x) /\ Operand(y) /\ Operand(z)

Stage == \E i \in 1 .. Len(Program(op)) + 1 : program = From(op, i) /\ Before(i, f, op)

Outcome ==
    IF Program(op) = <<>> THEN result = Pending \/ \E r \in Returns : result = [done |-> TRUE, value |-> r]
    ELSE result = IF program = <<>> THEN [done |-> TRUE, value |-> Returned(f)] ELSE Pending

FpuInv == Operands /\ Stage /\ Outcome

\* What is left of a sequence from its i-th element on.
LEMMA Remainder ==
  ASSUME NEW S, NEW s \in Seq(S), NEW i \in 1 .. Len(s)
  PROVE  /\ SubSeq(s, i, Len(s)) # <<>>
         /\ Head(SubSeq(s, i, Len(s))) = s[i]
         /\ Tail(SubSeq(s, i, Len(s))) = SubSeq(s, i + 1, Len(s))
         /\ Len(SubSeq(s, i, Len(s))) = Len(s) + 1 - i
         /\ SubSeq(s, Len(s) + 1, Len(s)) = <<>>
         /\ SubSeq(s, 1, Len(s)) = s
<1>0. Len(s) \in Nat /\ \A k \in 1 .. Len(s) : s[k] \in S
  BY LenProperties
<1> DEFINE t == SubSeq(s, i, Len(s))
           u == SubSeq(s, i + 1, Len(s))
<1>1. /\ t \in Seq(S) /\ Len(t) = Len(s) + 1 - i
      /\ \A k \in 1 .. Len(s) + 1 - i : t[k] = s[i + k - 1]
  <2>1. /\ t \in Seq(S) /\ Len(t) = IF i <= Len(s) THEN Len(s) - i + 1 ELSE 0
        /\ \A k \in 1 .. Len(s) - i + 1 : t[k] = s[i + k - 1]
    BY <1>0, SubSeqProperties
  <2> QED
    BY <1>0, <2>1
<1>2. /\ u \in Seq(S) /\ Len(u) = Len(s) - i
      /\ \A k \in 1 .. Len(s) - i : u[k] = s[i + k]
  <2>1. /\ u \in Seq(S) /\ Len(u) = IF i + 1 <= Len(s) THEN Len(s) - (i + 1) + 1 ELSE 0
        /\ \A k \in 1 .. Len(s) - (i + 1) + 1 : u[k] = s[(i + 1) + k - 1]
    BY <1>0, SubSeqProperties
  <2> QED
    BY <1>0, <2>1
<1> HIDE DEF t, u
<1>3. t # <<>> /\ Head(t) = s[i] /\ Tail(t) = u
  <2>1. t # <<>> /\ Head(t) = t[1]
    BY <1>0, <1>1
  <2>2. /\ Tail(t) \in Seq(S) /\ Len(Tail(t)) = Len(t) - 1
        /\ \A k \in 1 .. Len(Tail(t)) : Tail(t)[k] = t[k + 1]
    BY <1>1, <2>1, HeadTailProperties
  <2>3. Len(Tail(t)) = Len(u) /\ \A k \in 1 .. Len(Tail(t)) : Tail(t)[k] = u[k]
    <3>1. Len(Tail(t)) = Len(s) - i /\ Len(u) = Len(s) - i
      BY <1>0, <1>1, <1>2, <2>2
    <3>2. ASSUME NEW k \in 1 .. Len(s) - i PROVE Tail(t)[k] = u[k]
      <4>1. Tail(t)[k] = t[k + 1] /\ u[k] = s[i + k]
        BY <3>1, <2>2, <1>2
      <4>2. k + 1 \in 1 .. Len(s) + 1 - i /\ i + (k + 1) - 1 = i + k
        BY <1>0
      <4>3. t[k + 1] = s[i + (k + 1) - 1]
        BY <4>2, <1>1
      <4> QED
        BY <4>1, <4>2, <4>3
    <3> QED
      BY <3>1, <3>2
  <2>4. Tail(t) = u
    BY <1>2, <2>2, <2>3, SeqEqual
  <2> QED
    BY <1>0, <1>1, <2>1, <2>4
<1>4. SubSeq(s, Len(s) + 1, Len(s)) = <<>>
  OBVIOUS
<1>5. SubSeq(s, 1, Len(s)) = s
  OBVIOUS
<1> QED
  BY <1>1, <1>3, <1>4, <1>5 DEF t, u

Micros == {"MUL", "LOAD_B", "LOAD_AB", "ADD_SWP_EXP", "ADD_SHIFT", "ADD_SWP_FRAC", "ADD_FRAC", "NORM"}

\* The micro-programs.
LEMMA Programs ==
  ASSUME NEW o
  PROVE  /\ Program(o) \in Seq(Micros)
         /\ o \in Fused => /\ Len(Program(o)) = 7
                           /\ Program(o)[1] = "MUL" /\ Program(o)[2] = "LOAD_B"
                           /\ Program(o)[3] = "ADD_SWP_EXP" /\ Program(o)[4] = "ADD_SHIFT"
                           /\ Program(o)[5] = "ADD_SWP_FRAC" /\ Program(o)[6] = "ADD_FRAC"
                           /\ Program(o)[7] = "NORM"
         /\ o \in Sums  => /\ Len(Program(o)) = 5
                           /\ Program(o)[1] = "LOAD_AB"
                           /\ Program(o)[2] = "ADD_SWP_EXP" /\ Program(o)[3] = "ADD_SHIFT"
                           /\ Program(o)[4] = "ADD_FRAC" /\ Program(o)[5] = "NORM"
         /\ o = "FMUL"  => Len(Program(o)) = 2 /\ Program(o)[1] = "MUL" /\ Program(o)[2] = "NORM"
         /\ o \notin Fused \cup Sums \cup {"FMUL"} <=> Program(o) = <<>>
<1>1. o \in Fused => o \notin Sums /\ o # "FMUL"
  BY DEF Fused, Sums
<1>2. o \in Sums => o # "FMUL"
  BY DEF Sums
<1>3. CASE o \in Fused
  <2>1. Program(o) = <<"MUL", "LOAD_B", "ADD_SWP_EXP", "ADD_SHIFT", "ADD_SWP_FRAC", "ADD_FRAC", "NORM">>
    BY <1>3 DEF Program
  <2> QED
    BY <2>1, <1>1, <1>3 DEF Micros
<1>4. CASE o \in Sums
  <2>1. Program(o) = <<"LOAD_AB", "ADD_SWP_EXP", "ADD_SHIFT", "ADD_FRAC", "NORM">>
    BY <1>1, <1>4 DEF Program
  <2> QED
    BY <2>1, <1>1, <1>2, <1>4 DEF Micros
<1>5. CASE o = "FMUL"
  <2>1. Program(o) = <<"MUL", "NORM">>
    BY <1>1, <1>2, <1>5 DEF Program
  <2> QED
    BY <2>1, <1>1, <1>2, <1>5 DEF Micros
<1>6. CASE o \notin Fused \cup Sums \cup {"FMUL"}
  <2>1. Program(o) = <<>>
    BY <1>6 DEF Program
  <2> QED
    BY <2>1, <1>6
<1> QED
  BY <1>3, <1>4, <1>5, <1>6

\* The micro-instructions of an addition, from one stage to the next.
LEMMA Stages ==
  ASSUME NEW o, NEW e \in Int, NEW g
  PROVE  /\ Loaded(g, o, e) => Ordered(Step(g, "ADD_SWP_EXP", o, x, y, z), o, e)
         /\ Ordered(g, o, e) =>
               /\ Aligned(Step(g, "ADD_SHIFT", o, x, y, z), e)
               /\ o \in Sums => Subtractable(Step(g, "ADD_SHIFT", o, x, y, z))
         /\ Aligned(g, e) =>
               /\ Aligned(Step(g, "ADD_SWP_FRAC", o, x, y, z), e)
               /\ Subtractable(Step(g, "ADD_SWP_FRAC", o, x, y, z))
         /\ Aligned(g, e) /\ Subtractable(g) => Summed(Step(g, "ADD_FRAC", o, x, y, z), e)
         /\ Summed(g, e) => Faithful(Returned(Step(g, "NORM", o, x, y, z)), e, 1)
<1>1. ASSUME Loaded(g, o, e) PROVE Ordered(Step(g, "ADD_SWP_EXP", o, x, y, z), o, e)
  <2>1. g.adds
    BY <1>1 DEF Loaded
  <2>2. Step(g, "ADD_SWP_EXP", o, x, y, z) = AddSwpExp(g)
    BY <2>1, StepIs
  <2> QED
    BY <1>1, <2>2, SwapsExp
<1>2. ASSUME Ordered(g, o, e)
      PROVE  /\ Aligned(Step(g, "ADD_SHIFT", o, x, y, z), e)
             /\ o \in Sums => Subtractable(Step(g, "ADD_SHIFT", o, x, y, z))
  <2>1. CASE g.adds
    <3>1. Step(g, "ADD_SHIFT", o, x, y, z) = AddShift(g)
      BY <2>1, StepIs
    <3> QED
      BY <1>2, <2>1, <3>1, Aligns
  <2>2. CASE ~g.adds
    <3>1. Step(g, "ADD_SHIFT", o, x, y, z) = g
      BY <2>2, StepIs
    <3>2. Aligned(g, e) /\ Subtractable(g)
      BY <1>2, <2>2 DEF Ordered, Aligned, Subtractable
    <3> QED
      BY <3>1, <3>2
  <2> QED
    BY <2>1, <2>2
<1>3. ASSUME Aligned(g, e)
      PROVE  /\ Aligned(Step(g, "ADD_SWP_FRAC", o, x, y, z), e)
             /\ Subtractable(Step(g, "ADD_SWP_FRAC", o, x, y, z))
  <2>1. CASE g.adds
    <3>1. Step(g, "ADD_SWP_FRAC", o, x, y, z) = AddSwpFrac(g)
      BY <2>1, StepIs
    <3> QED
      BY <1>3, <2>1, <3>1, SwapsFrac
  <2>2. CASE ~g.adds
    <3>1. Step(g, "ADD_SWP_FRAC", o, x, y, z) = g
      BY <2>2, StepIs
    <3> QED
      BY <1>3, <2>2, <3>1 DEF Subtractable
  <2> QED
    BY <2>1, <2>2
<1>4. ASSUME Aligned(g, e), Subtractable(g) PROVE Summed(Step(g, "ADD_FRAC", o, x, y, z), e)
  <2>1. CASE g.adds
    <3>1. Step(g, "ADD_FRAC", o, x, y, z) = AddFrac(g)
      BY <2>1, StepIs
    <3> QED
      BY <1>4, <2>1, <3>1, AddsFrac
  <2>2. CASE ~g.adds
    <3>1. Step(g, "ADD_FRAC", o, x, y, z) = g
      BY <2>2, StepIs
    <3> QED
      BY <1>4, <2>2, <3>1 DEF Aligned
  <2> QED
    BY <2>1, <2>2
<1>5. ASSUME Summed(g, e) PROVE Faithful(Returned(Step(g, "NORM", o, x, y, z)), e, 1)
  <2>1. Step(g, "NORM", o, x, y, z) = Norm(g)
    BY StepIs
  <2> QED
    BY <1>5, <2>1, Norms
<1> QED
  BY <1>1, <1>2, <1>3, <1>4, <1>5

\* The registers at the start.
LEMMA BlankUnit == ZeroRegisters \in Units
<1>1. [mant |-> 0, exp |-> 0, sign |-> 0] \in Registers
  BY DEF Registers
<1> QED
  BY <1>1 DEF ZeroRegisters, Units

\* Micro-instruction i of operation o and the one before it.
Follows(o, i) ==
    \/ /\ o \in Fused /\ Program(o)[i - 1] = "MUL" /\ Program(o)[i] = "LOAD_B"
    \/ /\ o = "FMUL" /\ Program(o)[i - 1] = "MUL" /\ Program(o)[i] = "NORM"
    \/ /\ Program(o)[i - 1] \in {"LOAD_B", "LOAD_AB"} /\ Program(o)[i] = "ADD_SWP_EXP"
    \/ /\ Program(o)[i - 1] = "ADD_SWP_EXP" /\ Program(o)[i] = "ADD_SHIFT"
    \/ /\ Program(o)[i - 1] = "ADD_SHIFT" /\ Program(o)[i] = "ADD_SWP_FRAC"
    \/ /\ o \in Sums /\ Program(o)[i - 1] = "ADD_SHIFT" /\ Program(o)[i] = "ADD_FRAC"
    \/ /\ Program(o)[i - 1] = "ADD_SWP_FRAC" /\ Program(o)[i] = "ADD_FRAC"
    \/ /\ Program(o)[i - 1] = "ADD_FRAC" /\ Program(o)[i] = "NORM"

\* Each micro-instruction follows one that leaves what it needs.
LEMMA Followed ==
  ASSUME NEW o \in Fused \cup Sums \cup {"FMUL"}, NEW i \in 1 .. Len(Program(o)), i # 1
  PROVE  Follows(o, i)
<1>1. CASE o \in Fused
  <2>1. Len(Program(o)) = 7
    BY <1>1, Programs
  <2>2. /\ Program(o)[1] = "MUL" /\ Program(o)[2] = "LOAD_B"
        /\ Program(o)[3] = "ADD_SWP_EXP" /\ Program(o)[4] = "ADD_SHIFT"
        /\ Program(o)[5] = "ADD_SWP_FRAC" /\ Program(o)[6] = "ADD_FRAC"
        /\ Program(o)[7] = "NORM"
    BY <1>1, Programs
  <2>3. i = 2 \/ i = 3 \/ i = 4 \/ i = 5 \/ i = 6 \/ i = 7
    BY <2>1
  <2>4. CASE i = 2
    <3>1. i - 1 = 1
      BY <2>4
    <3> QED
      BY <1>1, <2>2, <2>4, <3>1 DEF Follows
  <2>5. CASE i = 3
    <3>1. i - 1 = 2
      BY <2>5
    <3> QED
      BY <1>1, <2>2, <2>5, <3>1 DEF Follows
  <2>6. CASE i = 4
    <3>1. i - 1 = 3
      BY <2>6
    <3> QED
      BY <1>1, <2>2, <2>6, <3>1 DEF Follows
  <2>7. CASE i = 5
    <3>1. i - 1 = 4
      BY <2>7
    <3> QED
      BY <1>1, <2>2, <2>7, <3>1 DEF Follows
  <2>8. CASE i = 6
    <3>1. i - 1 = 5
      BY <2>8
    <3> QED
      BY <1>1, <2>2, <2>8, <3>1 DEF Follows
  <2>9. CASE i = 7
    <3>1. i - 1 = 6
      BY <2>9
    <3> QED
      BY <1>1, <2>2, <2>9, <3>1 DEF Follows
  <2> QED
    BY <2>3, <2>4, <2>5, <2>6, <2>7, <2>8, <2>9
<1>2. CASE o \in Sums
  <2>1. Len(Program(o)) = 5
    BY <1>2, Programs
  <2>2. /\ Program(o)[1] = "LOAD_AB" /\ Program(o)[2] = "ADD_SWP_EXP"
        /\ Program(o)[3] = "ADD_SHIFT" /\ Program(o)[4] = "ADD_FRAC" /\ Program(o)[5] = "NORM"
    BY <1>2, Programs
  <2>3. i = 2 \/ i = 3 \/ i = 4 \/ i = 5
    BY <2>1
  <2>4. CASE i = 2
    <3>1. i - 1 = 1
      BY <2>4
    <3> QED
      BY <1>2, <2>2, <2>4, <3>1 DEF Follows
  <2>5. CASE i = 3
    <3>1. i - 1 = 2
      BY <2>5
    <3> QED
      BY <1>2, <2>2, <2>5, <3>1 DEF Follows
  <2>6. CASE i = 4
    <3>1. i - 1 = 3
      BY <2>6
    <3> QED
      BY <1>2, <2>2, <2>6, <3>1 DEF Follows
  <2>7. CASE i = 5
    <3>1. i - 1 = 4
      BY <2>7
    <3> QED
      BY <1>2, <2>2, <2>7, <3>1 DEF Follows
  <2> QED
    BY <2>3, <2>4, <2>5, <2>6, <2>7
<1>3. CASE o = "FMUL"
  <2>1. Len(Program(o)) = 2 /\ Program(o)[1] = "MUL" /\ Program(o)[2] = "NORM"
    BY <1>3, Programs
  <2>2. i = 2 /\ i - 1 = 1
    BY <2>1
  <2> QED
    BY <1>3, <2>1, <2>2 DEF Follows
<1> QED
  BY <1>1, <1>2, <1>3

\* What a micro-instruction of operation o leaves is what the next one needs.
LEMMA Advances ==
  ASSUME Operand(x), Operand(y), Operand(z), NEW o \in Fused \cup Sums \cup {"FMUL"},
         NEW i \in 1 .. Len(Program(o)), NEW g, Before(i, g, o)
  PROVE  Before(i + 1, Step(g, Program(o)[i], o, x, y, z), o)
<1> DEFINE h == Step(g, Program(o)[i], o, x, y, z)
<1>1. PICK e \in Int : e = Exact(o)
  BY ExactInt
<1>2. Before(i + 1, h, o) <=> After(Program(o)[i], h, o)
  <2>1. i + 1 # 1 /\ (i + 1) - 1 = i
    BY Programs, LenProperties
  <2> QED
    BY <2>1 DEF Before
<1>3. CASE i = 1
  <2>1. g = ZeroRegisters /\ g \in Units
    BY <1>3, BlankUnit DEF Before
  <2>2. CASE o \in Fused \cup {"FMUL"}
    <3>1. Program(o)[i] = "MUL"
      BY <1>3, <2>2, Programs
    <3>2. h \in Units /\ h.adds /\ h.A = Product(Expand(x), Expand(y))
      BY <2>1, <3>1, Multiplies
    <3>3. After("MUL", h, o)
      BY <3>2 DEF After
    <3> QED
      BY <1>2, <3>1, <3>3
  <2>3. CASE o \in Sums
    <3>1. Program(o)[i] = "LOAD_AB"
      BY <1>3, <2>3, Programs
    <3>2. Loaded(h, o, Exact(o))
      BY <2>1, <2>3, <3>1, LoadsAB
    <3>3. After("LOAD_AB", h, o)
      BY <3>2 DEF After
    <3> QED
      BY <1>2, <3>1, <3>3
  <2> QED
    BY <2>2, <2>3
<1>4. CASE i # 1
  <2>1. After(Program(o)[i - 1], g, o)
    BY <1>4 DEF Before
  <2>2. Follows(o, i)
    BY <1>4, Followed
  <2>3. CASE o \in Fused /\ Program(o)[i - 1] = "MUL" /\ Program(o)[i] = "LOAD_B"
    <3>1. g \in Units /\ g.adds /\ g.A = Product(Expand(x), Expand(y))
      BY <2>1, <2>3 DEF After
    <3>2. Loaded(h, o, Exact(o))
      BY <2>3, <3>1, LoadsB
    <3>3. After("LOAD_B", h, o)
      BY <3>2 DEF After
    <3> QED
      BY <1>2, <2>3, <3>3
  <2>4. CASE o = "FMUL" /\ Program(o)[i - 1] = "MUL" /\ Program(o)[i] = "NORM"
    <3>1. g \in Units /\ g.adds /\ g.A = Product(Expand(x), Expand(y))
      BY <2>1, <2>4 DEF After
    <3>2. Summed(g, e)
      BY <1>1, <2>4, <3>1, ProductSummed
    <3>3. Faithful(Returned(h), e, 1)
      BY <2>4, <3>2, Stages
    <3>4. After("NORM", h, o)
      BY <1>1, <3>3 DEF After
    <3> QED
      BY <1>2, <2>4, <3>4
  <2>5. CASE Program(o)[i - 1] \in {"LOAD_B", "LOAD_AB"} /\ Program(o)[i] = "ADD_SWP_EXP"
    <3>1. Loaded(g, o, e)
      BY <1>1, <2>1, <2>5 DEF After
    <3>2. Ordered(h, o, e)
      BY <2>5, <3>1, Stages
    <3>3. After("ADD_SWP_EXP", h, o)
      BY <1>1, <3>2 DEF After
    <3> QED
      BY <1>2, <2>5, <3>3
  <2>6. CASE Program(o)[i - 1] = "ADD_SWP_EXP" /\ Program(o)[i] = "ADD_SHIFT"
    <3>1. Ordered(g, o, e)
      BY <1>1, <2>1, <2>6 DEF After
    <3>2. Aligned(h, e) /\ (o \in Sums => Subtractable(h))
      BY <2>6, <3>1, Stages
    <3>3. After("ADD_SHIFT", h, o)
      BY <1>1, <3>2 DEF After
    <3> QED
      BY <1>2, <2>6, <3>3
  <2>7. CASE Program(o)[i - 1] = "ADD_SHIFT" /\ Program(o)[i] = "ADD_SWP_FRAC"
    <3>1. Aligned(g, e)
      BY <1>1, <2>1, <2>7 DEF After
    <3>2. Aligned(h, e) /\ Subtractable(h)
      BY <2>7, <3>1, Stages
    <3>3. After("ADD_SWP_FRAC", h, o)
      BY <1>1, <3>2 DEF After
    <3> QED
      BY <1>2, <2>7, <3>3
  <2>8. CASE \/ o \in Sums /\ Program(o)[i - 1] = "ADD_SHIFT" /\ Program(o)[i] = "ADD_FRAC"
             \/ Program(o)[i - 1] = "ADD_SWP_FRAC" /\ Program(o)[i] = "ADD_FRAC"
    <3>1. Aligned(g, e) /\ Subtractable(g)
      BY <1>1, <2>1, <2>8 DEF After
    <3>2. Summed(h, e)
      BY <2>8, <3>1, Stages
    <3>3. After("ADD_FRAC", h, o)
      BY <1>1, <3>2 DEF After
    <3> QED
      BY <1>2, <2>8, <3>3
  <2>9. CASE Program(o)[i - 1] = "ADD_FRAC" /\ Program(o)[i] = "NORM"
    <3>1. Summed(g, e)
      BY <1>1, <2>1, <2>9 DEF After
    <3>2. Faithful(Returned(h), e, 1)
      BY <2>9, <3>1, Stages
    <3>3. After("NORM", h, o)
      BY <1>1, <3>2 DEF After
    <3> QED
      BY <1>2, <2>9, <3>3
  <2> QED
    BY <2>2, <2>3, <2>4, <2>5, <2>6, <2>7, <2>8, <2>9 DEF Follows
<1> QED
  BY <1>3, <1>4 DEF h

\* The invariant holds at the start.
LEMMA FpuStarts == FpuInit => FpuInv
<1> SUFFICES ASSUME FpuInit PROVE FpuInv
  OBVIOUS
<1>1. Operand(x) /\ Operand(y) /\ Operand(z)
  BY DEF FpuInit, Given, Operand
<1>2. Len(Program(op)) \in Nat
  BY Programs, LenProperties
<1>3. From(op, 1) = Program(op)
  <2>1. CASE Program(op) = <<>>
    BY <2>1 DEF From
  <2>2. CASE Program(op) # <<>>
    <3>1. 1 \in 1 .. Len(Program(op))
      BY <1>2, <2>2, Programs, EmptySeq
    <3> QED
      BY <3>1, Programs, Remainder DEF From
  <2> QED
    BY <2>1, <2>2
<1>4. 1 \in 1 .. Len(Program(op)) + 1 /\ program = From(op, 1) /\ Before(1, f, op)
  BY <1>2, <1>3 DEF FpuInit, Before
<1>5. result = Pending /\ program = Program(op)
  BY DEF FpuInit
<1> QED
  BY <1>1, <1>4, <1>5 DEF FpuInv, Operands, Stage, Outcome

\* A micro-instruction keeps it.
LEMMA MicroKeeps == FpuInv /\ Micro => FpuInv'
<1> SUFFICES ASSUME FpuInv, Micro PROVE FpuInv'
  OBVIOUS
<1>1. PICK i \in 1 .. Len(Program(op)) + 1 : program = From(op, i) /\ Before(i, f, op)
  BY DEF FpuInv, Operands, Stage
<1>2. op' = op /\ x' = x /\ y' = y /\ z' = z
  BY DEF Micro
<1>3. Operand(x) /\ Operand(y) /\ Operand(z)
  BY DEF FpuInv, Operands, Stage
<1>4. Len(Program(op)) \in Nat /\ Program(op) \in Seq(Micros)
  BY Programs, LenProperties
<1>5. i \in 1 .. Len(Program(op))
  <2>1. program # <<>>
    BY DEF Micro
  <2>2. From(op, Len(Program(op)) + 1) = <<>>
    BY <1>4, SubSeqEmpty DEF From
  <2> QED
    BY <1>1, <1>4, <2>1, <2>2
<1>6. op \in Fused \cup Sums \cup {"FMUL"}
  <2>1. Program(op) # <<>>
    BY <1>5, EmptySeq
  <2> QED
    BY <2>1, Programs
<1>7. Head(program) = Program(op)[i] /\ Tail(program) = From(op, i + 1)
  BY <1>1, <1>4, <1>5, Remainder DEF From
<1>8. f' = Step(f, Program(op)[i], op, x, y, z) /\ program' = From(op, i + 1)
  BY <1>7 DEF Micro
<1>9. Before(i + 1, f', op)
  BY <1>1, <1>3, <1>5, <1>6, <1>8, Advances
<1>10. Program(op) # <<>> /\ Len(program) = Len(Program(op)) + 1 - i
  BY <1>1, <1>4, <1>5, <1>6, Programs, Remainder DEF From
<1>11. program' = <<>> <=> Len(program) = 1
  <2>1. CASE i = Len(Program(op))
    <3>1. From(op, i + 1) = <<>>
      BY <1>4, <2>1, SubSeqEmpty DEF From
    <3> QED
      BY <1>4, <1>8, <1>10, <2>1, <3>1
  <2>2. CASE i # Len(Program(op))
    <3>1. i + 1 \in 1 .. Len(Program(op))
      BY <1>4, <1>5, <2>2
    <3>2. From(op, i + 1) # <<>>
      BY <1>4, <3>1, Remainder DEF From
    <3> QED
      BY <1>4, <1>5, <1>8, <1>10, <2>2, <3>2
  <2> QED
    BY <2>1, <2>2
<1>12. result' = IF program' = <<>> THEN [done |-> TRUE, value |-> Returned(f')] ELSE Pending
  BY <1>11 DEF Micro
<1>13. Before(i + 1, f, op)'
  <2>1. Exact(op)' = Exact(op)
    BY <1>2 DEF Exact
  <2>2. Program(op)' = Program(op)
    BY <1>2
  <2>3. i + 1 # 1 /\ (i + 1) - 1 = i
    BY <1>4, <1>5
  <2>4. After(Program(op)[i], f', op)
    BY <1>9, <2>3 DEF Before
  <2>5. After(Program(op)[i], f, op)' <=> After(Program(op)[i], f', op)
    BY <1>2, <2>1 DEF After
  <2> QED
    BY <2>3, <2>4, <2>5 DEF Before
<1>14. /\ (Operand(x) /\ Operand(y) /\ Operand(z))'
       /\ i + 1 \in 1 .. Len(Program(op')) + 1
       /\ program' = From(op', i + 1)
       /\ Program(op') # <<>>
  BY <1>2, <1>3, <1>4, <1>5, <1>8, <1>10
<1> QED
  BY <1>12, <1>13, <1>14 DEF FpuInv, Operands, Stage, Outcome

\* A step that leaves the instruction and the registers alone keeps the first two parts.
LEMMA OthersKeep ==
  FpuInv /\ UNCHANGED <<op, x, y, z, f, program>> => Operands' /\ Stage' /\ Returns' = Returns
<1> SUFFICES ASSUME FpuInv, UNCHANGED <<op, x, y, z, f, program>>
             PROVE  Operands' /\ Stage' /\ Returns' = Returns
  OBVIOUS
<1>1. op' = op /\ x' = x /\ y' = y /\ z' = z /\ f' = f /\ program' = program
  OBVIOUS
<1>2. Operands'
  BY <1>1 DEF FpuInv, Operands
<1>3. Returns' = Returns
  BY <1>1 DEF Returns
<1>4. Stage'
  <2>1. PICK i \in 1 .. Len(Program(op)) + 1 : program = From(op, i) /\ Before(i, f, op)
    BY DEF FpuInv, Stage
  <2>2. Exact(op)' = Exact(op)
    BY <1>1 DEF Exact
  <2>3. After(Program(op)[i - 1], f, op)' <=> After(Program(op)[i - 1], f, op)
    BY <1>1, <2>2 DEF After
  <2>4. Before(i, f, op)'
    BY <1>1, <2>1, <2>3 DEF Before
  <2>5. i \in 1 .. Len(Program(op')) + 1 /\ program' = From(op', i)
    BY <1>1, <2>1
  <2> QED
    BY <2>4, <2>5 DEF Stage
<1> QED
  BY <1>2, <1>3, <1>4

\* An operation of one step keeps it.
LEMMA SingleKeeps == FpuInv /\ Single => FpuInv'
<1> SUFFICES ASSUME FpuInv, Single PROVE FpuInv'
  OBVIOUS
<1>1. Operands' /\ Stage' /\ Returns' = Returns
  BY OthersKeep DEF Single
<1>2. Outcome'
  BY <1>1 DEF Single, Outcome
<1> QED
  BY <1>1, <1>2 DEF FpuInv

\* The operands are numbers, the registers are what the micro-instructions so far leave of
\* the exact result, and the function returns nothing else.
THEOREM FpuInvariant == FpuSpec => []FpuInv
<1>1. FpuInv /\ UNCHANGED fpuVars => FpuInv'
  <2> SUFFICES ASSUME FpuInv, UNCHANGED fpuVars PROVE FpuInv'
    OBVIOUS
  <2>1. Operands' /\ Stage' /\ Returns' = Returns
    BY OthersKeep DEF fpuVars
  <2>2. Outcome'
    BY <2>1 DEF FpuInv, Outcome, fpuVars
  <2> QED
    BY <2>1, <2>2 DEF FpuInv
<1>2. FpuInv /\ [FpuNext]_fpuVars => FpuInv'
  BY <1>1, MicroKeeps, SingleKeeps DEF FpuNext
<1> QED
  BY <1>2, FpuStarts, PTL DEF FpuSpec

\* No subtraction wraps on the way.
LEMMA NoWrap == FpuInv => SubtractsTheSmaller
<1> SUFFICES ASSUME FpuInv, program # <<>>, Head(program) = "ADD_FRAC", f.adds
             PROVE  f.A.mant <= f.B.mant
  BY DEF SubtractsTheSmaller
<1>1. PICK i \in 1 .. Len(Program(op)) + 1 : program = From(op, i) /\ Before(i, f, op)
  BY DEF FpuInv, Stage
<1>2. Len(Program(op)) \in Nat /\ Program(op) \in Seq(Micros)
  BY Programs, LenProperties
<1>3. i \in 1 .. Len(Program(op))
  <2>1. From(op, Len(Program(op)) + 1) = <<>>
    BY <1>2, SubSeqEmpty DEF From
  <2> QED
    BY <1>1, <1>2, <2>1
<1>4. op \in Fused \cup Sums \cup {"FMUL"}
  <2>1. Program(op) # <<>>
    BY <1>3, EmptySeq
  <2> QED
    BY <2>1, Programs
<1>5. Program(op)[i] = "ADD_FRAC"
  BY <1>1, <1>2, <1>3, Remainder DEF From
<1>6. i # 1
  <2>1. Program(op)[1] \in {"MUL", "LOAD_AB"}
    BY <1>4, Programs
  <2> QED
    BY <1>5, <2>1
<1>7. Follows(op, i)
  BY <1>3, <1>4, <1>6, Followed
<1>8. Program(op)[i - 1] = "ADD_SWP_FRAC" \/ (op \in Sums /\ Program(op)[i - 1] = "ADD_SHIFT")
  BY <1>5, <1>7 DEF Follows
<1>9. After(Program(op)[i - 1], f, op)
  BY <1>1, <1>6 DEF Before
<1>10. Subtractable(f)
  <2>1. CASE Program(op)[i - 1] = "ADD_SWP_FRAC"
    BY <1>9, <2>1 DEF After
  <2>2. CASE op \in Sums /\ Program(op)[i - 1] = "ADD_SHIFT"
    BY <1>9, <2>2 DEF After
  <2> QED
    BY <1>8, <2>1, <2>2
<1> QED
  BY <1>10 DEF Subtractable

\* What a micro-program returns is within one unit in the last place.
LEMMA ProgramsFaithful ==
  ASSUME FpuInv, result.done, op \in Fused \cup Sums \cup {"FMUL"}
  PROVE  Faithful(result.value, Exact(op), 1)
<1>1. PICK i \in 1 .. Len(Program(op)) + 1 : program = From(op, i) /\ Before(i, f, op)
  BY DEF FpuInv, Stage
<1>2. Len(Program(op)) \in Nat /\ Program(op) \in Seq(Micros) /\ Program(op) # <<>>
  BY Programs, LenProperties
<1>3. program = <<>> /\ result.value = Returned(f)
  <2>1. result = IF program = <<>> THEN [done |-> TRUE, value |-> Returned(f)] ELSE Pending
    BY <1>2 DEF FpuInv, Outcome
  <2>2. result # Pending
    BY DEF Pending
  <2> QED
    BY <2>1, <2>2
<1>4. i = Len(Program(op)) + 1
  <2>1. i \in 1 .. Len(Program(op)) => From(op, i) # <<>>
    BY <1>2, Remainder DEF From
  <2> QED
    BY <1>1, <1>2, <1>3, <2>1
<1>5. i # 1 /\ Program(op)[i - 1] = "NORM"
  <2>1. CASE op \in Fused
    <3>1. Len(Program(op)) = 7 /\ Program(op)[7] = "NORM"
      BY <2>1, Programs
    <3> QED
      BY <1>4, <3>1
  <2>2. CASE op \in Sums
    <3>1. Len(Program(op)) = 5 /\ Program(op)[5] = "NORM"
      BY <2>2, Programs
    <3> QED
      BY <1>4, <3>1
  <2>3. CASE op = "FMUL"
    <3>1. Len(Program(op)) = 2 /\ Program(op)[2] = "NORM"
      BY <2>3, Programs
    <3> QED
      BY <1>4, <3>1
  <2> QED
    BY <2>1, <2>2, <2>3
<1>6. After("NORM", f, op)
  BY <1>1, <1>5 DEF Before
<1> QED
  BY <1>3, <1>6 DEF After

\* What an operation of one step returns.
LEMMA SinglesReturn ==
  ASSUME FpuInv, result.done, op \notin Fused \cup Sums \cup {"FMUL"}
  PROVE  result.value \in Returns
<1>1. Program(op) = <<>>
  BY Programs
<1>2. result = Pending \/ \E r \in Returns : result = [done |-> TRUE, value |-> r]
  BY <1>1 DEF FpuInv, Outcome
<1>3. result # Pending
  BY DEF Pending
<1> QED
  BY <1>2, <1>3

-------------------------------------------------------------------------------
(* Comparisons and conversions.                                            *)

\* A number without its sign, as an integer.
Size(n) == Expand(n).mant * Pow2[n.exp]

\* A number is its size with its sign.
LEMMA Sizes ==
  ASSUME NEW n, Operand(n)
  PROVE  /\ Size(n) \in Nat /\ Whole(n) = Signed(n.sign, Size(n)) /\ Magnitude(Whole(n)) = Size(n)
         /\ Size(n) = 0 <=> IsZero(n)
<1>1. /\ n.exp \in Nat /\ n.sign \in {0, 1} /\ Expand(n).mant \in Nat
      /\ n.exp = 0 <=> Expand(n).mant = 0
  BY Expanded, Widths DEF Mantissas
<1>2. PICK p \in Nat, m \in Nat : p = Pow2[n.exp] /\ p >= 1 /\ m = Expand(n).mant
  BY <1>1, Pow2Nat
<1>3. m * p \in Nat /\ (m * p = 0 <=> m = 0)
  <2>1. m >= 1 => 1 * p <= m * p
    BY <1>2, ProductMono
  <2>2. 1 * p = p /\ 0 * p = 0 /\ m * p \in Nat
    OBVIOUS
  <2> QED
    BY <1>2, <2>1, <2>2
<1>4. PICK s \in Nat, t \in {0, 1} : s = Size(n) /\ t = n.sign
  BY <1>1, <1>2, <1>3 DEF Size
<1>5. Whole(n) = Signed(t, s) /\ Magnitude(Signed(t, s)) = s
  BY <1>4, MagnitudeSigned DEF Whole, Size
<1>6. IsZero(n) <=> n.exp = 0
  BY DEF Operand, IsZero
<1> QED
  BY <1>1, <1>2, <1>3, <1>4, <1>5, <1>6 DEF Size

\* The fields of an operand.
LEMMA Fields ==
  ASSUME NEW n, Operand(n)
  PROVE  /\ n = [sign |-> n.sign, exp |-> n.exp, mant |-> n.mant]
         /\ n.sign \in {0, 1} /\ n.exp \in Nat /\ n.mant \in Nat /\ n.mant < Hidden
         /\ n.exp = 0 => n.mant = 0
         /\ Expand(n).mant = IF n.exp # 0 THEN n.mant + Hidden ELSE n.mant
<1>1. n \in [sign : {0, 1}, exp : 0 .. Pow2[EXP] - 1, mant : 0 .. Hidden - 1]
  BY DEF Operand, Numbers
<1>2. Hidden \in Nat /\ Pow2[EXP] \in Nat
  BY Widths
<1>3. n.exp = 0 => n.mant = 0
  BY DEF Operand
<1>4. n.mant \in Nat /\ n.mant < Hidden /\ n.exp \in Nat /\ n.sign \in {0, 1}
  BY <1>1, <1>2
<1>5. Expand(n).mant = n.mant + (IF n.exp # 0 THEN Hidden ELSE 0)
  BY DEF Expand
<1> QED
  BY <1>1, <1>2, <1>3, <1>4, <1>5

\* The larger of two numbers has the larger bits.
LEMMA BitsOrder ==
  ASSUME NEW a, NEW b, Operand(a), Operand(b), Bits(a) < Bits(b)
  PROVE  Size(a) < Size(b)
<1>1. PICK d \in Nat, e \in Nat, m \in Nat, n \in Nat, h \in Nat :
        /\ d = a.exp /\ e = b.exp /\ m = a.mant /\ n = b.mant /\ h = Hidden
        /\ h >= 2 /\ m < h /\ n < h /\ (d = 0 => m = 0) /\ (e = 0 => n = 0)
        /\ Expand(a).mant = (IF d # 0 THEN m + h ELSE m)
        /\ Expand(b).mant = (IF e # 0 THEN n + h ELSE n)
  BY Fields, Widths
<1>2. d * h + m < e * h + n
  BY <1>1 DEF Bits
<1>3. d <= e
  <2> SUFFICES ASSUME d > e PROVE FALSE
    BY <1>1
  <2>1. (e + 1) * h <= d * h
    BY <1>1, ProductMono
  <2>2. (e + 1) * h = e * h + h /\ d * h \in Nat /\ e * h \in Nat
    OBVIOUS
  <2> QED
    BY <1>1, <1>2, <2>1, <2>2
<1>4. PICK p \in Nat, q \in Nat : p = Pow2[d] /\ q = Pow2[e] /\ p >= 1 /\ q >= 1
  BY Pow2Nat
<1>5. CASE d = e
  <2>1. m < n
    <3>1. d * h \in Nat
      OBVIOUS
    <3> QED
      BY <1>2, <1>5, <3>1
  <2>2. d # 0
    BY <1>1, <1>5, <2>1
  <2>3. (m + h) * p < (n + h) * p
    BY <1>4, <2>1, ProductLess
  <2> QED
    BY <1>1, <1>4, <1>5, <2>2, <2>3 DEF Size
<1>6. CASE d < e
  <2>1. 2 * p <= q
    BY <1>4, <1>6, Pow2Less
  <2>2. PICK k \in Nat : k = Expand(a).mant /\ k <= 2 * h - 1
    BY <1>1
  <2>3. k * p < (2 * h) * p
    BY <1>4, <1>1, <2>2, ProductLess
  <2>4. (2 * h) * p = (2 * p) * h /\ (2 * p) * h <= q * h
    BY <2>1, ProductMono
  <2>5. q * h = h * q /\ h * q <= (n + h) * q
    BY ProductMono
  <2>6. k * p < (n + h) * q
    <3>1. k * p \in Nat /\ (2 * h) * p \in Nat /\ (2 * p) * h \in Nat /\ q * h \in Nat /\ h * q \in Nat /\ (n + h) * q \in Nat
      BY ProductNat
    <3> QED
      BY <2>3, <2>4, <2>5, <3>1
  <2> QED
    BY <1>1, <1>3, <1>4, <1>6, <2>2, <2>6 DEF Size
<1> QED
  BY <1>3, <1>5, <1>6

\* The bits are those of one number.
LEMMA BitsInjective ==
  ASSUME NEW a, NEW b, Operand(a), Operand(b), Bits(a) = Bits(b)
  PROVE  a.exp = b.exp /\ a.mant = b.mant
<1>1. PICK d \in Nat, e \in Nat, m \in Nat, n \in Nat, h \in Nat :
        /\ d = a.exp /\ e = b.exp /\ m = a.mant /\ n = b.mant /\ h = Hidden
        /\ m < h /\ n < h
  BY Fields, Widths
<1>2. d * h + m = e * h + n /\ d * h \in Nat /\ e * h \in Nat
  BY <1>1 DEF Bits
<1>3. ~(d < e)
  <2> SUFFICES ASSUME d < e PROVE FALSE
    OBVIOUS
  <2>1. (d + 1) * h <= e * h
    BY ProductMono
  <2>2. (d + 1) * h = d * h + h
    OBVIOUS
  <2> QED
    BY <1>1, <1>2, <2>1, <2>2
<1>4. ~(e < d)
  <2> SUFFICES ASSUME e < d PROVE FALSE
    OBVIOUS
  <2>1. (e + 1) * h <= d * h
    BY ProductMono
  <2>2. (e + 1) * h = e * h + h
    OBVIOUS
  <2> QED
    BY <1>1, <1>2, <2>1, <2>2
<1>5. d = e
  BY <1>3, <1>4
<1> QED
  BY <1>1, <1>2, <1>5

\* Bits order the sizes of the numbers, and tell them apart.
LEMMA Compared ==
  ASSUME NEW a, NEW b, Operand(a), Operand(b)
  PROVE  /\ Bits(a) < Bits(b) <=> Size(a) < Size(b)
         /\ Size(a) = Size(b) <=> a.exp = b.exp /\ a.mant = b.mant
         /\ a = b <=> a.sign = b.sign /\ a.exp = b.exp /\ a.mant = b.mant
<1>1. Bits(a) \in Nat /\ Bits(b) \in Nat /\ Size(a) \in Nat /\ Size(b) \in Nat
  <2>1. a.exp \in Nat /\ a.mant \in Nat /\ b.exp \in Nat /\ b.mant \in Nat /\ Hidden \in Nat
    BY Fields, Widths
  <2>2. a.exp * Hidden \in Nat /\ b.exp * Hidden \in Nat
    BY <2>1, ProductNat
  <2> QED
    BY <2>1, <2>2, Sizes DEF Bits
<1>2. Bits(a) < Bits(b) => Size(a) < Size(b)
  BY BitsOrder
<1>3. Bits(b) < Bits(a) => Size(b) < Size(a)
  BY BitsOrder
<1>4. Bits(a) = Bits(b) => a.exp = b.exp /\ a.mant = b.mant
  BY BitsInjective
<1>5. a.exp = b.exp /\ a.mant = b.mant => Bits(a) = Bits(b) /\ Size(a) = Size(b)
  <2>1. a.exp = b.exp /\ a.mant = b.mant => Expand(a).mant = Expand(b).mant
    BY DEF Expand
  <2> QED
    BY <2>1 DEF Bits, Size
<1>6. a = b <=> a.sign = b.sign /\ a.exp = b.exp /\ a.mant = b.mant
  BY Fields
<1> QED
  BY <1>1, <1>2, <1>3, <1>4, <1>5, <1>6

\* FEQ.
LEMMA EqualsRight ==
  ASSUME NEW a, NEW b, Operand(a), Operand(b)
  PROVE  ~(IsZero(a) /\ IsZero(b) /\ a.sign # b.sign) => (Feq(a, b) = 1 <=> Whole(a) = Whole(b))
<1>1. PICK p \in Nat, q \in Nat, s \in {0, 1}, t \in {0, 1} :
        /\ p = Size(a) /\ q = Size(b) /\ s = a.sign /\ t = b.sign
        /\ Whole(a) = Signed(s, p) /\ Whole(b) = Signed(t, q)
  BY Sizes, Fields
<1>2. (IsZero(a) <=> p = 0) /\ (IsZero(b) <=> q = 0)
  BY <1>1, Sizes
<1>3. a = b <=> s = t /\ p = q
  BY <1>1, Compared
<1>4. ~(p = 0 /\ q = 0 /\ s # t) => (Signed(s, p) = Signed(t, q) <=> s = t /\ p = q)
  BY DEF Signed
<1>5. Feq(a, b) = 1 <=> a = b
  BY DEF Feq, Flag
<1> QED
  BY <1>1, <1>2, <1>3, <1>4, <1>5

\* FLT.
LEMMA LessRight ==
  ASSUME NEW a, NEW b, Operand(a), Operand(b)
  PROVE  ~(IsZero(a) /\ IsZero(b) /\ a.sign # b.sign) /\ ~(a = b /\ a.sign = 1) =>
            (Flt(a, b) = 1 <=> Whole(a) < Whole(b))
<1>1. PICK p \in Nat, q \in Nat, s \in {0, 1}, t \in {0, 1} :
        /\ p = Size(a) /\ q = Size(b) /\ s = a.sign /\ t = b.sign
        /\ Whole(a) = Signed(s, p) /\ Whole(b) = Signed(t, q)
  BY Sizes, Fields
<1>2. (IsZero(a) <=> p = 0) /\ (IsZero(b) <=> q = 0)
  BY <1>1, Sizes
<1>3. (a = b <=> s = t /\ p = q) /\ (Bits(a) < Bits(b) <=> p < q)
  BY <1>1, Compared
<1>4. Flt(a, b) = 1 <=> IF s # t THEN s = 1 ELSE IF s = 1 THEN ~(p < q) ELSE p < q
  BY <1>1, <1>3 DEF Flt, Flag
<1>5. ~(p = 0 /\ q = 0 /\ s # t) /\ ~(s = t /\ p = q /\ s = 1) =>
         ((IF s # t THEN s = 1 ELSE IF s = 1 THEN ~(p < q) ELSE p < q)
            <=> Signed(s, p) < Signed(t, q))
  BY DEF Signed
<1> QED
  BY <1>1, <1>2, <1>3, <1>4, <1>5

\* A quotient, from its remainder.
LEMMA QuotientIs ==
  ASSUME NEW a \in Nat, NEW n \in Nat, n >= 1, NEW q \in Nat, NEW r \in Nat, a = q * n + r, r < n
  PROVE  a \div n = q
<1>1. PICK p \in Nat, t \in Nat : a \div n = p /\ a = p * n + t /\ t < n
  BY Divided
<1>2. PICK u \in Nat, v \in Nat : u = q * n /\ v = p * n
  BY ProductNat
<1>3. ~(p < q)
  <2> SUFFICES ASSUME p < q PROVE FALSE
    OBVIOUS
  <2>1. (p + 1) * n <= q * n /\ (p + 1) * n = p * n + n
    BY ProductMono
  <2> QED
    BY <1>1, <1>2, <2>1
<1>4. ~(q < p)
  <2> SUFFICES ASSUME q < p PROVE FALSE
    OBVIOUS
  <2>1. (q + 1) * n <= p * n /\ (q + 1) * n = q * n + n
    BY ProductMono
  <2> QED
    BY <1>1, <1>2, <2>1
<1> QED
  BY <1>1, <1>3, <1>4

\* A common factor drops out.
LEMMA CommonFactor ==
  ASSUME NEW a \in Nat, NEW d \in Nat, d >= 1, NEW c \in Nat, c >= 1
  PROVE  (a * c) \div (d * c) = a \div d
<1>1. PICK q \in Nat, r \in Nat : a \div d = q /\ a = q * d + r /\ r < d
  BY Divided
<1>2. r * c < d * c
  BY <1>1, ProductLess
<1>3. a * c = q * (d * c) + r * c
  BY <1>1
<1>4. a * c \in Nat /\ d * c \in Nat /\ r * c \in Nat
  BY ProductNat
<1>5. d * c >= 1
  <2>1. r * c >= 0
    BY <1>4
  <2> QED
    BY <1>2, <1>4, <2>1
<1> QED
  BY <1>1, <1>2, <1>3, <1>4, <1>5, QuotientIs

\* What a shift gives, by direction.
LEMMA ShiftsIs ==
  ASSUME NEW v, NEW n \in Int
  PROVE  /\ n > 0 /\ n < WORD => Shifts(v, n) = {(v * Pow2[n]) % Pow2[WORD]}
         /\ n <= 0 /\ -n < WORD => Shifts(v, n) = {v \div Pow2[-n]}
  BY DEF Shifts

\* FCVTWUS returns the number without its sign cut to an integer, which fits.
LEMMA WordRight ==
  ASSUME NEW a, Operand(a), a.exp - (Bias + MANT) > -WORD,
         Magnitude(Whole(a)) \div Unit < Pow2[WORD], NEW w \in Fcvtwus(a)
  PROVE  w = Magnitude(Whole(a)) \div Unit /\ w \in Nat
<1>1. PICK d \in Nat, k \in Nat, m \in Nat :
        /\ d = a.exp /\ k = Bias + MANT /\ m = Expand(a).mant
        /\ (d # 0 => m = a.mant + Hidden /\ m >= 1) /\ (d = 0 => m = 0)
  BY Fields, Widths
<1>2. PICK p \in Nat, u \in Nat : p = Pow2[d] /\ p >= 1 /\ u = Pow2[k] /\ u >= 1
  BY Pow2Nat
<1>3. Magnitude(Whole(a)) \div Unit = (m * p) \div u
  BY <1>1, <1>2, Sizes DEF Size, Unit
<1>4. WORD \in Nat /\ Pow2[WORD] \in Nat /\ Pow2[WORD] >= 1
  BY Widths, Pow2Nat
<1>5. CASE d = 0
  <2>1. w = 0
    BY <1>1, <1>5 DEF Fcvtwus
  <2>2. m * p = 0 /\ 0 \div u = 0
    <3>1. 0 * p = 0 /\ 0 \in Nat /\ 0 = 0 * u + 0 /\ 0 < u
      BY <1>2
    <3> QED
      BY <1>1, <1>2, <1>5, <3>1, QuotientIs
  <2>3. (m * p) \div u = 0
    BY <2>2
  <2> QED
    BY <1>3, <2>1, <2>3
<1>6. CASE d # 0 /\ d <= k
  <2>1. PICK s \in Nat : s = k - d /\ s < WORD
    BY <1>1, <1>4, <1>6
  <2>2. PICK c \in Nat : c = Pow2[s] /\ c >= 1
    BY Pow2Nat
  <2>3. a.exp - (Bias + MANT) = -s /\ -s \in Int /\ -s <= 0 /\ -(-s) = s
    BY <1>1, <2>1
  <2>4. Shifts(m, -s) = {m \div Pow2[-(-s)]}
    BY <1>4, <2>1, <2>3, ShiftsIs
  <2>5. w = m \div c
    BY <1>1, <1>6, <2>2, <2>3, <2>4 DEF Fcvtwus
  <2>6. u = c * p
    <3>1. k = s + d
      BY <2>1
    <3> QED
      BY <1>2, <2>2, <3>1, Pow2Sum
  <2>7. (m * p) \div u = m \div c
    BY <1>2, <2>2, <2>6, CommonFactor
  <2>8. m \div c \in Nat
    BY <2>2, Divided
  <2> QED
    BY <1>3, <2>5, <2>7, <2>8
<1>7. CASE d > k
  <2>1. PICK n \in Nat : n = d - k /\ n > 0
    BY <1>7
  <2>2. PICK c \in Nat : c = Pow2[n] /\ c >= 1
    BY Pow2Nat
  <2>3. p = c * u
    <3>1. d = n + k
      BY <2>1
    <3> QED
      BY <1>2, <2>2, <3>1, Pow2Sum
  <2>4. PICK t \in Nat : t = m * c
    BY ProductNat
  <2>5. (m * p) \div u = t
    <3>1. m * p = t * u + 0 /\ m * p \in Nat
      BY <2>3, <2>4
    <3> QED
      BY <1>2, <3>1, QuotientIs
  <2>6. t < Pow2[WORD]
    BY <1>3, <2>5
  <2>7. n < WORD
    <3> SUFFICES ASSUME WORD <= n PROVE FALSE
      BY <1>4
    <3>1. Pow2[WORD] <= c
      BY <1>4, <2>2, Pow2Mono
    <3>2. 1 * c <= m * c /\ 1 * c = c
      BY <1>1, <1>7, ProductMono
    <3> QED
      BY <1>4, <2>4, <2>6, <3>1, <3>2
  <2>8. a.exp - (Bias + MANT) = n /\ n \in Int /\ a.exp # 0
    BY <1>1, <1>7, <2>1
  <2>9. Shifts(m, n) = {(m * Pow2[n]) % Pow2[WORD]}
    BY <2>1, <2>7, ShiftsIs
  <2>10. w = t % Pow2[WORD]
    BY <1>1, <2>2, <2>4, <2>8, <2>9 DEF Fcvtwus
  <2> QED
    BY <1>3, <1>4, <2>5, <2>6, <2>10, SmallMod
<1> QED
  BY <1>5, <1>6, <1>7

\* FCVTWS returns the number cut to an integer, as a word, when it fits.
LEMMA SignedWordRight ==
  ASSUME NEW a, Operand(a), a.exp - (Bias + MANT) > -WORD,
         Magnitude(Whole(a)) \div Unit < Pow2[WORD - 1], NEW v \in Fcvtws(a)
  PROVE  v = Signed(a.sign, Magnitude(Whole(a)) \div Unit) % Pow2[WORD]
<1>1. WORD - 1 \in Nat /\ WORD \in Nat
  BY Widths, FpuAssumption
<1>2. PICK h \in Nat, k \in Nat : h = Pow2[WORD - 1] /\ k = Pow2[WORD] /\ h < k
  BY <1>1, Pow2Nat, Pow2Less
<1>3. PICK w \in Fcvtwus(a) : v = IF a.sign = 1 THEN (-w) % k ELSE w
  BY <1>2 DEF Fcvtws
<1>4. PICK s : s = Magnitude(Whole(a)) \div Unit
  OBVIOUS
<1>5. s \in Nat
  <2>1. Magnitude(Whole(a)) \in Nat /\ Unit \in Nat /\ Unit >= 1
    BY Sizes, Widths, Pow2Nat DEF Unit
  <2> QED
    BY <1>4, <2>1, Divided
<1>6. w = s /\ s < k
  <2>1. s < Pow2[WORD]
    BY <1>2, <1>4, <1>5
  <2> QED
    BY <1>2, <1>4, <2>1, WordRight
<1>7. a.sign = 1 => v = (-s) % k
  BY <1>3, <1>6
<1>8. a.sign # 1 => v = s % k
  <2>1. s % k = s
    BY <1>5, <1>6, SmallMod
  <2> QED
    BY <1>3, <1>6, <2>1
<1> QED
  BY <1>2, <1>4, <1>7, <1>8 DEF Signed

\* Sums, products, fused operations, comparisons, signs and conversions to words return what
\* ResultsAreRight says, and no subtraction wraps on the way.
THEOREM ResultsRight == FpuSpec => [](op # "FDIV" => ResultsAreRight)
<1>1. FpuInv => (op # "FDIV" => ResultsAreRight)
  <2> SUFFICES ASSUME FpuInv, op # "FDIV" PROVE ResultsAreRight
    OBVIOUS
  <2>1. SubtractsTheSmaller
    BY NoWrap
  <2>2. Operand(x) /\ Operand(y)
    BY DEF FpuInv, Operands
  <2>3. ASSUME result.done, op \in Fused \cup Sums \cup {"FMUL"} PROVE Faithful(result.value, Exact(op), 1)
    BY <2>3, ProgramsFaithful
  <2>4. op \in {"FEQ", "FLT", "FCVTWUS", "FCVTWS"} \cup Signings => op \notin Fused \cup Sums \cup {"FMUL"}
    BY DEF Fused, Sums, Signings
  <2>5. ASSUME result.done, op = "FEQ", ~OppositeZeros
        PROVE  result.value = 1 <=> Whole(x) = Whole(y)
    <3>1. result.value = Feq(x, y)
      BY <2>4, <2>5, SinglesReturn DEF Returns
    <3> QED
      BY <2>2, <2>5, <3>1, EqualsRight DEF OppositeZeros
  <2>6. ASSUME result.done, op = "FLT", ~OppositeZeros, ~(x = y /\ x.sign = 1)
        PROVE  result.value = 1 <=> Whole(x) < Whole(y)
    <3>1. result.value = Flt(x, y)
      BY <2>4, <2>6, SinglesReturn DEF Returns
    <3> QED
      BY <2>2, <2>6, <3>1, LessRight DEF OppositeZeros
  <2>7. ASSUME result.done, op = "FCVTWUS", x.exp - (Bias + MANT) > -WORD,
               Magnitude(Whole(x)) \div Unit < Pow2[WORD]
        PROVE  result.value = Magnitude(Whole(x)) \div Unit
    <3>1. result.value \in Fcvtwus(x)
      BY <2>4, <2>7, SinglesReturn DEF Returns
    <3> QED
      BY <2>2, <2>7, <3>1, WordRight
  <2>8. ASSUME result.done, op = "FCVTWS", x.exp - (Bias + MANT) > -WORD,
               Magnitude(Whole(x)) \div Unit < Pow2[WORD - 1]
        PROVE  result.value = Signed(x.sign, Magnitude(Whole(x)) \div Unit) % Pow2[WORD]
    <3>1. result.value \in Fcvtws(x)
      BY <2>4, <2>8, SinglesReturn DEF Returns
    <3> QED
      BY <2>2, <2>8, <3>1, SignedWordRight
  <2>9. ASSUME result.done, op \in Signings
        PROVE  /\ result.value.sign = SignFor(op)
               /\ op # "FSGNJ" => result.value.exp = x.exp /\ result.value.mant = x.mant
    <3>1. result.value \in Returns
      BY <2>4, <2>9, SinglesReturn
    <3>2. x \in Numbers /\ x.sign \in {0, 1} /\ y.sign \in {0, 1}
      BY <2>2, Fields DEF Operand
    <3>3. CASE op = "FSGNJ"
      BY <3>1, <3>3 DEF Returns, Fsgnj, SignFor
    <3>4. CASE op = "FSGNJN"
      BY <3>1, <3>2, <3>4 DEF Returns, Fsgnjn, SignFor, Numbers
    <3>5. CASE op = "FSGNJX"
      <4>1. result.value = [x EXCEPT !.sign = Xor(x.sign, y.sign)]
        BY <3>1, <3>5 DEF Returns, Fsgnjx
      <4>2. Xor(x.sign, y.sign) = IF x.sign = y.sign THEN 0 ELSE 1
        BY <3>2 DEF Xor
      <4> QED
        BY <3>2, <3>5, <4>1, <4>2 DEF SignFor, Numbers
    <3> QED
      BY <2>9, <3>3, <3>4, <3>5 DEF Signings
  <2> QED
    BY <2>1, <2>3, <2>5, <2>6, <2>7, <2>8, <2>9 DEF ResultsAreRight
<1> QED
  BY <1>1, FpuInvariant, PTL

===============================================================================
