--------------------------------- MODULE SoftFpu ---------------------------------
(***************************************************************************)
(* The floating point unit of the simulator with use_soft_fpu set          *)
(* (FPU_funcs.cpp): the micro-programs tried there before femtorv32        *)
(* petitbateau was written, one micro-instruction per step, and the        *)
(* operations that take one step.                                          *)
(*                                                                         *)
(* A number is a record of its three fields, of any width. What the C      *)
(* library computes (FMIN, FMAX, FLE, FSQRT, conversions to float) is left *)
(* out.                                                                    *)
(***************************************************************************)
EXTENDS Integers, Sequences, SequencesExt

CONSTANTS MANT,                   \* bits of a mantissa (23)
          EXP,                    \* bits of an exponent (8)
          WORD,                   \* bits of an integer (32)
          XSigns,                 \* signs of a first operand
          XExps, YExps, ZExps,    \* exponents of the operands; 0 is that of the zeros
          Ops,                    \* operations
          DIVISION                \* the error of a division, in units of the last place

VARIABLES op, x, y, z,            \* the instruction
          f,                      \* class FPU: the registers A and B
          program,                \* micro-instructions still to come
          result                  \* what the function returns, once it has

fpuVars == <<op, x, y, z, f, program, result>>

\* 2 ^ n.
Pow2[n \in Nat] == IF n = 0 THEN 1 ELSE 2 * Pow2[n - 1]

\* There are numbers other than zero with an exponent below the bias, and a product and its
\* carry fit in two words.
ASSUME FpuAssumption ==
    /\ MANT \in Nat \ {0} /\ EXP \in Nat \ {0, 1} /\ WORD \in Nat
    /\ 2 * MANT + 3 <= 2 * WORD

Hidden == Pow2[MANT]
Bias   == Pow2[EXP - 1] - 1
Number(sign, exp, mant) == [sign |-> sign, exp |-> exp, mant |-> mant]
Numbers == [sign : {0, 1}, exp : 0 .. Pow2[EXP] - 1, mant : 0 .. Hidden - 1]

\* The operands: no denormals, which the unit flushes to zero.
Given(signs, exps) == { n \in Numbers : n.sign \in signs /\ n.exp \in exps /\ (n.exp = 0 => n.mant = 0) }

IsZero(n)   == n.exp = 0 /\ n.mant = 0
IsNormal(n) == n.exp # 0 /\ n.exp # Pow2[EXP] - 1

Xor(a, b) == (a + b) % 2

-------------------------------------------------------------------------------
(* Micro-instructions.                                                     *)

\* expand, and compress, which drops the hidden bit and whatever does not fit.
Expand(n) == [sign |-> n.sign, exp |-> n.exp, mant |-> n.mant + IF n.exp # 0 THEN Hidden ELSE 0]

Compress(mant, exp, sign) == Number(sign, exp % Pow2[EXP], mant % Hidden)

\* The 2 * (MANT + 1) bits that a product and a shifted operand have.
Widened(e) == [e EXCEPT !.mant = @ * Pow2[MANT + 1], !.exp = @ - (MANT + 1)]

Flipped(e, flip) == IF flip THEN [e EXCEPT !.sign = 1 - @] ELSE e

Product(a, b) ==
    [mant |-> a.mant * b.mant, exp |-> a.exp + b.exp - Bias - MANT, sign |-> Xor(a.sign, b.sign)]

Swapped(g) == [g EXCEPT !.A = g.B, !.B = g.A]

\* ADD_SWP_EXP: the larger exponent goes to B; with a zero there is nothing to add.
AddSwpExp(g) ==
    IF g.B.mant = 0 THEN [g EXCEPT !.adds = FALSE]
    ELSE IF g.A.mant = 0 THEN [Swapped(g) EXCEPT !.adds = FALSE]
    ELSE IF g.A.exp > g.B.exp \/ (g.A.exp = g.B.exp /\ g.A.mant > g.B.mant) THEN Swapped(g)
    ELSE g

\* ADD_SHIFT: what is shifted out of A is lost.
AddShift(g) ==
    LET shift == g.B.exp - g.A.exp
    IN  [g EXCEPT !.A.mant = IF shift > 2 * (MANT + 1) - 1 THEN 0 ELSE @ \div Pow2[shift],
                  !.A.exp = g.B.exp]

\* ADD_SWP_FRAC.
AddSwpFrac(g) == IF g.A.mant > g.B.mant THEN Swapped(g) ELSE g

\* ADD_FRAC: the mantissas are unsigned 64 bit numbers.
AddFrac(g) ==
    LET differ == g.A.sign # g.B.sign
        mant   == (IF differ THEN g.B.mant - g.A.mant ELSE g.B.mant + g.A.mant) % Pow2[2 * WORD]
    IN  [g EXCEPT !.A.mant = mant,
                  !.A.sign = IF mant = 0 /\ (g.A.sign = 0 \/ g.B.sign = 0) THEN 0 ELSE g.B.sign]

\* 63 - clz(mant), of a mantissa that is not zero.
FirstBitSet(mant) == CHOOSE b \in 0 .. 2 * WORD - 1 : Pow2[b] <= mant /\ mant < Pow2[b + 1]

\* Mutant: the exponent is that of a mantissa of MANT bits.
NormKeepsExp(g) ==
    IF g.A.mant = 0 THEN [g EXCEPT !.A.exp = 0]
    ELSE [g EXCEPT !.A.mant = @ \div Pow2[FirstBitSet(@) - MANT]]

\* NORM: cut to MANT + 1 bits, and zero when the exponent is too small.
Norm(g) ==
    LET up  == FirstBitSet(g.A.mant) - MANT
        exp == g.A.exp + up
    IN  IF g.A.mant = 0 THEN [g EXCEPT !.A.exp = 0]
        ELSE IF exp <= 0 THEN [g EXCEPT !.A.mant = 0, !.A.exp = 0]
        ELSE [g EXCEPT !.A.exp = exp,
                       !.A.mant = IF up > 0 THEN @ \div Pow2[up] ELSE @ * Pow2[-up]]

\* The signs that LOAD_B changes, of the product and of the third operand, and LOAD_AB.
FlipsA(o) == o \in {"FNMADD", "FNMSUB"}
FlipsB(o) == o \in {"FMSUB", "FNMADD", "FSUB"}

\* The micro-instructions of an addition, which are left out when there is nothing to add.
Addition(g, micro) ==
    CASE micro = "ADD_SWP_EXP"  -> AddSwpExp(g)
      [] micro = "ADD_SHIFT"    -> AddShift(g)
      [] micro = "ADD_SWP_FRAC" -> AddSwpFrac(g)
      [] micro = "ADD_FRAC"     -> AddFrac(g)

\* One micro-instruction of operation o on a, b and c.
Step(g, micro, o, a, b, c) ==
    CASE micro = "MUL"     -> [g EXCEPT !.A = Product(Expand(a), Expand(b)), !.adds = TRUE]
      [] micro = "LOAD_B"  -> [g EXCEPT !.A = Flipped(@, FlipsA(o)),
                                        !.B = Flipped(Widened(Expand(c)), FlipsB(o))]
      [] micro = "LOAD_AB" -> [A |-> Widened(Expand(a)),
                               B |-> Flipped(Widened(Expand(b)), FlipsB(o)), adds |-> TRUE]
      [] micro = "NORM"    -> Norm(g)
      [] OTHER             -> IF g.adds THEN Addition(g, micro) ELSE g

\* The micro-programs.
Fused == {"FMADD", "FMSUB", "FNMADD", "FNMSUB"}
Sums  == {"FADD", "FSUB"}

Program(o) ==
    IF o \in Fused
    THEN <<"MUL", "LOAD_B", "ADD_SWP_EXP", "ADD_SHIFT", "ADD_SWP_FRAC", "ADD_FRAC", "NORM">>
    ELSE IF o \in Sums THEN <<"LOAD_AB", "ADD_SWP_EXP", "ADD_SHIFT", "ADD_FRAC", "NORM">>
    ELSE IF o = "FMUL" THEN <<"MUL", "NORM">> ELSE <<>>

Returned(g) == Compress(g.A.mant, g.A.exp, g.A.sign)

ZeroRegisters == [A |-> [mant |-> 0, exp |-> 0, sign |-> 0], B |-> [mant |-> 0, exp |-> 0, sign |-> 0],
          adds |-> TRUE]

\* A whole micro-program.
Computed(o, a, b, c) ==
    Returned(FoldLeft(LAMBDA g, micro : Step(g, micro, o, a, b, c), ZeroRegisters, Program(o)))

-------------------------------------------------------------------------------
(* Division.                                                               *)

\* The number nearest to n / 17, for n between 17 and 68.
Seventeenths(n) ==
    LET e == IF n < 34 THEN 0 ELSE 1
        m == (2 * n * Hidden + 17 * Pow2[e]) \div (2 * 17 * Pow2[e])
    IN  IF m = 2 * Hidden THEN Number(0, Bias + e + 1, 0) ELSE Number(0, Bias + e, m - Hidden)

\* One round of the iteration for the reciprocal of d.
Newton(r, d) == Computed("FMUL", r, Computed("FNMSUB", r, d, Number(0, Bias + 1, 0)), r)

\* FRCP_WITH_SOFT_FPU.
Frcp(n) ==
    LET d == Number(0, Bias - 1, n.mant)
        r == Newton(Newton(Computed("FNMSUB", Seventeenths(32), d, Seventeenths(48)), d), d)
    IN  Compress(r.mant, Bias - 1 - n.exp + r.exp, n.sign)

Fdiv(a, b) == Computed("FMUL", a, Frcp(b), a)

-------------------------------------------------------------------------------
(* Comparisons, signs and conversions.                                     *)

\* The bits of a number without its sign, taken for an integer.
Bits(n) == n.exp * Hidden + n.mant

Flag(p) == IF p THEN 1 ELSE 0

Feq(a, b) == Flag(a = b)

\* FLT_WITH_SOFT_FPU: of two negative numbers, not less is less.
Flt(a, b) ==
    IF a.sign # b.sign THEN Flag(a.sign = 1)
    ELSE IF a.sign = 1 THEN Flag(~(Bits(a) < Bits(b))) ELSE Flag(Bits(a) < Bits(b))

Signings == {"FSGNJ", "FSGNJN", "FSGNJX"}

\* FSGNJ returns its second operand.
Fsgnj(a, b)  == b
Fsgnjn(a, b) == [a EXCEPT !.sign = 1 - b.sign]
Fsgnjx(a, b) == [a EXCEPT !.sign = Xor(a.sign, b.sign)]

\* What a shift of an integer by n places gives: any of two outcomes when n is too large,
\* nothing left or n taken modulo the bits of the integer.
Shifts(v, n) ==
    LET by(k) == IF n > 0 THEN (v * Pow2[k]) % Pow2[WORD] ELSE v \div Pow2[k]
        size  == IF n > 0 THEN n ELSE -n
    IN  IF size < WORD THEN {by(size)} ELSE {0, by(size % WORD)}

\* FCVTWUS_WITH_SOFT_FPU and FCVTWS_WITH_SOFT_FPU: the words they may return.
Fcvtwus(a) == IF a.exp = 0 THEN {0} ELSE Shifts(a.mant + Hidden, a.exp - (Bias + MANT))

Fcvtws(a) == { IF a.sign = 1 THEN (-w) % Pow2[WORD] ELSE w : w \in Fcvtwus(a) }

\* What an operation of one step may return.
Returns ==
    CASE op = "FDIV"    -> {Fdiv(x, y)}
      [] op = "FEQ"     -> {Feq(x, y)}
      [] op = "FLT"     -> {Flt(x, y)}
      [] op = "FSGNJ"   -> {Fsgnj(x, y)}
      [] op = "FSGNJN"  -> {Fsgnjn(x, y)}
      [] op = "FSGNJX"  -> {Fsgnjx(x, y)}
      [] op = "FCVTWS"  -> Fcvtws(x)
      [] op = "FCVTWUS" -> Fcvtwus(x)

-------------------------------------------------------------------------------
Pending == [done |-> FALSE]

FpuInit ==
    /\ op \in Ops
    /\ x \in Given(XSigns, XExps) /\ y \in Given({0, 1}, YExps)
    /\ IF op \in Fused THEN z \in Given({0, 1}, ZExps) ELSE z = y
    /\ f = ZeroRegisters
    /\ program = Program(op)
    /\ result = Pending

Micro ==
    /\ program # <<>>
    /\ f' = Step(f, Head(program), op, x, y, z)
    /\ program' = Tail(program)
    /\ result' = IF Len(program) = 1 THEN [done |-> TRUE, value |-> Returned(f')] ELSE Pending
    /\ UNCHANGED <<op, x, y, z>>

Single ==
    /\ Program(op) = <<>> /\ result = Pending
    /\ \E r \in Returns : result' = [done |-> TRUE, value |-> r]
    /\ UNCHANGED <<op, x, y, z, f, program>>

FpuNext == Micro \/ Single
FpuSpec == FpuInit /\ [][FpuNext]_fpuVars

-------------------------------------------------------------------------------
(* Properties.                                                             *)

\* The exponent of the largest power of two within n.
Log2(n) == CHOOSE b \in 0 .. n : Pow2[b] <= n /\ n \div 2 < Pow2[b]

Magnitude(n) == IF n >= 0 THEN n ELSE -n

\* A number as an integer, in units that make every number whole.
Signed(sign, n) == IF sign = 1 THEN -n ELSE n
Whole(n) == Signed(n.sign, Expand(n).mant * Pow2[n.exp])

\* The same for a product, whose units are smaller by Unit.
Unit == Pow2[Bias + MANT]
Exact(o) ==
    LET p == Whole(x) * Whole(y)
    IN  CASE o = "FADD"   -> (Whole(x) + Whole(y)) * Unit
          [] o = "FSUB"   -> (Whole(x) - Whole(y)) * Unit
          [] o = "FMUL"   -> p
          [] o = "FMADD"  -> p + Whole(z) * Unit
          [] o = "FMSUB"  -> p - Whole(z) * Unit
          [] o = "FNMADD" -> -p - Whole(z) * Unit
          [] o = "FNMSUB" -> -p + Whole(z) * Unit

\* v is nearly the exact number e: the error is less than ulps units of the last place of
\* a number as large as e. Too small a number is zero; too large a one is not covered.
Faithful(v, e, ulps) ==
    LET size == Magnitude(e)
        exp  == Log2(size) - MANT - (Bias + MANT)
    IN  IF e = 0 THEN IsZero(v)
        ELSE IF exp <= 0 THEN IsZero(v) \/ v.exp = 1
        ELSE exp < Pow2[EXP] - 2 =>
                Magnitude(Whole(v) * Unit - e) < ulps * Pow2[exp] * Unit

\* The mantissa that is subtracted is never the larger one, for sums and differences
\* without the second swap ("is it true ?", ADD_SWP_FRAC): the subtraction of unsigned
\* numbers does not wrap.
SubtractsTheSmaller ==
    program # <<>> /\ Head(program) = "ADD_FRAC" /\ f.adds => f.A.mant <= f.B.mant

\* Two numbers that the comparisons of the code tell apart and the host does not.
OppositeZeros == IsZero(x) /\ IsZero(y) /\ x.sign # y.sign

\* The sign an operation of the FSGNJ kind gives.
SignFor(o) ==
    CASE o = "FSGNJ"  -> y.sign
      [] o = "FSGNJN" -> 1 - y.sign
      [] o = "FSGNJX" -> IF x.sign = y.sign THEN 0 ELSE 1

\* Sums, products and fused operations are off by less than one unit in the last place.
\* FEQ and FLT compare the numbers; zeros of different signs, and with FLT a negative
\* number and itself, are left out, see AgreesWithTheHost. Signs are those asked for, and
\* FSGNJN and FSGNJX change nothing else (FSGNJ does). Words are the numbers cut to
\* integers, when no shift is too large. On the way no subtraction wraps.
ResultsAreRight ==
    LET v == result.value
        small == x.exp - (Bias + MANT) > -WORD
        size == Magnitude(Whole(x)) \div Unit
    IN  /\ SubtractsTheSmaller
        /\ result.done =>
            /\ op \in Fused \cup Sums \cup {"FMUL"} => Faithful(v, Exact(op), 1)
            /\ op = "FDIV" /\ IsNormal(v) /\ ~IsZero(y) =>
                  Magnitude(Whole(v) * Whole(y) - Whole(x) * Unit)
                     <= DIVISION * Pow2[v.exp] * Magnitude(Whole(y))
            /\ op = "FEQ" /\ ~OppositeZeros => (v = 1 <=> Whole(x) = Whole(y))
            /\ op = "FLT" /\ ~OppositeZeros /\ ~(x = y /\ x.sign = 1) => (v = 1 <=> Whole(x) < Whole(y))
            /\ op \in Signings => v.sign = SignFor(op)
            /\ op \in Signings \ {"FSGNJ"} => v.exp = x.exp /\ v.mant = x.mant
            /\ op = "FCVTWUS" /\ small /\ size < Pow2[WORD] => v = size
            /\ op = "FCVTWS" /\ small /\ size < Pow2[WORD - 1] => v = Signed(x.sign, size) % Pow2[WORD]

\* FEQ and FLT return what the comparison of the host returns: the checks that the file
\* has for them (CHECK_FEQ, CHECK_FLT) find no difference.
AgreesWithTheHost ==
    result.done =>
        /\ op = "FEQ" => (result.value = 1 <=> Whole(x) = Whole(y))
        /\ op = "FLT" => (result.value = 1 <=> Whole(x) < Whole(y))

===============================================================================
