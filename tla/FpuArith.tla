------------------------------ MODULE FpuArith ------------------------------
(***************************************************************************)
(* The single precision datapath of the FPU: FClass, FRound, FADDd, FMUL,  *)
(* FDIV, FSQRT, FCMP and FCVT, as functions from operands to results.  The *)
(* clocked handshake of the two iterative units is in FpuDividers.         *)
(*                                                                         *)
(* Every unit is written for a format of NEXP exponent and NSIG fraction   *)
(* bits, as the Verilog is parameterised; 8 and 23 give the real one.  A   *)
(* float is the record of its three fields.                                *)
(***************************************************************************)
EXTENDS Integers

CONSTANTS NEXP,   \* exponent bits
          NSIG    \* fraction bits; odd, as the square root takes bits in pairs

ASSUME FormatAssumption == NEXP \in Nat \ {0, 1} /\ NSIG \in Nat /\ NSIG % 2 = 1

(* A function, as the standard 2^n is not one the provers know. *)
Pow2[n \in Nat] == IF n = 0 THEN 1 ELSE 2 * Pow2[n - 1]

EMAX == Pow2[NEXP - 1] - 1
BIAS == EMAX
EMIN == 1 - EMAX
ExpOnes  == Pow2[NEXP] - 1
One      == Pow2[NSIG]              \* the hidden bit
FracOnes == One - 1

Float(s, e, f) == [s |-> s, e |-> e, f |-> f]
Floats == [s : {0, 1}, e : 0..ExpOnes, f : 0..FracOnes]

Zero(s) == Float(s, 0, 0)
Inf(s)  == Float(s, ExpOnes, 0)
Largest(s) == Float(s, ExpOnes - 1, FracOnes)
QNaN(s) == Float(s, ExpOnes, One \div 2)
AllOnes(s) == Float(s, ExpOnes, FracOnes)

Negated(x)  == [x EXCEPT !.s = 1 - @]
DiffSigns(x, y) == x.s # y.s
XorSign(x, y) == IF DiffSigns(x, y) THEN 1 ELSE 0

(***************************************************************************)
(* FClass: the class, and exponent and significand with the hidden bit.  A *)
(* subnormal is normalised; zero decodes as 1.0 * 2^-BIAS.                 *)
(***************************************************************************)
Class(x) == IF x.e = ExpOnes /\ x.f = 0 THEN "INF"
            ELSE IF x.e = ExpOnes /\ x.f >= One \div 2 THEN "QNAN"
            ELSE IF x.e = ExpOnes THEN "SNAN"
            ELSE IF x.e = 0 /\ x.f = 0 THEN "ZERO"
            ELSE IF x.e = 0 THEN "SUB"
            ELSE "NORM"

IsNaN(x)  == Class(x) \in {"QNAN", "SNAN"}
IsInf(x)  == Class(x) = "INF"
IsZero(x) == Class(x) = "ZERO"

\* Position of the leading 1, as CLZ finds it.
LeadingOne(n) == CHOOSE p \in 0 .. NEXP + 2 * NSIG : n \div Pow2[p] = 1

Exp(x) == IF Class(x) = "SUB" THEN EMIN - (NSIG - LeadingOne(x.f)) ELSE x.e - BIAS
Sig(x) == IF Class(x) = "SUB" THEN x.f * Pow2[NSIG - LeadingOne(x.f)] ELSE One + x.f

(***************************************************************************)
(* FRound: sig holds the bits that are kept, rb is the first bit dropped,  *)
(* st says whether a later one is set.                                     *)
(***************************************************************************)
RNE == 0
RTZ == 1
RDN == 2
RUP == 3
RMM == 4
RoundingModes == {RNE, RTZ, RDN, RUP, RMM}

(* Mistake: a tie is rounded up whatever the last bit that is kept. *)
RoundUpTies(sign, sig, rb, st, rm) ==
  CASE rm \in {RNE, RMM} -> rb
    [] rm = RDN -> sign = 1 /\ (rb \/ st)
    [] rm = RUP -> sign = 0 /\ (rb \/ st)
    [] OTHER    -> FALSE

RoundUp(sign, sig, rb, st, rm) ==
  CASE rm = RNE -> rb /\ (st \/ sig % 2 = 1)
    [] rm = RDN -> sign = 1 /\ (rb \/ st)
    [] rm = RUP -> sign = 0 /\ (rb \/ st)
    [] rm = RMM -> rb
    [] OTHER    -> FALSE

(* Mistake: the exponent does not follow a carry out of the significand. *)
FRoundNoCarry(sign, sig, rb, st, exp, rm) ==
  [sig |-> IF RoundUp(sign, sig, rb, st, rm) THEN sig + 1 ELSE sig, exp |-> exp]

FRound(sign, sig, rb, st, exp, rm) ==
  LET r == IF RoundUp(sign, sig, rb, st, rm) THEN sig + 1 ELSE sig
  IN  IF r = 2 * One THEN [sig |-> One, exp |-> exp + 1]
                     ELSE [sig |-> r,   exp |-> exp]

(***************************************************************************)
(* Numbers of 2*(NSIG+1) bits, the NFULLSIG of the code, as <<hi, lo>>     *)
(* with lo in 0..W-1: the rounding unit keeps hi and drops lo.             *)
(***************************************************************************)
W == 2 * One

FRoundWide(sign, w, exp, rm) ==
  FRound(sign, w[1], w[2] >= One, w[2] % One # 0, exp, rm)

WideSum(v, w) == LET lo == v[2] + w[2] IN <<v[1] + w[1] + lo \div W, lo % W>>

\* w >>> n, arithmetic: rounds towards minus infinity.
WideShiftRight(w, n) ==
  IF n <= NSIG + 1
  THEN <<w[1] \div Pow2[n], (w[1] % Pow2[n]) * Pow2[NSIG + 1 - n] + w[2] \div Pow2[n]>>
  ELSE LET k == IF n > 2 * (NSIG + 1) THEN NSIG + 1 ELSE n - NSIG - 1
       IN  <<w[1] \div W, (w[1] \div Pow2[k]) % W>>

WideShiftLeft(w, n) ==
  IF n <= NSIG + 1 THEN <<w[1] * Pow2[n] + w[2] \div Pow2[NSIG + 1 - n], (w[2] * Pow2[n]) % W>>
                   ELSE <<w[2] * Pow2[n - NSIG - 1], 0>>

WideLeadingOne(w) == IF w[1] > 0 THEN NSIG + 1 + LeadingOne(w[1]) ELSE LeadingOne(w[2])

\* Product of two significands, by halves of them.
WideProduct(m, n) ==
  LET H == Pow2[(NSIG + 1) \div 2]
      mid == (m \div H) * (n % H) + (m % H) * (n \div H)
      low == (mid % H) * H + (m % H) * (n % H)
  IN  <<(m \div H) * (n \div H) + mid \div H + low \div W, low % W>>

(***************************************************************************)
(* FADDd.  A result below the normal range is replaced by +0.              *)
(***************************************************************************)
FAddSpecial(x, y, rm) ==
  LET first(C) == IF Class(x) = C THEN x ELSE y
  IN  IF "QNAN" \in {Class(x), Class(y)} THEN first("QNAN")
      ELSE IF "SNAN" \in {Class(x), Class(y)} THEN first("SNAN")
      ELSE IF IsZero(x) THEN y
      ELSE IF IsZero(y) THEN x
      ELSE IF IsInf(x) /\ IsInf(y) THEN
             IF DiffSigns(x, y) THEN QNaN(0)
             ELSE IF rm \in {RNE, RMM} THEN x
             ELSE IF rm = RTZ THEN Largest(x.s)
             ELSE IF rm = RDN THEN (IF x.s = 1 THEN x ELSE Largest(0))
             ELSE IF x.s = 1 THEN Largest(1) ELSE x
      ELSE first("INF")

FAddFinite(x, y, rm) ==
  LET xLarger == Exp(y) < Exp(x) \/ (Exp(x) = Exp(y) /\ Sig(y) < Sig(x))
      big     == IF xLarger THEN x ELSE y
      small   == IF xLarger THEN y ELSE x
      addend  == IF DiffSigns(x, y) THEN <<-Sig(small), 0>> ELSE <<Sig(small), 0>>
      sum     == WideSum(<<Sig(big), 0>>, WideShiftRight(addend, Exp(big) - Exp(small)))
      exp     == Exp(big) + WideLeadingOne(sum) - (2 * NSIG + 1)
      norm    == IF sum[1] >= W THEN WideShiftRight(sum, 1)
                 ELSE WideShiftLeft(sum, 2 * NSIG + 1 - WideLeadingOne(sum))
      r       == FRoundWide(big.s, norm, exp, rm)
  IN  IF sum = <<0, 0>> \/ exp < EMIN THEN Zero(0)
      ELSE IF exp > EMAX THEN Inf(big.s)
      ELSE Float(big.s, r.exp + BIAS, r.sig % One)

FADDd(x, y, rm) ==
  IF {Class(x), Class(y)} \subseteq {"NORM", "SUB"} THEN FAddFinite(x, y, rm)
                                                    ELSE FAddSpecial(x, y, rm)
FSUB(x, y, rm) == FADDd(x, Negated(y), rm)

(***************************************************************************)
(* FMUL.  The product of two subnormals is replaced by zero.               *)
(***************************************************************************)
FMulFinite(x, y, rm) ==
  LET sign == XorSign(x, y)
      prod == WideProduct(Sig(x), Sig(y))
      high == prod[1] >= One
      norm == IF high THEN prod ELSE WideShiftLeft(prod, 1)
      exp  == Exp(x) + Exp(y) + (IF high THEN 1 ELSE 0)
      r    == FRoundWide(sign, norm, exp, rm)
      sub  == FRoundWide(sign, WideShiftRight(norm, EMIN - exp), exp, rm)
  IN  IF exp < EMIN - NSIG THEN Zero(sign)
      ELSE IF exp < EMIN THEN Float(sign, 0, sub.sig % One)
      ELSE IF exp > EMAX THEN Inf(sign)
      ELSE Float(sign, r.exp + BIAS, r.sig % One)

FMUL(x, y, rm) ==
  LET first(C) == IF Class(x) = C THEN x ELSE y
      classes  == {Class(x), Class(y)}
  IN  IF "QNAN" \in classes THEN first("QNAN")
      ELSE IF "SNAN" \in classes THEN first("SNAN")
      ELSE IF {"INF", "ZERO"} \subseteq classes THEN QNaN(XorSign(x, y))
      ELSE IF "INF" \in classes THEN Inf(XorSign(x, y))
      ELSE IF "ZERO" \in classes \/ classes = {"SUB"} THEN Zero(XorSign(x, y))
      ELSE FMulFinite(x, y, rm)

(***************************************************************************)
(* FDIV: one quotient bit per clock by trial subtraction, NSIG+3 of them.  *)
(* A subnormal quotient is packed without being shifted.                   *)
(***************************************************************************)
(* Mistake: the division stops one quotient bit early. *)
DivideStepsEarly(a, b) ==
  LET step[n \in 0..(NSIG + 2)] ==
        IF n = 0 THEN [q |-> 0, a |-> a]
        ELSE LET p == step[n - 1]
             IN  IF p.a < b THEN [q |-> 2 * p.q,     a |-> 2 * p.a]
                            ELSE [q |-> 2 * p.q + 1, a |-> 2 * (p.a - b)]
  IN  step[NSIG + 2]

DivideSteps(a, b) ==
  LET step[n \in 0..(NSIG + 3)] ==
        IF n = 0 THEN [q |-> 0, a |-> a]
        ELSE LET p == step[n - 1]
             IN  IF p.a < b THEN [q |-> 2 * p.q,     a |-> 2 * p.a]
                            ELSE [q |-> 2 * p.q + 1, a |-> 2 * (p.a - b)]
  IN  step[NSIG + 3]

RoundedInfinity(sign, rm) ==
  IF rm = RTZ \/ (rm = RDN /\ sign = 0) \/ (rm = RUP /\ sign = 1)
  THEN Largest(sign) ELSE Inf(sign)

FDivFinite(x, y, rm) ==
  LET sign == XorSign(x, y)
      d    == DivideSteps(Sig(x), Sig(y))
      less == d.q < 4 * One
      q    == IF less THEN 2 * d.q ELSE d.q
      r    == FRound(sign, q \div 4, q % 4 >= 2, q % 2 = 1 \/ d.a # 0,
                     Exp(x) - Exp(y) - (IF less THEN 1 ELSE 0), rm)
  IN  CASE r.exp < EMIN -> Float(sign, 0, r.sig % One)
        [] r.exp > EMAX -> RoundedInfinity(sign, rm)
        [] OTHER        -> Float(sign, r.exp + BIAS, r.sig % One)

FDIV(x, y, rm) ==
  LET sign    == XorSign(x, y)
      classes == {Class(x), Class(y)}
  IN  IF "SNAN" \in classes THEN (IF Class(x) = "SNAN" THEN x ELSE y)
      ELSE IF "QNAN" \in classes THEN (IF Class(x) = "QNAN" THEN x ELSE y)
      ELSE IF classes \in {{"INF"}, {"ZERO"}} THEN AllOnes(sign)
      ELSE IF IsInf(x) THEN RoundedInfinity(sign, rm)
      ELSE IF IsInf(y) THEN Zero(sign)
      ELSE IF IsZero(x) THEN Zero(sign)
      ELSE IF IsZero(y) THEN RoundedInfinity(sign, rm)
      ELSE FDivFinite(x, y, rm)

(***************************************************************************)
(* FSQRT: one root bit per clock from two radicand bits, NSIG+2 of them.   *)
(* The rounding unit is given the top of the remainder as the bits below   *)
(* the root; the last root bit of an even exponent is dropped.             *)
(***************************************************************************)
(* Mistake: the root digit is tried without the 01 appended to the root. *)
RootStepsTrial(radicand) ==
  LET step[n \in 0..(NSIG + 2)] ==
        IF n = 0 THEN [q |-> 0, rem |-> 0, x |-> radicand]
        ELSE LET p  == step[n - 1]
                 ac == 4 * p.rem + p.x \div (2 * One)
                 t  == ac - 4 * p.q
                 x  == (p.x % (2 * One)) * 4
             IN  IF t < 0 THEN [q |-> 2 * p.q,     rem |-> ac, x |-> x]
                          ELSE [q |-> 2 * p.q + 1, rem |-> t,  x |-> x]
  IN  step[NSIG + 2]

RootSteps(radicand) ==
  LET step[n \in 0..(NSIG + 2)] ==
        IF n = 0 THEN [q |-> 0, rem |-> 0, x |-> radicand]
        ELSE LET p  == step[n - 1]
                 ac == 4 * p.rem + p.x \div (2 * One)
                 t  == ac - (4 * p.q + 1)
                 x  == (p.x % (2 * One)) * 4
             IN  IF t < 0 THEN [q |-> 2 * p.q,     rem |-> ac, x |-> x]
                          ELSE [q |-> 2 * p.q + 1, rem |-> t,  x |-> x]
  IN  step[NSIG + 2]

FSqrtFinite(x, rm) ==
  LET odd == Exp(x) % 2 = 1
      d   == RootSteps(IF odd THEN Sig(x) ELSE 2 * Sig(x))
      r   == FRound(0, IF odd THEN d.q ELSE d.q \div 2,
                    d.rem >= 4 * One, d.rem % (4 * One) # 0, Exp(x) \div 2, rm)
  IN  IF r.exp < EMIN THEN Float(0, 0, r.sig % One)
                      ELSE Float(0, r.exp + BIAS, r.sig % One)

FSQRT(x, rm) ==
  IF IsNaN(x) \/ IsZero(x) THEN x
  ELSE IF x.s = 1 THEN QNaN(1)
  ELSE IF IsInf(x) THEN x
  ELSE FSqrtFinite(x, rm)

(***************************************************************************)
(* FCMP.  A zero takes part as it is decoded, 1.0 * 2^-BIAS: the small     *)
(* subnormals are below it and one of them is equal to it.                 *)
(***************************************************************************)
(* Mistake: significands are compared whatever the exponents. *)
MagnitudeLessAnyExp(x, y) == Exp(x) < Exp(y) \/ Sig(x) < Sig(y)

MagnitudeLess(x, y) == Exp(x) < Exp(y) \/ (Exp(x) = Exp(y) /\ Sig(x) < Sig(y))

FLT(x, y) ==
  IF IsNaN(x) \/ IsNaN(y) THEN FALSE
  ELSE IF IsInf(x) THEN x.s = 1 /\ y # x
  ELSE IF IsInf(y) THEN y.s = 0
  ELSE IF IsZero(x) /\ IsZero(y) THEN FALSE
  ELSE IF DiffSigns(x, y) THEN x.s = 1
  ELSE IF x.s = 1 THEN MagnitudeLess(y, x) ELSE MagnitudeLess(x, y)

FEQ(x, y) ==
  IF IsNaN(x) \/ IsNaN(y) THEN FALSE
  ELSE IF IsInf(x) \/ IsInf(y) THEN x = y
  ELSE IF IsZero(x) /\ IsZero(y) THEN TRUE
  ELSE x.s = y.s /\ Exp(x) = Exp(y) /\ Sig(x) = Sig(y)

FLE(x, y) == FLT(x, y) \/ FEQ(x, y)

(***************************************************************************)
(* FCVT between floats and signed integers of NEXP+NSIG+1 bits.  The FPU   *)
(* wires its rounding mode to RTZ.  |i| is handled as 2*half+bit because   *)
(* the magnitude of the least integer is no integer of TLC.                *)
(***************************************************************************)
INTLEN == NEXP + NSIG + 1
MaxInt == 2 * (Pow2[INTLEN - 2] - 1) + 1
MinInt == -MaxInt - 1

FCVTSW(i) ==
  LET half == IF i >= 0 THEN i \div 2 ELSE -((i + 1) \div 2)
      bit  == i % 2
      msb  == IF half = 0 THEN 0 ELSE 1 + LeadingOne(half)
      sig  == IF msb > NSIG THEN half \div Pow2[msb - 1 - NSIG]
                            ELSE (2 * half + bit) * Pow2[NSIG - msb]
  IN  IF i = 0 THEN Zero(0)
      ELSE Float(IF i < 0 THEN 1 ELSE 0, msb + BIAS, sig - One)

(* Mistake: the fraction is rounded to nearest instead of dropped. *)
FCVTWSNearest(x) ==
  LET shift == NSIG - Exp(x)
      mag   == IF shift <= 0 THEN Sig(x) * Pow2[-shift]
               ELSE IF Exp(x) < 0 THEN 0
               ELSE (Sig(x) + Pow2[shift - 1]) \div Pow2[shift]
  IN  IF IsInf(x) /\ x.s = 1 THEN MinInt
      ELSE IF IsInf(x) THEN -1
      ELSE IF IsNaN(x) THEN (IF x.s = 1 THEN 1 ELSE -1)
      ELSE IF Exp(x) >= INTLEN - 1 THEN (IF x.s = 1 THEN MinInt ELSE MaxInt)
      ELSE IF x.s = 1 THEN -mag ELSE mag

FCVTWS(x) ==
  LET shift == NSIG - Exp(x)
      mag   == IF shift < 0 THEN Sig(x) * Pow2[-shift]
               ELSE IF Exp(x) < 0 THEN 0
               ELSE Sig(x) \div Pow2[shift]
  IN  IF IsInf(x) /\ x.s = 1 THEN MinInt
      ELSE IF IsInf(x) THEN -1
      ELSE IF IsNaN(x) THEN (IF x.s = 1 THEN 1 ELSE -1)
      ELSE IF Exp(x) >= INTLEN - 1 THEN (IF x.s = 1 THEN MinInt ELSE MaxInt)
      ELSE IF x.s = 1 THEN -mag ELSE mag

(***************************************************************************)
(* almost_equal_ulps of the test program.  The bits of a float, read as an *)
(* integer, are made monotonic; their difference wraps around as int32_t.  *)
(***************************************************************************)
Rank(x) == x.e * One + x.f
(* Mistake: the bits of a negative float are not made monotonic. *)
SignedRankRaw(x) == IF x.s = 1 THEN MinInt + Rank(x) ELSE Rank(x)

SignedRank(x) == IF x.s = 1 THEN -Rank(x) ELSE Rank(x)

WrappedDiff(m, n) ==
  CASE n < 0 /\ m > MaxInt + n -> (m - MaxInt - 1) - (n + MaxInt + 1)
    [] n > 0 /\ m < MinInt + n -> (m - MinInt) + (MaxInt - n) + 1
    [] OTHER -> m - n

almost_equal_ulps(a, b, maxULPs) ==
  IF IsNaN(a) \/ IsNaN(b) THEN FALSE
  ELSE IF IsInf(a) \/ IsInf(b) THEN FEQ(a, b)
  ELSE LET diff == WrappedDiff(SignedRank(a), SignedRank(b))
       IN  (IF diff < 0 THEN -diff ELSE diff) <= maxULPs
=============================================================================
