-------------------------------- MODULE Fpu --------------------------------
(***************************************************************************)
(* One instruction at a time in the FPU: the execute unit presents the     *)
(* operands and the rounding mode, the unit leaves the result, the         *)
(* instruction retires.  The properties compare every result with the      *)
(* exact one, in units of the least subnormal.                             *)
(***************************************************************************)
EXTENDS FpuArith, FiniteSets

CONSTANTS Idle     \* no instruction in the unit

ASSUME IdleAssumption ==
  Idle \notin {"FADD", "FSUB", "FMUL", "FDIV", "FSQRT", "FLT", "FEQ", "almost_equal_ulps"}

VARIABLES instr,   \* Idle or the name of the instruction
          rs1, rs2, rm,
          out      \* result register; a Boolean for comparisons

vars == <<instr, rs1, rs2, rm, out>>

Init == /\ instr = Idle
        /\ rs1 = Zero(0) /\ rs2 = Zero(0) /\ rm = RNE /\ out = Zero(0)

Enter(i, x, y, mode, result) ==
  instr' = i /\ rs1' = x /\ rs2' = y /\ rm' = mode /\ out' = result

Add  == \E x, y \in Floats, m \in RoundingModes : Enter("FADD", x, y, m, FADDd(x, y, m))
Sub  == \E x, y \in Floats, m \in RoundingModes : Enter("FSUB", x, y, m, FSUB(x, y, m))
Mul  == \E x, y \in Floats, m \in RoundingModes : Enter("FMUL", x, y, m, FMUL(x, y, m))
Div  == \E x, y \in Floats, m \in RoundingModes : Enter("FDIV", x, y, m, FDIV(x, y, m))
Sqrt == \E x \in Floats, m \in RoundingModes : Enter("FSQRT", x, Zero(0), m, FSQRT(x, m))
Less == \E x, y \in Floats : Enter("FLT", x, y, RNE, FLT(x, y))
Equal == \E x, y \in Floats : Enter("FEQ", x, y, RNE, FEQ(x, y))
Near == \E x, y \in Floats, n \in {0, 1, 4} :
          Enter("almost_equal_ulps", x, y, n, almost_equal_ulps(x, y, n))

Issue == instr = Idle /\ (Add \/ Sub \/ Mul \/ Div \/ Sqrt \/ Less \/ Equal \/ Near)
Retire == instr # Idle /\ Enter(Idle, Zero(0), Zero(0), RNE, Zero(0))

Next == Issue \/ Retire

Spec == Init /\ [][Next]_vars

(***************************************************************************)
(* Exact values.  The magnitude with rank k, k = e * 2^NSIG + f, is        *)
(* Magnitude(k) units of 2^(EMIN-NSIG); infinity stands for 2^(EMAX+1).    *)
(***************************************************************************)
Magnitude(k) == IF k < One THEN k ELSE (One + (k % One)) * Pow2[k \div One - 1]
InfRank == ExpOnes * One
Value(x) == IF x.s = 1 THEN -Magnitude(Rank(x)) ELSE Magnitude(Rank(x))
PerUnit == Pow2[NSIG - EMIN]      \* units in 1.0
Finite(x) == x.e # ExpOnes
Abs(n) == IF n < 0 THEN -n ELSE n

\* The exact result of the instruction in units, as numerator and denominator.
Exact == CASE instr = "FADD" -> [num |-> Value(rs1) + Value(rs2), den |-> 1]
           [] instr = "FSUB" -> [num |-> Value(rs1) - Value(rs2), den |-> 1]
           [] instr = "FMUL" -> [num |-> Value(rs1) * Value(rs2), den |-> PerUnit]
           [] instr = "FDIV" -> [num |-> PerUnit * Value(rs1) * (IF rs2.s = 1 THEN -1 ELSE 1),
                                 den |-> Magnitude(Rank(rs2))]

\* Rank k is the rounding of mag/den, the magnitude of a number with this sign.
RoundsTo(k, sign, mag, den, mode) ==
  LET M(j) == den * Magnitude(j)
      down == k < InfRank /\ M(k) <= mag /\ mag < M(k + 1)
      up   == (k > 0 /\ M(k - 1) < mag /\ mag <= M(k)) \/ (k = 0 /\ mag = 0)
      nearest(tie) ==
        /\ k = 0 \/ M(k - 1) + M(k) < 2 * mag \/ (tie /\ M(k - 1) + M(k) = 2 * mag)
        /\ k = InfRank \/ 2 * mag < M(k) + M(k + 1)
             \/ (mode = RNE /\ tie /\ 2 * mag = M(k) + M(k + 1))
  IN  CASE mode = RNE -> nearest(k % 2 = 0)
        [] mode = RMM -> nearest(TRUE)
        [] mode = RTZ -> down
        [] mode = RDN -> IF sign = 1 THEN up ELSE down
        [] mode = RUP -> IF sign = 0 THEN up ELSE down

(***************************************************************************)
(* IEEE rounding of the four operations: the result is the one float that  *)
(* the mode selects for the exact result, whenever that lies in the normal *)
(* range.  Exempt are additions whose alignment shift loses bits, for      *)
(* which see RoundsToANeighbour, and directed modes on overflow, where the *)
(* code returns infinity in some units and the largest float in others.    *)
(***************************************************************************)
Arithmetic == instr \in {"FADD", "FSUB", "FMUL", "FDIV"}
NormalResult ==
  /\ Arithmetic
  /\ Finite(rs1) /\ Finite(rs2) /\ (instr = "FDIV" => ~IsZero(rs2))
  /\ Abs(Exact.num) >= Magnitude(One) * Exact.den
  /\ rm \notin {RNE, RMM} => Abs(Exact.num) < Magnitude(InfRank) * Exact.den

AlignmentLosesBits ==
  /\ instr \in {"FADD", "FSUB"} /\ ~IsZero(rs1) /\ ~IsZero(rs2)
  /\ LET diff == Abs(Exp(rs1) - Exp(rs2)) - (NSIG + 1)
         small == IF Exp(rs1) < Exp(rs2) THEN rs1 ELSE rs2
     IN  diff > 0 /\ Sig(small) % Pow2[diff] # 0

RoundsCorrectly ==
  NormalResult /\ ~AlignmentLosesBits
  => /\ ~IsNaN(out)
     /\ out.s = IF Exact.num < 0 THEN 1 ELSE 0
     /\ RoundsTo(Rank(out), out.s, Abs(Exact.num), Exact.den, rm)

RoundsToANeighbour ==
  NormalResult =>
    LET k == Rank(out)
    IN  /\ ~IsNaN(out)
        /\ out.s = IF Exact.num < 0 THEN 1 ELSE 0
        /\ Exact.den * Magnitude(k - 1) < Abs(Exact.num)
        /\ k = InfRank \/ Abs(Exact.num) < Exact.den * Magnitude(k + 1)

(***************************************************************************)
(* The root is one of the two floats around the exact one, in every mode,  *)
(* and the exact one when there is one: rounding looks at the remainder.   *)
(***************************************************************************)
RootOperand == instr = "FSQRT" /\ Finite(rs1) /\ rs1.s = 0 /\ ~IsZero(rs1)
               /\ Exp(rs1) >= 2 * EMIN    \* always so with 8 and 23
Square == PerUnit * Value(rs1)      \* of the exact root, in units

RootIsANeighbour ==
  RootOperand =>
    LET k == Rank(out)
    IN  /\ Finite(out) /\ out.s = 0
        /\ Magnitude(k - 1) * Magnitude(k - 1) < Square
        /\ Square < Magnitude(k + 1) * Magnitude(k + 1)

(***************************************************************************)
(* Comparison is the order of the values; a zero against a subnormal is    *)
(* exempt, as zero takes part with the exponent of a subnormal.            *)
(***************************************************************************)
Comparison == instr \in {"FLT", "FEQ"}
ComparesValues ==
  Comparison /\ {Class(rs1), Class(rs2)} # {"ZERO", "SUB"} =>
    LET vx == Value(rs1)   vy == Value(rs2)
        ordered == ~IsNaN(rs1) /\ ~IsNaN(rs2)
    IN  out = (ordered /\ IF instr = "FLT" THEN vx < vy ELSE vx = vy)

(***************************************************************************)
(* almost_equal_ulps counts the floats between its operands, whatever      *)
(* their signs and although the difference of two far ones overflows.      *)
(***************************************************************************)
UlpsCountFloats ==
  instr = "almost_equal_ulps" /\ Finite(rs1) /\ Finite(rs2) =>
    out = (Cardinality({v \in {Value(x) : x \in {y \in Floats : Finite(y)}} :
                          \/ Value(rs1) < v /\ v <= Value(rs2)
                          \/ Value(rs2) < v /\ v <= Value(rs1)}) <= rm)
=============================================================================
