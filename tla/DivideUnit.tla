----------------------------- MODULE DivideUnit -----------------------------
(***************************************************************************)
(* The integer divider of the execute unit: DIV, DIVU, REM and REMU by     *)
(* restoring division, one quotient bit per clock cycle.  The instruction  *)
(* and its operands stay in the execute unit while aluBusy is raised.      *)
(*                                                                         *)
(* Words are numbers below 2^Width, read as two's complement by the signed *)
(* operations.  The step that sets a bit of the quotient adds the mask,    *)
(* which is what the code's OR does as long as the bit is clear (NoCarry). *)
(***************************************************************************)
EXTENDS Integers

CONSTANTS
    Width,      \* bits of a register, and of the quotient
    Pow         \* the powers of two: 1 << n

ASSUME PowAssumption ==
    /\ Width \in Nat \ {0}
    /\ Pow \in [0..Width -> Nat \ {0}]
    /\ Pow[0] = 1
    /\ \A n \in 0..Width - 1 : Pow[n + 1] = 2 * Pow[n]

VARIABLES
    E,          \* what the execute unit holds: isDIV, the bits of funct3 and both operands
    busy,       \* EE_divBusy
    finished,   \* EE_divFinished
    dividend,   \* EE_dividend
    divisor,    \* EE_divisor
    quotient,   \* EE_quotient
    msk,        \* EE_quotientMsk
    divSign     \* EE_divSign

vars == <<E, busy, finished, dividend, divisor, quotient, msk, divSign>>

Word == 0 .. Pow[Width] - 1
Division == [isDIV : {TRUE}, unsigned : BOOLEAN, rem : BOOLEAN, rs1 : Word, rs2 : Word]
(* Any other instruction, or none; the divider only loads its operands.     *)
Other == [isDIV |-> FALSE, unsigned |-> TRUE, rem |-> FALSE, rs1 |-> 0, rs2 |-> 0]

Negative(w) == w >= Pow[Width - 1]
Minus(w) == IF w = 0 THEN 0 ELSE Pow[Width] - w

aluBusy == busy \/ (E.isDIV /\ ~finished)

-----------------------------------------------------------------------------
(* A signed operation divides the magnitudes. *)
Magnitude(w) == IF ~E.unsigned /\ Negative(w) THEN Minus(w) ELSE w

(* Mistake: the quotient of a division by zero gets a sign. *)
SignOfZero ==
    ~E.unsigned /\ (IF E.rem THEN Negative(E.rs1) ELSE Negative(E.rs1) # Negative(E.rs2))

Sign ==
    /\ ~E.unsigned
    /\ IF E.rem THEN Negative(E.rs1)
       ELSE Negative(E.rs1) # Negative(E.rs2) /\ E.rs2 # 0

(* A divider that is not busy takes the operands of whatever is there.      *)
(* dataHazard_i, which would hold a division back, is only raised by loads, *)
(* stores, atomics and CSR writes in the execute unit.                      *)
Start ==
    LET start == E.isDIV /\ ~finished
    IN  /\ ~busy
        /\ busy' = start
        /\ msk' = IF start THEN Pow[Width - 1] ELSE msk
        /\ dividend' = Magnitude(E.rs1)
        /\ divisor' = Magnitude(E.rs2) * Pow[Width - 1]
        /\ quotient' = 0
        /\ divSign' = Sign
        /\ finished' = (msk = 1)

E_divstepDo == divisor <= dividend

(* Mistake: the flag is not raised after the last step. *)
StepUnfinished ==
    /\ busy
    /\ dividend' = IF E_divstepDo THEN dividend - divisor ELSE dividend
    /\ quotient' = IF E_divstepDo THEN quotient + msk ELSE quotient
    /\ divisor' = divisor \div 2
    /\ msk' = msk \div 2
    /\ busy' = (msk # 1)
    /\ UNCHANGED <<finished, divSign>>

Step ==
    /\ busy
    /\ dividend' = IF E_divstepDo THEN dividend - divisor ELSE dividend
    /\ quotient' = IF E_divstepDo THEN quotient + msk ELSE quotient
    /\ divisor' = divisor \div 2
    /\ msk' = msk \div 2
    /\ busy' = (msk # 1)
    /\ finished' = (msk = 1)
    /\ UNCHANGED divSign

E_aluOutM ==
    LET magnitude == IF E.rem THEN dividend ELSE quotient
    IN  IF divSign THEN Minus(magnitude) ELSE magnitude

(* The next instruction comes when the divider lets it.  A CSR hazard       *)
(* flushes a division that is not done, which then runs on for nothing.     *)
Advance ==
    \/ ~aluBusy /\ E' \in Division \cup {Other}
    \/ aluBusy /\ E' = E
    \/ aluBusy /\ E.isDIV /\ E' = Other

Init ==
    /\ E = Other
    /\ busy = FALSE /\ finished = FALSE
    /\ dividend = 0 /\ divisor = 0 /\ quotient = 0 /\ msk = 0
    /\ divSign = FALSE

Next == (Start \/ Step) /\ Advance
Spec == Init /\ [][Next]_vars /\ WF_vars(Next)

-----------------------------------------------------------------------------
(* The registers stay within their widths. *)
TypeOK ==
    /\ E \in Division \cup {Other}
    /\ {busy, finished, divSign} \subseteq BOOLEAN
    /\ dividend \in Word /\ quotient \in Word
    /\ divisor \in 0 .. (Pow[Width] - 1) * Pow[Width - 1]
    /\ msk \in {0} \cup {Pow[n] : n \in 0 .. Width - 1}

(* What the instructions compute: the quotient rounded towards zero and the *)
(* remainder with the sign of the dividend; all ones and the dividend for a *)
(* division by zero; and the overflowing quotient wraps around.             *)
Value(w) == IF ~E.unsigned /\ Negative(w) THEN w - Pow[Width] ELSE w
AsWord(x) == IF x < 0 THEN x + Pow[Width] ELSE x
Abs(x) == IF x < 0 THEN -x ELSE x
Quotient ==
    LET a == Value(E.rs1)
        b == Value(E.rs2)
    IN  IF b = 0 THEN -1
        ELSE IF (a < 0) = (b < 0) THEN Abs(a) \div Abs(b) ELSE -(Abs(a) \div Abs(b))
Remainder ==
    IF E.rs2 = 0 THEN Value(E.rs1) ELSE Value(E.rs1) - Value(E.rs2) * Quotient

(* A division leaves the execute unit with the result the instruction set   *)
(* asks for, in each of the four operations.                                *)
DivisionCorrect ==
    E.isDIV /\ ~aluBusy => E_aluOutM = AsWord(IF E.rem THEN Remainder ELSE Quotient)

(* The bits of the quotient from the mask's place down are clear.           *)
NoCarry == /\ \E t \in Word : quotient = 2 * msk * t
           /\ quotient + 2 * msk <= Pow[Width]

(* What is left of the dividend and the bits found make up the dividend,    *)
(* and what is left is too small for the bits that were passed.             *)
Working == /\ divSign = Sign
           /\ divisor = Magnitude(E.rs2) * msk
           /\ dividend + Magnitude(E.rs2) * quotient = Magnitude(E.rs1)
           /\ E.rs2 # 0 => dividend < 2 * divisor
           /\ E.rs2 = 0 => quotient + 2 * msk = Pow[Width]
Done == /\ divSign = Sign
        /\ dividend + Magnitude(E.rs2) * quotient = Magnitude(E.rs1)
        /\ E.rs2 # 0 => dividend < Magnitude(E.rs2)
        /\ E.rs2 = 0 => quotient = Pow[Width] - 1
DivideInv ==
    /\ busy => msk # 0 /\ ~finished /\ NoCarry
    /\ ~busy => msk = 0
    /\ E.isDIV => (busy => Working) /\ (finished => Done)

(* No division holds the execute unit for ever.                             *)
DivisionFinishes == []<>~aluBusy
=============================================================================
