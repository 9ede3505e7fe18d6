-------------------------- MODULE DivideUnitProofs --------------------------
(***************************************************************************)
(* The divider computes the quotient and the remainder of its operands,    *)
(* for registers of every width.                                           *)
(***************************************************************************)
EXTENDS DivideUnit, TLAPS

LEMMA PowFacts ==
  /\ Width \in Nat /\ Width - 1 \in 0 .. Width - 1 /\ 0 \in 0 .. Width - 1
  /\ \A n \in 0 .. Width : Pow[n] \in Nat /\ Pow[n] >= 1
  /\ Pow[Width] = 2 * Pow[Width - 1]
<1>1. Width \in Nat /\ Width - 1 \in 0 .. Width - 1 /\ 0 \in 0 .. Width - 1
  BY PowAssumption
<1>2. ASSUME NEW n \in 0 .. Width PROVE Pow[n] \in Nat /\ Pow[n] >= 1
  <2>1. Pow[n] \in Nat \ {0}
    BY PowAssumption
  <2>2. QED
    BY <2>1
<1>3. Pow[(Width - 1) + 1] = 2 * Pow[Width - 1]
  BY <1>1, PowAssumption
<1>4. (Width - 1) + 1 = Width
  BY <1>1
<1>5. QED
  BY <1>1, <1>2, <1>3, <1>4

(* The words and the half of them, as plain numbers.                        *)
LEMMA WordFacts ==
  /\ Pow[Width] \in Nat /\ Pow[Width - 1] \in Nat /\ Pow[Width - 1] >= 1
  /\ Pow[Width] = 2 * Pow[Width - 1]
  /\ \A w : w \in Word <=> w \in Nat /\ w < Pow[Width]
<1>1. /\ Pow[Width] \in Nat /\ Pow[Width - 1] \in Nat /\ Pow[Width - 1] >= 1
      /\ Pow[Width] = 2 * Pow[Width - 1]
  BY PowFacts
<1>2. QED
  BY <1>1 DEF Word

LEMMA MagnitudeFacts ==
  ASSUME NEW w \in Word
  PROVE  /\ Minus(w) \in Word /\ Magnitude(w) \in Word
         /\ w = 0 <=> Magnitude(w) = 0
  BY WordFacts DEF Minus, Magnitude, Negative

LEMMA OperandFacts ==
  ASSUME TypeOK
  PROVE  E.rs1 \in Word /\ E.rs2 \in Word
<1>1. 0 \in Word
  BY WordFacts
<1>2. CASE E \in Division
  BY <1>2 DEF Division
<1>3. CASE E = Other
  BY <1>1, <1>3 DEF Other
<1>4. QED
  BY <1>2, <1>3 DEF TypeOK

LEMMA ProductBound ==
  ASSUME NEW a \in Nat, NEW b \in Nat, NEW m \in Nat, a <= b
  PROVE  a * m \in Nat /\ a * m <= b * m
  OBVIOUS

(* The mask is a power of two and halves until it is shifted out.           *)
LEMMA MaskFacts ==
  ASSUME TypeOK, msk # 0
  PROVE  /\ msk \in Nat /\ msk >= 1
         /\ msk \div 2 \in {0} \cup {Pow[n] : n \in 0 .. Width - 1}
         /\ msk = 1 => msk \div 2 = 0
         /\ msk # 1 => msk = 2 * (msk \div 2) /\ msk \div 2 >= 1 /\ msk \div 2 \in Nat
<1>1. PICK n \in 0 .. Width - 1 : msk = Pow[n]
  BY DEF TypeOK
<1>2. CASE n = 0
  <2>1. msk = 1
    BY <1>1, <1>2, PowAssumption
  <2>2. QED
    BY <2>1
<1>3. CASE n # 0
  <2>1. n - 1 \in 0 .. Width - 1 /\ (n - 1) + 1 = n
    BY <1>3, PowFacts
  <2>2. Pow[n] = 2 * Pow[n - 1]
    BY <2>1, PowAssumption
  <2>3. Pow[n - 1] \in Nat /\ Pow[n - 1] >= 1
    BY <2>1, PowFacts
  <2>4. msk \div 2 = Pow[n - 1]
    BY <1>1, <2>2, <2>3
  <2>5. QED
    BY <1>1, <2>1, <2>2, <2>3, <2>4
<1>4. QED
  BY <1>2, <1>3

-----------------------------------------------------------------------------
(* The invariant. *)

LEMMA DivideInit == Init => TypeOK /\ DivideInv
<1> SUFFICES ASSUME Init PROVE TypeOK /\ DivideInv
  OBVIOUS
<1>1. 0 \in Word /\ (Pow[Width] - 1) * Pow[Width - 1] \in Nat
  <2>1. Pow[Width] - 1 \in Nat
    BY WordFacts
  <2>2. QED
    BY <2>1, WordFacts
<1>2. TypeOK
  <2>1. {busy, finished, divSign} \subseteq BOOLEAN
    BY DEF Init
  <2>2. divisor \in 0 .. (Pow[Width] - 1) * Pow[Width - 1]
    BY <1>1 DEF Init
  <2>3. QED
    BY <1>1, <2>1, <2>2 DEF Init, TypeOK
<1>3. DivideInv
  BY DEF Init, DivideInv, Other
<1>4. QED
  BY <1>2, <1>3

LEMMA AdvanceType ==
  ASSUME TypeOK, Advance
  PROVE  E' \in Division \cup {Other}
  BY DEF TypeOK, Advance

(* A division that is not done is the same one, or flushed, a cycle later.  *)
LEMMA AdvanceKeeps ==
  ASSUME Advance, aluBusy, E'.isDIV
  PROVE  E' = E
  BY DEF Advance, Other

LEMMA StartType ==
  ASSUME TypeOK, Start, Advance
  PROVE  TypeOK'
<1>1. E' \in Division \cup {Other}
  BY AdvanceType
<1>2. /\ Magnitude(E.rs1) \in Word /\ Magnitude(E.rs2) \in Word
  BY OperandFacts, MagnitudeFacts
<1>3. dividend' \in Word /\ quotient' \in Word
  BY <1>2, WordFacts DEF Start
<1>4. divisor' \in 0 .. (Pow[Width] - 1) * Pow[Width - 1]
  <2>1. /\ Magnitude(E.rs2) \in Nat /\ Magnitude(E.rs2) <= Pow[Width] - 1
        /\ Pow[Width] - 1 \in Nat /\ Pow[Width - 1] \in Nat
    BY <1>2, WordFacts
  <2>2. /\ Magnitude(E.rs2) * Pow[Width - 1] \in Nat
        /\ Magnitude(E.rs2) * Pow[Width - 1] <= (Pow[Width] - 1) * Pow[Width - 1]
    BY <2>1, ProductBound
  <2>3. divisor' = Magnitude(E.rs2) * Pow[Width - 1]
    BY DEF Start
  <2>4. (Pow[Width] - 1) * Pow[Width - 1] \in Nat
    BY <2>1
  <2>5. QED
    BY <2>2, <2>3, <2>4
<1>5. msk' \in {0} \cup {Pow[n] : n \in 0 .. Width - 1}
  BY PowFacts DEF Start, TypeOK
<1>6. {busy', finished', divSign'} \subseteq BOOLEAN
  <2>1. busy' \in BOOLEAN
    BY DEF Start
  <2>2. finished' \in BOOLEAN
    BY DEF Start
  <2>3. divSign' \in BOOLEAN
    BY DEF Start, Sign
  <2>4. QED
    BY <2>1, <2>2, <2>3
<1>7. QED
  BY <1>1, <1>3, <1>4, <1>5, <1>6 DEF TypeOK

LEMMA StepType ==
  ASSUME TypeOK, DivideInv, Step, Advance
  PROVE  TypeOK'
<1>1. E' \in Division \cup {Other}
  BY AdvanceType
<1>2. busy /\ msk # 0 /\ NoCarry
  BY DEF Step, DivideInv
<1>3. msk \in Nat /\ msk >= 1 /\ msk' \in {0} \cup {Pow[n] : n \in 0 .. Width - 1}
  BY <1>2, MaskFacts DEF Step
<1>4. /\ dividend \in Nat /\ divisor \in Nat /\ quotient \in Nat /\ dividend < Pow[Width]
      /\ divisor <= (Pow[Width] - 1) * Pow[Width - 1]
      /\ (Pow[Width] - 1) * Pow[Width - 1] \in Nat
  <2>1. Pow[Width] - 1 \in Nat /\ Pow[Width - 1] \in Nat
    BY WordFacts
  <2>2. (Pow[Width] - 1) * Pow[Width - 1] \in Nat
    BY <2>1
  <2>3. QED
    BY <2>2, WordFacts DEF TypeOK
<1>5. dividend' \in Word
  BY <1>4, WordFacts DEF Step, E_divstepDo
<1>6. quotient' \in Word
  <2>1. quotient' = quotient \/ quotient' = quotient + msk
    BY DEF Step
  <2>2. quotient + 2 * msk <= Pow[Width]
    BY <1>2 DEF NoCarry
  <2>3. quotient < Pow[Width] /\ quotient + msk < Pow[Width] /\ quotient + msk \in Nat
    BY <1>3, <1>4, <2>2, WordFacts
  <2>4. QED
    BY <1>4, <2>1, <2>3, WordFacts
<1>7. divisor' \in 0 .. (Pow[Width] - 1) * Pow[Width - 1]
  <2>1. divisor \div 2 \in Nat /\ divisor \div 2 <= divisor
    BY <1>4
  <2>2. divisor' = divisor \div 2
    BY DEF Step
  <2>3. QED
    BY <1>4, <2>1, <2>2
<1>8. {busy', finished', divSign'} \subseteq BOOLEAN
  <2>1. busy' \in BOOLEAN /\ finished' \in BOOLEAN
    BY DEF Step
  <2>2. divSign' \in BOOLEAN
    BY DEF Step, TypeOK
  <2>3. QED
    BY <2>1, <2>2
<1>9. QED
  BY <1>1, <1>3, <1>5, <1>6, <1>7, <1>8 DEF TypeOK

LEMMA StartInv ==
  ASSUME TypeOK, DivideInv, Start, Advance
  PROVE  DivideInv'
<1>1. ~busy /\ msk = 0
  BY DEF Start, DivideInv
<1>2. ~finished'
  <2>1. finished' = (msk = 1)
    BY DEF Start
  <2>2. (msk = 1) = FALSE
    BY <1>1
  <2>3. QED
    BY <2>1, <2>2
<1>3. busy' => msk' = Pow[Width - 1] /\ E.isDIV /\ ~finished
  BY DEF Start
<1>4. ~busy' => msk' = 0
  BY <1>1 DEF Start
<1>5. ASSUME busy' PROVE msk' # 0 /\ NoCarry'
  <2>1. quotient' = 0 /\ msk' = Pow[Width - 1]
    BY <1>3, <1>5 DEF Start
  <2>2. 0 \in Word
    BY WordFacts
  <2>3. 0 = 2 * Pow[Width - 1] * 0 /\ 0 + 2 * Pow[Width - 1] <= Pow[Width] /\ Pow[Width - 1] # 0
    BY WordFacts
  <2>4. \E t \in Word : quotient' = 2 * msk' * t
    BY <2>1, <2>2, <2>3
  <2>5. QED
    BY <2>1, <2>3, <2>4 DEF NoCarry, Word
<1>6. ASSUME busy', E'.isDIV PROVE Working'
  <2>1. aluBusy
    BY <1>3, <1>6 DEF aluBusy
  <2>2. E' = E
    BY <1>6, <2>1, AdvanceKeeps
  <2>3. /\ dividend' = Magnitude(E.rs1) /\ divisor' = Magnitude(E.rs2) * Pow[Width - 1]
        /\ quotient' = 0 /\ msk' = Pow[Width - 1] /\ divSign' = Sign
    BY <1>3, <1>6 DEF Start
  <2>4. /\ Magnitude(E.rs1) \in Nat /\ Magnitude(E.rs1) < Pow[Width]
        /\ Magnitude(E.rs2) \in Nat
        /\ E.rs2 # 0 => Magnitude(E.rs2) >= 1
    BY OperandFacts, MagnitudeFacts, WordFacts
  <2>5. Magnitude(E.rs1) + Magnitude(E.rs2) * 0 = Magnitude(E.rs1)
    BY <2>4
  <2>6. E.rs2 # 0 => Magnitude(E.rs1) < 2 * (Magnitude(E.rs2) * Pow[Width - 1])
    <3>1. SUFFICES ASSUME E.rs2 # 0
                   PROVE  Magnitude(E.rs1) < 2 * (Magnitude(E.rs2) * Pow[Width - 1])
      OBVIOUS
    <3>2. 1 * Pow[Width - 1] <= Magnitude(E.rs2) * Pow[Width - 1]
      BY <2>4, <3>1, WordFacts, ProductBound
    <3>3. QED
      BY <2>4, <3>2, WordFacts
  <2>7. 0 + 2 * Pow[Width - 1] = Pow[Width]
    BY WordFacts
  <2>8. Sign' = Sign /\ Magnitude(E.rs1)' = Magnitude(E.rs1) /\ Magnitude(E.rs2)' = Magnitude(E.rs2)
    BY <2>2 DEF Sign, Magnitude
  <2>9. QED
    BY <2>2, <2>3, <2>5, <2>6, <2>7, <2>8 DEF Working
<1>7. ~busy' => msk' = 0
  BY <1>4
<1>8. busy' => msk' # 0 /\ NoCarry'
  BY <1>5
<1>9. E'.isDIV => (busy' => Working')
  BY <1>6
<1>10. QED
  BY <1>2, <1>7, <1>8, <1>9 DEF DivideInv

(* Part and quotient after a step, in terms of the mask's half p.           *)
LEMMA StepInv ==
  ASSUME TypeOK, DivideInv, Step, Advance
  PROVE  DivideInv'
<1>1. busy /\ msk # 0 /\ ~finished /\ NoCarry
  BY DEF Step, DivideInv
<1>2. /\ msk \in Nat /\ msk >= 1 /\ msk' = msk \div 2
      /\ msk = 1 => msk' = 0
      /\ msk # 1 => msk = 2 * (msk \div 2) /\ msk \div 2 >= 1 /\ msk \div 2 \in Nat
  BY <1>1, MaskFacts DEF Step
<1>3. (busy' <=> msk # 1) /\ (finished' <=> msk = 1)
  BY DEF Step
<1>4. /\ dividend \in Nat /\ quotient \in Nat /\ divisor \in Nat
      /\ Magnitude(E.rs1) \in Nat /\ Magnitude(E.rs2) \in Nat
      /\ E.rs2 # 0 => Magnitude(E.rs2) >= 1
      /\ E.rs2 = 0 => Magnitude(E.rs2) = 0
  <2>1. divisor \in Nat
    BY DEF TypeOK
  <2>2. QED
    BY <2>1, OperandFacts, MagnitudeFacts, WordFacts DEF TypeOK
<1>5. \/ divisor <= dividend /\ dividend' = dividend - divisor /\ quotient' = quotient + msk
      \/ ~(divisor <= dividend) /\ dividend' = dividend /\ quotient' = quotient
  BY DEF Step, E_divstepDo
<1>6. divisor' = divisor \div 2 /\ divSign' = divSign
  BY DEF Step
(* The bit just found is the lowest one set. *)
<1>7. ASSUME busy' PROVE msk' # 0 /\ NoCarry'
  <2> DEFINE p == msk \div 2
  <2>1. p \in Nat /\ p >= 1 /\ msk = 2 * p /\ msk' = p
    BY <1>2, <1>3, <1>7
  <2>2. PICK t \in Word : quotient = 2 * msk * t
    BY <1>1 DEF NoCarry
  <2>3. t \in Nat /\ quotient + 2 * msk <= Pow[Width] /\ Pow[Width] \in Nat
    BY <1>1, WordFacts DEF NoCarry
  <2> HIDE DEF p
  <2>4. \E k \in Nat : quotient' = 2 * p * k
    <3>1. quotient = 2 * p * (2 * t) /\ quotient + msk = 2 * p * (2 * t + 1)
      BY <2>1, <2>2, <2>3
    <3>2. 2 * t \in Nat /\ 2 * t + 1 \in Nat
      BY <2>3
    <3>3. QED
      BY <1>5, <3>1, <3>2
  <2>5. PICK k \in Nat : quotient' = 2 * p * k
    BY <2>4
  <2>6. quotient' \in Nat /\ quotient' + 2 * p <= Pow[Width]
    <3>1. quotient' = quotient \/ quotient' = quotient + msk
      BY <1>5
    <3>2. quotient + 2 * p <= Pow[Width] /\ quotient + msk + 2 * p <= Pow[Width]
      BY <1>4, <2>1, <2>3
    <3>3. quotient + msk \in Nat
      BY <1>2, <1>4
    <3>4. QED
      BY <1>4, <3>1, <3>2, <3>3
  <2>7. k \in Word
    <3>1. PICK q \in Nat : q = quotient'
      BY <2>6
    <3>2. q = 2 * p * k /\ q < Pow[Width]
      BY <2>1, <2>3, <2>5, <2>6, <3>1
    <3>3. 1 * k <= (2 * p) * k
      BY <2>1, ProductBound
    <3>4. k < Pow[Width]
      BY <2>1, <2>3, <3>2, <3>3
    <3>5. QED
      BY <3>4, WordFacts
  <2>8. \E u \in Word : quotient' = 2 * msk' * u
    BY <2>1, <2>5, <2>7
  <2>9. quotient' + 2 * msk' <= Pow[Width] /\ msk' # 0
    BY <2>1, <2>6
  <2>10. QED
    BY <2>8, <2>9 DEF NoCarry, Word
<1>8. ~busy' => msk' = 0
  BY <1>2, <1>3
<1>9. ~(busy' /\ finished')
  BY <1>3
<1>10. ASSUME E'.isDIV
       PROVE  (busy' => Working') /\ (finished' => Done')
  <2>1. E' = E /\ E.isDIV
    BY <1>1, <1>10, AdvanceKeeps DEF aluBusy
  <2>2. Working
    BY <1>1, <2>1 DEF DivideInv
  <2>3. Sign' = Sign /\ Magnitude(E.rs1)' = Magnitude(E.rs1) /\ Magnitude(E.rs2)' = Magnitude(E.rs2)
    BY <2>1 DEF Sign, Magnitude
  <2>4. PICK A \in Nat, B \in Nat : A = Magnitude(E.rs1) /\ B = Magnitude(E.rs2)
    BY <1>4
  <2>5. /\ divSign' = Sign'
        /\ divisor = B * msk
        /\ dividend + B * quotient = A
        /\ E.rs2 # 0 => dividend < 2 * divisor
        /\ E.rs2 = 0 => B = 0 /\ quotient + 2 * msk = Pow[Width]
    BY <1>4, <1>6, <2>2, <2>3, <2>4 DEF Working
  <2>6. PICK d \in Nat, q \in Nat :
          /\ d = dividend' /\ q = quotient'
          /\ \/ divisor <= dividend /\ d = dividend - divisor /\ q = quotient + msk
             \/ ~(divisor <= dividend) /\ d = dividend /\ q = quotient
    BY <1>2, <1>4, <1>5
  <2>7. d + B * q = A
    <3>1. CASE d = dividend - divisor /\ q = quotient + msk
      <4>1. B * q = B * quotient + B * msk
        BY <1>2, <1>4, <3>1
      <4>2. QED
        BY <1>2, <1>4, <2>5, <3>1, <4>1
    <3>2. CASE d = dividend /\ q = quotient
      BY <2>5, <3>2
    <3>3. QED
      BY <2>6, <3>1, <3>2
  <2>8. E.rs2 # 0 => d < divisor
    BY <1>4, <2>5, <2>6
  <2>9. E.rs2 = 0 => q + msk = Pow[Width]
    <3>1. SUFFICES ASSUME E.rs2 = 0 PROVE q + msk = Pow[Width]
      OBVIOUS
    <3>2. divisor = 0
      BY <1>2, <2>5, <3>1
    <3>3. q = quotient + msk
      BY <1>4, <2>6, <3>2
    <3>4. QED
      BY <1>2, <1>4, <2>5, <3>1, <3>3
  <2>10. ASSUME busy' PROVE Working'
    <3> DEFINE p == msk \div 2
    <3>1. p \in Nat /\ msk = 2 * p /\ msk' = p
      BY <1>2, <1>3, <2>10
    <3> HIDE DEF p
    <3>2. B * p \in Nat /\ divisor = 2 * (B * p)
      BY <2>4, <2>5, <3>1
    <3>3. divisor' = B * p
      BY <1>6, <3>2
    <3>4. E.rs2 = 0 => q + 2 * p = Pow[Width]
      BY <2>9, <3>1
    <3>5. E.rs2 # 0 => d < 2 * (B * p)
      BY <2>8, <3>2
    <3>6. QED
      BY <2>1, <2>3, <2>4, <2>5, <2>6, <2>7, <3>1, <3>3, <3>4, <3>5 DEF Working
  <2>11. ASSUME finished' PROVE Done'
    <3>1. msk = 1
      BY <1>3, <2>11
    <3>2. divisor = B
      BY <2>4, <2>5, <3>1
    <3>3. E.rs2 = 0 => q = Pow[Width] - 1
      BY <2>9, <3>1, WordFacts
    <3>4. QED
      BY <2>1, <2>3, <2>4, <2>5, <2>6, <2>7, <2>8, <3>2, <3>3 DEF Done
  <2>12. QED
    BY <2>10, <2>11
<1>11. QED
  BY <1>7, <1>8, <1>9, <1>10 DEF DivideInv

LEMMA DivideStep == TypeOK /\ DivideInv /\ [Next]_vars => TypeOK' /\ DivideInv'
<1> SUFFICES ASSUME TypeOK, DivideInv, [Next]_vars PROVE TypeOK' /\ DivideInv'
  OBVIOUS
<1>1. CASE Start /\ Advance
  BY <1>1, StartType, StartInv
<1>2. CASE Step /\ Advance
  BY <1>2, StepType, StepInv
<1>3. CASE UNCHANGED vars
  BY <1>3 DEF vars, TypeOK, DivideInv, Working, Done, NoCarry, Sign, Magnitude
<1>4. QED
  BY <1>1, <1>2, <1>3 DEF Next

(* The divider's registers keep within their widths, whatever the width.    *)
THEOREM DivideTypeCorrect == Spec => []TypeOK
  BY DivideInit, DivideStep, PTL DEF Spec

(* The loop invariant of the restoring division, for registers of every     *)
(* width.                                                                   *)
THEOREM DivideInvariant == Spec => []DivideInv
  BY DivideInit, DivideStep, PTL DEF Spec

-----------------------------------------------------------------------------
(* The result. *)

LEMMA DivUnique ==
  ASSUME NEW a \in Nat, NEW b \in Nat, b >= 1, NEW q \in Nat, NEW r \in Nat,
         a = r + b * q, r < b
  PROVE  a \div b = q
  OBVIOUS

(* The signed values of the operands and their magnitudes.                  *)
LEMMA ValueFacts ==
  ASSUME NEW w \in Word
  PROVE  /\ Magnitude(w) \in Nat
         /\ Value(w) = IF ~E.unsigned /\ Negative(w) THEN -Magnitude(w) ELSE Magnitude(w)
         /\ ~E.unsigned /\ Negative(w) => Magnitude(w) >= 1 /\ Magnitude(w) <= Pow[Width - 1]
         /\ Magnitude(w) < Pow[Width]
         /\ Abs(Value(w)) = Magnitude(w)
  BY WordFacts DEF Value, Magnitude, Minus, Negative, Abs

(* A magnitude and a sign bit make up the word of a number.                 *)
LEMMA SignedWord ==
  ASSUME NEW m \in Nat, m < Pow[Width]
  PROVE  Minus(m) = AsWord(-m) /\ m = AsWord(m)
  BY WordFacts DEF Minus, AsWord

LEMMA DoneCorrect == TypeOK /\ DivideInv => DivisionCorrect
<1> SUFFICES ASSUME TypeOK, DivideInv, E.isDIV, ~aluBusy
             PROVE  E_aluOutM = AsWord(IF E.rem THEN Remainder ELSE Quotient)
  BY DEF DivisionCorrect
<1>1. Done
  BY DEF aluBusy, DivideInv
<1>2. E.rs1 \in Word /\ E.rs2 \in Word
  BY OperandFacts
<1> DEFINE A == Magnitude(E.rs1)
           B == Magnitude(E.rs2)
           a == Value(E.rs1)
           b == Value(E.rs2)
           na == ~E.unsigned /\ Negative(E.rs1)
           nb == ~E.unsigned /\ Negative(E.rs2)
           q == quotient
           r == dividend
<1>3. /\ A \in Nat /\ A < Pow[Width] /\ a = (IF na THEN -A ELSE A) /\ (na => A >= 1) /\ Abs(a) = A
      /\ B \in Nat /\ B < Pow[Width] /\ b = (IF nb THEN -B ELSE B) /\ (nb => B >= 1) /\ Abs(b) = B
  BY <1>2, ValueFacts
<1>4. /\ q \in Nat /\ q < Pow[Width] /\ r \in Nat /\ r < Pow[Width]
  BY WordFacts DEF TypeOK
<1>5. /\ r + B * q = A
      /\ E.rs2 # 0 => r < B /\ B >= 1
      /\ E.rs2 = 0 => B = 0 /\ q = Pow[Width] - 1
  BY <1>1, <1>2, <1>3, MagnitudeFacts DEF Done
<1>6. /\ (a < 0 <=> na) /\ (b < 0 <=> nb) /\ (b = 0 <=> E.rs2 = 0)
  BY <1>3, <1>5
<1>7. divSign <=> IF E.rem THEN na ELSE (na <=> ~nb) /\ E.rs2 # 0
  BY <1>1 DEF Done, Sign, Negative
<1>8. E_aluOutM = IF divSign THEN Minus(IF E.rem THEN r ELSE q) ELSE IF E.rem THEN r ELSE q
  BY DEF E_aluOutM
<1>9. /\ Minus(q) = AsWord(-q) /\ q = AsWord(q)
      /\ Minus(r) = AsWord(-r) /\ r = AsWord(r)
  BY <1>4, SignedWord
<1> HIDE DEF na, nb, A, B, a, b, q, r
<1>10. CASE E.rs2 = 0
  <2>1. Quotient = -1
    BY <1>6, <1>10 DEF Quotient, a, b
  <2>2. AsWord(-1) = Pow[Width] - 1
    BY WordFacts DEF AsWord
  <2>3. Remainder = a /\ r = A
    BY <1>3, <1>4, <1>5, <1>10 DEF Remainder, a
  <2>4. CASE E.rem
    BY <1>3, <1>7, <1>8, <1>9, <2>3, <2>4
  <2>5. CASE ~E.rem
    BY <1>5, <1>7, <1>8, <1>10, <2>1, <2>2, <2>5
  <2>6. QED
    BY <2>4, <2>5
<1>11. CASE E.rs2 # 0
  <2>1. A \div B = q
    BY <1>3, <1>4, <1>5, <1>11, DivUnique
  <2>2. Quotient = IF na <=> nb THEN q ELSE -q
    BY <1>3, <1>6, <1>11, <2>1 DEF Quotient, a, b
  <2>3. Remainder = IF na THEN -r ELSE r
    <3>1. Remainder = a - b * Quotient
      BY <1>11 DEF Remainder, a, b
    <3>2. CASE na /\ nb
      <4>1. b * q = -(B * q)
        BY <1>3, <1>4, <3>2
      <4>2. QED
        BY <1>3, <1>4, <1>5, <2>2, <3>1, <3>2, <4>1
    <3>3. CASE na /\ ~nb
      <4>1. b * (-q) = -(B * q)
        BY <1>3, <1>4, <3>3
      <4>2. QED
        BY <1>3, <1>4, <1>5, <2>2, <3>1, <3>3, <4>1
    <3>4. CASE ~na /\ nb
      <4>1. b * (-q) = B * q
        BY <1>3, <1>4, <3>4
      <4>2. QED
        BY <1>3, <1>4, <1>5, <2>2, <3>1, <3>4, <4>1
    <3>5. CASE ~na /\ ~nb
      BY <1>3, <1>4, <1>5, <2>2, <3>1, <3>5
    <3>6. QED
      BY <3>2, <3>3, <3>4, <3>5
  <2>4. CASE E.rem
    BY <1>7, <1>8, <1>9, <2>3, <2>4
  <2>5. CASE ~E.rem
    BY <1>7, <1>8, <1>9, <1>11, <2>2, <2>5
  <2>6. QED
    BY <2>4, <2>5
<1>12. QED
  BY <1>10, <1>11

(* A division leaves the execute unit with the quotient or the remainder    *)
(* the instruction set asks for, for registers of every width.              *)
THEOREM DividesCorrectly == Spec => []DivisionCorrect
  BY DoneCorrect, DivideTypeCorrect, DivideInvariant, PTL
=============================================================================
