------------------------------ MODULE FpuProofs ------------------------------
(***************************************************************************)
(* The results of the FPU are those that IEEE rounding and order ask for,  *)
(* in every format.  From the loops and shifts of the datapath to the      *)
(* invariants of Fpu: powers of two, magnitudes and their ranks, rounding, *)
(* product, quotient, root, sum, comparison, and the specification.        *)
(***************************************************************************)
EXTENDS Fpu, TLAPS, FiniteSetTheorems

(* Every set of natural numbers has a least one: what the provers can use   *)
(* of induction.                                                            *)
LEMMA Least ==
    ASSUME NEW T, T \subseteq Nat, T # {}
    PROVE  \E n \in T : \A m \in T : n <= m
<1>1. IsWellFoundedOn(OpToRel(<, Nat), Nat)
  BY NatLessThanWellFounded
<1>2. PICK n \in T : \A m \in T : <<m, n>> \notin OpToRel(<, Nat)
  BY <1>1, WFMin
<1>3. \A m \in T : m < n => <<m, n>> \in OpToRel(<, Nat)
  BY DEF OpToRel
<1>4. n \in T /\ \A m \in T : ~(m < n)
  BY <1>2, <1>3
<1> QED BY <1>4, SMT

(* A function on the natural numbers may be defined by its first value and  *)
(* the step from each to the next.  Its values up to n:                     *)
StartsAs(g, n, S, base, step) ==
    g \in [0 .. n -> S] /\ g[0] = base /\ \A k \in 0 .. n - 1 : g[k + 1] = step[g[k]]

(* Such a beginning exists for every n.                                     *)
LEMMA StartsExist ==
    ASSUME NEW S, NEW base \in S, NEW step \in [S -> S], NEW n \in Nat
    PROVE  \E g : StartsAs(g, n, S, base, step)
<1> DEFINE T == {m \in Nat : ~\E g : StartsAs(g, m, S, base, step)}
<1> SUFFICES ASSUME T # {} PROVE FALSE
  OBVIOUS
<1>1. PICK m \in T : \A k \in T : m <= k
  <2>1. T \subseteq Nat
    OBVIOUS
  <2> HIDE DEF T
  <2> QED BY <2>1, Least
<1>2. m \in Nat /\ ~\E g : StartsAs(g, m, S, base, step)
  OBVIOUS
<1>3. m - 1 \in Nat => \E g : StartsAs(g, m - 1, S, base, step)
  BY <1>1, <1>2
<1> HIDE DEF T
<1>4. m # 0
  <2>1. StartsAs([k \in 0 .. 0 |-> base], 0, S, base, step)
    BY DEF StartsAs
  <2> QED BY <1>2, <2>1
<1>5. PICK g : StartsAs(g, m - 1, S, base, step)
  BY <1>2, <1>3, <1>4
<1> DEFINE h == [k \in 0 .. m |-> IF k = m THEN step[g[m - 1]] ELSE g[k]]
<1>6. g \in [0 .. m - 1 -> S] /\ g[0] = base /\ \A k \in 0 .. (m - 1) - 1 : g[k + 1] = step[g[k]]
  BY <1>5 DEF StartsAs
<1>7. h \in [0 .. m -> S] /\ h[0] = base
  BY <1>2, <1>4, <1>6
<1>8. ASSUME NEW k \in 0 .. m - 1 PROVE h[k + 1] = step[h[k]]
  BY <1>2, <1>4, <1>6
<1>9. StartsAs(h, m, S, base, step)
  BY <1>7, <1>8 DEF StartsAs
<1> QED BY <1>2, <1>9

(* Two beginnings agree as far as both go.                                  *)
LEMMA StartsAgree ==
    ASSUME NEW S, NEW base \in S, NEW step \in [S -> S], NEW n \in Nat, NEW g, NEW h,
           StartsAs(g, n, S, base, step), StartsAs(h, n + 1, S, base, step), NEW k \in 0 .. n
    PROVE  g[k] = h[k]
<1> DEFINE T == {m \in 0 .. n : g[m] # h[m]}
<1> SUFFICES ASSUME T # {} PROVE FALSE
  OBVIOUS
<1>1. PICK m \in T : \A i \in T : m <= i
  <2>1. T \subseteq Nat
    OBVIOUS
  <2> HIDE DEF T
  <2> QED BY <2>1, Least
<1>2. m \in 0 .. n /\ g[m] # h[m] /\ (m - 1 \in 0 .. n => g[m - 1] = h[m - 1])
  BY <1>1
<1> HIDE DEF T
<1>3. m # 0
  BY <1>2 DEF StartsAs
<1>4. m - 1 \in 0 .. n - 1 /\ m - 1 \in 0 .. (n + 1) - 1
  BY <1>2, <1>3
<1>5. g[(m - 1) + 1] = step[g[m - 1]] /\ h[(m - 1) + 1] = step[h[m - 1]]
  BY <1>4 DEF StartsAs
<1> QED BY <1>2, <1>4, <1>5

(* A whole function that starts and steps like this.                        *)
Runs(f, S, base, step) ==
    f \in [Nat -> S] /\ f[0] = base /\ \A n \in Nat : f[n + 1] = step[f[n]]

(* So the whole function exists.                                            *)
LEMMA Recursion ==
    ASSUME NEW S, NEW base \in S, NEW step \in [S -> S]
    PROVE  \E f : Runs(f, S, base, step)
<1> DEFINE pick(n) == CHOOSE g : StartsAs(g, n, S, base, step)
           f == [n \in Nat |-> pick(n)[n]]
<1>1. \A n \in Nat : StartsAs(pick(n), n, S, base, step)
  BY StartsExist
<1> HIDE DEF pick
<1>2. f \in [Nat -> S] /\ f[0] = base
  BY <1>1 DEF StartsAs
<1>3. ASSUME NEW n \in Nat PROVE f[n + 1] = step[f[n]]
  <2>1. pick(n)[n] = pick(n + 1)[n]
    BY <1>1, StartsAgree
  <2>2. pick(n + 1)[n + 1] = step[pick(n + 1)[n]]
    BY <1>1 DEF StartsAs
  <2> QED BY <2>1, <2>2
<1> QED BY <1>2, <1>3 DEF Runs

(* Pow2 is the function its definition describes.                           *)
LEMMA Pow2Def == Pow2 = [n \in Nat |-> IF n = 0 THEN 1 ELSE 2 * Pow2[n - 1]]
<1>1. PICK f \in [Nat -> Nat] : f[0] = 1 /\ \A n \in Nat : f[n + 1] = [x \in Nat |-> 2 * x][f[n]]
  <2> DEFINE double == [x \in Nat |-> 2 * x]
  <2>1. double \in [Nat -> Nat] /\ 1 \in Nat
    OBVIOUS
  <2> HIDE DEF double
  <2>2. \E f : Runs(f, Nat, 1, double)
    BY <2>1, Recursion
  <2>3. PICK f : Runs(f, Nat, 1, double)
    BY <2>2
  <2> QED BY <2>3 DEF Runs, double
<1>2. ASSUME NEW n \in Nat PROVE f[n] = IF n = 0 THEN 1 ELSE 2 * f[n - 1]
  <2>1. CASE n # 0
    <3>1. f[(n - 1) + 1] = [x \in Nat |-> 2 * x][f[n - 1]]
      BY <1>1, <2>1
    <3> QED BY <2>1, <3>1
  <2> QED BY <1>1, <2>1
<1>3. f = [n \in Nat |-> IF n = 0 THEN 1 ELSE 2 * f[n - 1]]
  BY <1>2
<1> QED BY <1>3 DEF Pow2

(* Powers of two are positive and double at each step.                      *)
LEMMA Pow2Facts ==
    /\ Pow2[0] = 1
    /\ \A n \in Nat : Pow2[n] \in Nat \ {0} /\ Pow2[n + 1] = 2 * Pow2[n]
<1>1. Pow2[0] = 1 /\ \A n \in Nat : Pow2[n + 1] = 2 * Pow2[n]
  BY Pow2Def
<1>2. ASSUME NEW n \in Nat PROVE Pow2[n] \in Nat \ {0}
  <2> DEFINE T == {m \in Nat : Pow2[m] \notin Nat \ {0}}
  <2> SUFFICES ASSUME T # {} PROVE FALSE
    OBVIOUS
  <2>1. PICK m \in T : \A i \in T : m <= i
    <3> HIDE DEF T
    <3> QED BY Least DEF T
  <2>2. m # 0
    BY <1>1
  <2>3. Pow2[m - 1] \in Nat \ {0} /\ Pow2[(m - 1) + 1] = 2 * Pow2[m - 1]
    BY <1>1, <2>1, <2>2
  <2> QED BY <2>2, <2>3
<1> QED BY <1>1, <1>2

(* Exponents add.                                                           *)
LEMMA Pow2Sum == \A m, n \in Nat : Pow2[m + n] = Pow2[m] * Pow2[n]
<1> SUFFICES ASSUME NEW m \in Nat PROVE \A n \in Nat : Pow2[m + n] = Pow2[m] * Pow2[n]
  OBVIOUS
<1> DEFINE T == {n \in Nat : Pow2[m + n] # Pow2[m] * Pow2[n]}
<1> SUFFICES ASSUME T # {} PROVE FALSE
  OBVIOUS
<1>1. PICK n \in T : \A i \in T : n <= i
  <2> HIDE DEF T
  <2> QED BY Least DEF T
<1>2. n \in Nat /\ n # 0 /\ Pow2[m + n] # Pow2[m] * Pow2[n]
  BY Pow2Facts
<1>3. Pow2[m + (n - 1)] = Pow2[m] * Pow2[n - 1]
  BY <1>1, <1>2
<1>4. Pow2[(n - 1) + 1] = 2 * Pow2[n - 1] /\ Pow2[(m + (n - 1)) + 1] = 2 * Pow2[m + (n - 1)]
  BY <1>2, Pow2Facts
<1>5. Pow2[m] \in Nat /\ Pow2[n - 1] \in Nat
  BY <1>2, Pow2Facts
<1>6. Pow2[n] = 2 * Pow2[n - 1] /\ Pow2[m + n] = 2 * Pow2[m + (n - 1)]
  BY <1>2, <1>4
<1> HIDE DEF T
<1> QED BY <1>2, <1>3, <1>5, <1>6

(* Powers of two grow with their exponent.                                  *)
LEMMA Pow2Mono ==
    ASSUME NEW m \in Nat, NEW n \in Nat
    PROVE  /\ m < n => 2 * Pow2[m] <= Pow2[n]
           /\ m <= n => Pow2[m] <= Pow2[n]
<1>1. ASSUME m < n PROVE 2 * Pow2[m] <= Pow2[n]
  <2> DEFINE d == n - m - 1
  <2>1. d \in Nat /\ n = m + (d + 1) /\ d + 1 \in Nat
    BY <1>1
  <2> HIDE DEF d
  <2>2. Pow2[n] = Pow2[m] * Pow2[d + 1] /\ Pow2[d + 1] = 2 * Pow2[d]
    BY <2>1, Pow2Sum, Pow2Facts
  <2>3. Pow2[m] \in Nat /\ Pow2[d] \in Nat \ {0}
    BY <2>1, Pow2Facts
  <2> QED BY <2>2, <2>3
<1>2. Pow2[m] \in Nat /\ Pow2[n] \in Nat
  BY Pow2Facts
<1>3. m <= n => m < n \/ m = n
  OBVIOUS
<1> QED BY <1>1, <1>2, <1>3

(* Multiplication by a natural number keeps the order.                      *)
LEMMA TimesMono ==
    ASSUME NEW a \in Int, NEW b \in Int, NEW c \in Nat
    PROVE  /\ a <= b => a * c <= b * c
           /\ a < b /\ c > 0 => a * c < b * c
           /\ a * c < b * c => a < b
           /\ a * c <= b * c /\ c > 0 => a <= b
           /\ a * c = b * c /\ c > 0 => a = b
<1>1. a <= b => a * c <= b * c
  OBVIOUS
<1>2. a < b /\ c > 0 => a * c < b * c
  OBVIOUS
<1>3. b <= a => b * c <= a * c
  OBVIOUS
<1>4. b < a /\ c > 0 => b * c < a * c
  OBVIOUS
<1> QED BY <1>1, <1>2, <1>3, <1>4

(* Quotient and remainder of a division.                                    *)
LEMMA Division ==
    ASSUME NEW n \in Int, NEW d \in Nat \ {0}
    PROVE  /\ n \div d \in Int /\ n % d \in 0 .. d - 1
           /\ n = (n \div d) * d + (n % d)
           /\ n \in Nat => n \div d \in Nat
  OBVIOUS

(* They are the only ones.                                                  *)
LEMMA DivisionUnique ==
    ASSUME NEW n \in Int, NEW d \in Nat \ {0}, NEW q \in Int, NEW r \in 0 .. d - 1, n = q * d + r
    PROVE  n \div d = q /\ n % d = r
<1>1. n \div d \in Int /\ n % d \in 0 .. d - 1 /\ n = (n \div d) * d + (n % d)
  BY Division
<1>2. (n \div d) * d < (q + 1) * d /\ q * d < ((n \div d) + 1) * d
  BY <1>1
<1>3. n \div d < q + 1 /\ q < (n \div d) + 1
  BY <1>1, <1>2, TimesMono
<1> QED BY <1>1, <1>3

(* The constants of a format, from the assumption on NEXP and NSIG.         *)
LEMMA FormatFacts ==
    /\ NEXP \in Nat /\ NSIG \in Nat /\ NSIG >= 1 /\ NEXP >= 2
    /\ One \in Nat /\ One >= 2 /\ One = 2 * Pow2[NSIG - 1] /\ One = Pow2[NSIG]
    /\ W = 2 * One /\ FracOnes = One - 1
    /\ EMAX \in Nat /\ EMAX >= 1 /\ BIAS = EMAX /\ EMIN = 1 - EMAX /\ ExpOnes = 2 * EMAX + 1
    /\ PerUnit = Pow2[NSIG + EMAX - 1] /\ PerUnit \in Nat \ {0}
    /\ InfRank = ExpOnes * One
<1>1. NEXP \in Nat /\ NSIG \in Nat /\ NSIG >= 1 /\ NEXP >= 2
  BY FormatAssumption
<1>2. NSIG - 1 \in Nat /\ NEXP - 1 \in Nat /\ NEXP - 2 \in Nat
  BY <1>1
<1>3. /\ Pow2[(NSIG - 1) + 1] = 2 * Pow2[NSIG - 1] /\ Pow2[NSIG - 1] \in Nat \ {0}
      /\ Pow2[(NEXP - 1) + 1] = 2 * Pow2[NEXP - 1]
      /\ Pow2[(NEXP - 2) + 1] = 2 * Pow2[NEXP - 2] /\ Pow2[NEXP - 2] \in Nat \ {0}
  BY <1>2, Pow2Facts
<1>4. Pow2[NSIG] = 2 * Pow2[NSIG - 1] /\ Pow2[NEXP] = 2 * Pow2[NEXP - 1] /\ Pow2[NEXP - 1] = 2 * Pow2[NEXP - 2]
  BY <1>1, <1>3
<1>5. EMAX \in Nat /\ EMAX >= 1 /\ BIAS = EMAX /\ EMIN = 1 - EMAX /\ ExpOnes = 2 * EMAX + 1
  BY <1>3, <1>4 DEF EMAX, BIAS, EMIN, ExpOnes
<1>6. NSIG + EMAX - 1 \in Nat /\ NSIG - EMIN = NSIG + EMAX - 1
  BY <1>1, <1>5
<1>7. PerUnit = Pow2[NSIG + EMAX - 1] /\ PerUnit \in Nat \ {0}
  BY <1>6, Pow2Facts DEF PerUnit
<1> QED BY <1>1, <1>3, <1>4, <1>5, <1>7 DEF One, W, FracOnes, InfRank

(* Magnitudes: u + 1 is the biased exponent of a normal float, s its        *)
(* significand; s = 2 * One is the next exponent's first.                   *)
LEMMA MagnitudeAt ==
    ASSUME NEW u \in Nat, NEW s \in One .. 2 * One
    PROVE  Magnitude((u + 1) * One + (s - One)) = s * Pow2[u]
<1>1. One \in Nat /\ One >= 2
  BY FormatFacts
<1>2. CASE s < 2 * One
  <2> DEFINE k == (u + 1) * One + (s - One)
  <2>1. k \in Int /\ One \in Nat \ {0} /\ u + 1 \in Int /\ s - One \in 0 .. One - 1
    BY <1>1, <1>2
  <2>2. k \div One = u + 1 /\ k % One = s - One
    BY <2>1, DivisionUnique
  <2>3. (u + 1) * One >= One
    BY <1>1
  <2>4. k >= One
    BY <1>1, <1>2, <2>3
  <2> HIDE DEF k
  <2> QED BY <1>1, <2>1, <2>2, <2>4 DEF Magnitude, k
<1>3. CASE s = 2 * One
  <2> DEFINE k == (u + 1) * One + (s - One)
  <2>0. k = (u + 2) * One + 0
    BY <1>1, <1>3
  <2>1. k \in Int /\ One \in Nat \ {0} /\ u + 2 \in Int /\ 0 \in 0 .. One - 1
    BY <1>1, <1>3
  <2>2. k \div One = u + 2 /\ k % One = 0
    BY <2>0, <2>1, DivisionUnique
  <2>3. (u + 1) * One >= One
    BY <1>1
  <2>4. k >= One
    BY <1>1, <1>3, <2>3
  <2>5. Pow2[u + 1] = 2 * Pow2[u] /\ Pow2[u] \in Nat
    BY Pow2Facts
  <2>6. Magnitude(k) = One * Pow2[u + 1]
    <3> HIDE DEF k
    <3> QED BY <1>1, <2>1, <2>2, <2>4 DEF Magnitude
  <2> QED BY <1>1, <1>3, <2>5, <2>6
<1> QED BY <1>1, <1>2, <1>3

(* The subnormals are the ranks below One.                                  *)
LEMMA MagnitudeBelow == ASSUME NEW k \in Int, k < One PROVE Magnitude(k) = k
  BY DEF Magnitude

(* Every other rank is a binade u and a significand s.                      *)
LEMMA RankSplit ==
    ASSUME NEW k \in Nat, k >= One
    PROVE  \E u \in Nat, s \in One .. 2 * One - 1 : k = (u + 1) * One + (s - One)
<1>1. One \in Nat \ {0}
  BY FormatFacts
<1> DEFINE e == k \div One
           f == k % One
<1>2. e \in Int /\ f \in 0 .. One - 1 /\ k = e * One + f
  BY <1>1, Division
<1> HIDE DEF e, f
<1>3. e >= 1
  <2>1. CASE e <= 0
    <3>1. e * One <= 0 * One
      BY <1>1, <1>2, <2>1, TimesMono
    <3> QED BY <1>1, <1>2, <3>1
  <2> QED BY <1>2, <2>1
<1>4. e - 1 \in Nat /\ f + One \in One .. 2 * One - 1 /\ k = ((e - 1) + 1) * One + ((f + One) - One)
  BY <1>1, <1>2, <1>3
<1> QED BY <1>4

(* Magnitudes are natural numbers that grow from rank to rank.              *)
LEMMA MagnitudeStep ==
    ASSUME NEW k \in Nat
    PROVE  Magnitude(k) \in Nat /\ Magnitude(k) < Magnitude(k + 1)
<1>1. One \in Nat /\ One >= 2
  BY FormatFacts
<1>2. CASE k >= One
  <2>1. PICK u \in Nat, s \in One .. 2 * One - 1 : k = (u + 1) * One + (s - One)
    BY <1>2, RankSplit
  <2>2. s \in One .. 2 * One /\ s + 1 \in One .. 2 * One /\ k + 1 = (u + 1) * One + ((s + 1) - One)
    BY <1>1, <2>1
  <2>3. Magnitude(k) = s * Pow2[u] /\ Magnitude(k + 1) = (s + 1) * Pow2[u]
    BY <2>1, <2>2, MagnitudeAt
  <2>4. Pow2[u] \in Nat \ {0} /\ s \in Nat
    BY <1>1, <2>1, Pow2Facts
  <2> HIDE <1>2
  <2> QED BY <2>3, <2>4
<1>3. CASE k < One
  <2>1. Magnitude(k) = k
    BY <1>3, MagnitudeBelow
  <2>2. CASE k + 1 < One
    BY <2>1, <2>2, MagnitudeBelow
  <2>3. CASE k + 1 = One
    <3>1. 0 \in Nat /\ One \in One .. 2 * One /\ k + 1 = (0 + 1) * One + (One - One)
      BY <1>1, <2>3
    <3>2. Magnitude(k + 1) = One * Pow2[0]
      BY <3>1, MagnitudeAt
    <3> QED BY <1>1, <1>3, <2>1, <3>2, Pow2Facts
  <2> QED BY <1>1, <1>3, <2>2, <2>3
<1> QED BY <1>1, <1>2, <1>3

(* So their order is that of the ranks.                                     *)
LEMMA MagnitudeMono ==
    ASSUME NEW j \in Nat, NEW k \in Nat
    PROVE  (Magnitude(j) < Magnitude(k)) <=> (j < k)
<1>1. \A m, n \in Nat : m < n => Magnitude(m) < Magnitude(n)
  <2> SUFFICES ASSUME NEW m \in Nat PROVE \A n \in Nat : m < n => Magnitude(m) < Magnitude(n)
    OBVIOUS
  <2> DEFINE T == {n \in Nat : m < n /\ ~(Magnitude(m) < Magnitude(n))}
  <2> SUFFICES ASSUME T # {} PROVE FALSE
    OBVIOUS
  <2>1. PICK n \in T : \A i \in T : n <= i
    <3> HIDE DEF T
    <3> QED BY Least DEF T
  <2>2. n \in Nat /\ m < n /\ ~(Magnitude(m) < Magnitude(n)) /\ n - 1 \in Nat
    OBVIOUS
  <2>3. n - 1 = m \/ Magnitude(m) < Magnitude(n - 1)
    BY <2>1, <2>2
  <2>4. /\ Magnitude(n - 1) \in Nat /\ Magnitude(n - 1) < Magnitude((n - 1) + 1)
        /\ Magnitude(m) \in Nat /\ Magnitude(n) \in Nat
    BY <2>2, MagnitudeStep
  <2>5. (n - 1) + 1 = n
    BY <2>2
  <2> HIDE DEF T
  <2> QED BY <2>2, <2>3, <2>4, <2>5
<1>2. Magnitude(j) \in Nat /\ Magnitude(k) \in Nat
  BY MagnitudeStep
<1>3. j < k \/ j = k \/ k < j
  OBVIOUS
<1> QED BY <1>1, <1>2, <1>3

(* Rounding.  The bits kept are q and one unit of their last place is B.    *)
RoundingBits(q, rb, st, mag, B) ==
    /\ q * B <= mag /\ mag < (q + 1) * B
    /\ rb = (q * B + (q + 1) * B <= 2 * mag)
    /\ st = (mag # q * B /\ 2 * mag # q * B + (q + 1) * B)

(* What FRound adds to the significand.                                     *)
Up(sign, q, rb, st, mode) == IF RoundUp(sign, q, rb, st, mode) THEN 1 ELSE 0

(* When FRound rounds up, by mode.                                          *)
LEMMA RoundUpByMode ==
    ASSUME NEW sign \in {0, 1}, NEW q \in Nat, NEW rb \in BOOLEAN, NEW st \in BOOLEAN
    PROVE  /\ RoundUp(sign, q, rb, st, RNE) <=> rb /\ (st \/ q % 2 = 1)
           /\ RoundUp(sign, q, rb, st, RMM) <=> rb
           /\ RoundUp(sign, q, rb, st, RDN) <=> sign = 1 /\ (rb \/ st)
           /\ RoundUp(sign, q, rb, st, RUP) <=> sign = 0 /\ (rb \/ st)
           /\ ~RoundUp(sign, q, rb, st, RTZ)
<1>1. RoundUp(sign, q, rb, st, RNE) <=> rb /\ (st \/ q % 2 = 1)
  BY DEF RoundUp, RNE, RDN, RUP, RMM
<1>2. RoundUp(sign, q, rb, st, RMM) <=> rb
  BY DEF RoundUp, RNE, RDN, RUP, RMM
<1>3. RoundUp(sign, q, rb, st, RDN) <=> sign = 1 /\ (rb \/ st)
  BY DEF RoundUp, RNE, RDN, RUP, RMM
<1>4. RoundUp(sign, q, rb, st, RUP) <=> sign = 0 /\ (rb \/ st)
  BY DEF RoundUp, RNE, RDN, RUP, RMM
<1>5. ~RoundUp(sign, q, rb, st, RTZ)
  BY DEF RoundUp, RNE, RDN, RUP, RMM, RTZ
<1> QED BY <1>1, <1>2, <1>3, <1>4, <1>5

(* What is known when a mode stays at the lower of two ranks ...            *)
Staying(k, sign, mag, mode, a, b, c) ==
    /\ k \in Nat /\ k > 0 /\ k < InfRank /\ mag \in Nat /\ sign \in {0, 1} /\ mode \in RoundingModes
    /\ a \in Nat /\ b \in Nat /\ c \in Nat /\ c < a /\ a <= mag /\ mag < b
    /\ mode = RNE => 2 * mag < a + b \/ (2 * mag = a + b /\ k % 2 = 0)
    /\ mode = RMM => 2 * mag < a + b
    /\ mode = RDN /\ sign = 1 => mag = a
    /\ mode = RUP /\ sign = 0 => mag = a

(* The lower of two floats is the rounded one when a mode does not round up *)
(* ...                                                                      *)
LEMMA StaysDown ==
    ASSUME NEW k, NEW sign, NEW mag, NEW den \in Nat, NEW mode, 
           Staying(k, sign, mag, mode, den * Magnitude(k), den * Magnitude(k + 1), den * Magnitude(k - 1))
    PROVE  RoundsTo(k, sign, mag, den, mode)
<1> DEFINE a == den * Magnitude(k)
           b == den * Magnitude(k + 1)
           c == den * Magnitude(k - 1)
<1>1. Staying(k, sign, mag, mode, a, b, c)
  OBVIOUS
<1>2. a = den * Magnitude(k) /\ b = den * Magnitude(k + 1) /\ c = den * Magnitude(k - 1)
  OBVIOUS
<1> HIDE DEF a, b, c
<1>3. CASE mode = RNE
  BY <1>1, <1>2, <1>3 DEF Staying, RoundsTo, RNE, RMM, RTZ, RDN, RUP
<1>4. CASE mode = RMM
  BY <1>1, <1>2, <1>4 DEF Staying, RoundsTo, RNE, RMM, RTZ, RDN, RUP
<1>5. CASE mode = RTZ
  BY <1>1, <1>2, <1>5 DEF Staying, RoundsTo, RNE, RMM, RTZ, RDN, RUP
<1>6. CASE mode = RDN
  BY <1>1, <1>2, <1>6 DEF Staying, RoundsTo, RNE, RMM, RTZ, RDN, RUP
<1>7. CASE mode = RUP
  BY <1>1, <1>2, <1>7 DEF Staying, RoundsTo, RNE, RMM, RTZ, RDN, RUP
<1> QED BY <1>1, <1>3, <1>4, <1>5, <1>6, <1>7 DEF Staying, RoundingModes

(* ... and when it goes up to the next one.                                 *)
Rising(k, sign, mag, mode, a, b, c) ==
    /\ k \in Nat /\ k < InfRank /\ InfRank \in Nat /\ mag \in Nat /\ sign \in {0, 1} /\ mode \in RoundingModes
    /\ a \in Nat /\ b \in Nat /\ c \in Nat /\ b < c /\ a < mag /\ mag < b
    /\ mode = RNE => a + b < 2 * mag \/ (2 * mag = a + b /\ (k + 1) % 2 = 0)
    /\ mode = RMM => a + b <= 2 * mag
    /\ mode # RTZ /\ (mode = RDN => sign = 1) /\ (mode = RUP => sign = 0)

(* ... and the upper one when it does.                                      *)
LEMMA GoesUp ==
    ASSUME NEW k, NEW sign, NEW mag, NEW den \in Nat, NEW mode,
           Rising(k, sign, mag, mode, den * Magnitude(k), den * Magnitude(k + 1), den * Magnitude(k + 2))
    PROVE  RoundsTo(k + 1, sign, mag, den, mode)
<1> DEFINE a == den * Magnitude(k)
           b == den * Magnitude(k + 1)
           c == den * Magnitude(k + 2)
<1>1. Rising(k, sign, mag, mode, a, b, c)
  OBVIOUS
<1>2. a = den * Magnitude(k) /\ b = den * Magnitude(k + 1) /\ c = den * Magnitude(k + 2)
  OBVIOUS
<1> HIDE DEF a, b, c
<1>8. (k + 1) - 1 = k /\ (k + 1) + 1 = k + 2 /\ k + 1 > 0 /\ k + 1 \in Nat
  BY <1>1 DEF Rising
<1>3. CASE mode = RNE
  BY <1>1, <1>2, <1>3, <1>8 DEF Rising, RoundsTo, RNE, RMM, RTZ, RDN, RUP
<1>4. CASE mode = RMM
  BY <1>1, <1>2, <1>4, <1>8 DEF Rising, RoundsTo, RNE, RMM, RTZ, RDN, RUP
<1>6. CASE mode = RDN
  BY <1>1, <1>2, <1>6, <1>8 DEF Rising, RoundsTo, RNE, RMM, RTZ, RDN, RUP
<1>7. CASE mode = RUP
  BY <1>1, <1>2, <1>7, <1>8 DEF Rising, RoundsTo, RNE, RMM, RTZ, RDN, RUP
<1> QED BY <1>1, <1>3, <1>4, <1>6, <1>7 DEF Rising, RoundingModes

(* A float whose significand is q, u exponents above the least one, and the *)
(* rank that rounding gives it.                                             *)
RankAt(u, q) == (u + 1) * One + (q - One)

(* The magnitudes around the rank of binade u and significand q.            *)
LEMMA RanksAround ==
    ASSUME NEW u \in Nat, NEW q \in One .. 2 * One - 1, u + 1 < ExpOnes
    PROVE  /\ RankAt(u, q) \in Nat /\ RankAt(u, q) > 0 /\ RankAt(u, q) < InfRank /\ InfRank \in Nat
           /\ RankAt(u, q) % 2 = q % 2 /\ (RankAt(u, q) + 1) % 2 = (q + 1) % 2
           /\ Magnitude(RankAt(u, q)) = q * Pow2[u]
           /\ Magnitude(RankAt(u, q) + 1) = (q + 1) * Pow2[u]
           /\ Magnitude(RankAt(u, q) - 1) \in Nat /\ Magnitude(RankAt(u, q) + 2) \in Nat
           /\ Magnitude(RankAt(u, q) - 1) < Magnitude(RankAt(u, q))
           /\ Magnitude(RankAt(u, q) + 1) < Magnitude(RankAt(u, q) + 2)
<1> DEFINE k == RankAt(u, q)
           h == Pow2[NSIG - 1]
<1>1. One = 2 * h /\ h \in Nat /\ One \in Nat /\ One >= 2 /\ ExpOnes \in Nat /\ InfRank = ExpOnes * One
  BY FormatFacts, Pow2Facts
<1>2. k = (u + 1) * One + (q - One) /\ k = (u * h) * 2 + q
  <2>1. (u + 1) * One = u * One + One /\ u * (2 * h) = (u * h) * 2
    BY <1>1
  <2>2. k = (u + 1) * One + (q - One)
    BY DEF RankAt
  <2> QED BY <1>1, <2>1, <2>2
<1>3. u * h \in Nat
  BY <1>1
<1> HIDE DEF k, h
<1>4. k \in Nat /\ k > 0
  BY <1>1, <1>2, <1>3
<1>5. k % 2 = q % 2 /\ (k + 1) % 2 = (q + 1) % 2
  BY <1>1, <1>2, <1>3
<1>6. k < InfRank /\ InfRank \in Nat
  <2>1. u + 2 <= ExpOnes /\ u + 2 \in Int
    BY <1>1
  <2>2. (u + 2) * One <= ExpOnes * One
    BY <1>1, <2>1, TimesMono
  <2>3. (u + 2) * One = (u + 1) * One + One
    BY <1>1
  <2> QED BY <1>1, <1>2, <2>2, <2>3
<1>7. Magnitude(k) = q * Pow2[u] /\ Magnitude(k + 1) = (q + 1) * Pow2[u]
  <2>1. q \in One .. 2 * One /\ q + 1 \in One .. 2 * One /\ k + 1 = (u + 1) * One + ((q + 1) - One)
    BY <1>1, <1>2
  <2> QED BY <1>2, <2>1, MagnitudeAt
<1>8. /\ Magnitude(k - 1) \in Nat /\ Magnitude(k - 1) < Magnitude((k - 1) + 1)
      /\ Magnitude(k + 1) \in Nat /\ Magnitude(k + 1) < Magnitude((k + 1) + 1)
      /\ Magnitude(k + 2) \in Nat
  <2>1. k - 1 \in Nat /\ k + 1 \in Nat /\ k + 2 \in Nat
    BY <1>4
  <2> QED BY <2>1, MagnitudeStep
<1>9. (k - 1) + 1 = k /\ (k + 1) + 1 = k + 2
  BY <1>4
<1> QED BY <1>4, <1>5, <1>6, <1>7, <1>8, <1>9 DEF k

(* The rank FRound selects is the rounding of what its bits came from.      *)
LEMMA Rounding ==
    ASSUME NEW u \in Nat, NEW q \in One .. 2 * One - 1, u + 1 < ExpOnes,
           NEW sign \in {0, 1}, NEW rb \in BOOLEAN, NEW st \in BOOLEAN, NEW mode \in RoundingModes,
           NEW mag \in Nat, NEW den \in Nat \ {0}, RoundingBits(q, rb, st, mag, den * Pow2[u])
    PROVE  RoundsTo(RankAt(u, q) + Up(sign, q, rb, st, mode), sign, mag, den, mode)
<1> DEFINE k == RankAt(u, q)
           a == den * Magnitude(k)
           b == den * Magnitude(k + 1)
           c == den * Magnitude(k - 1)
           d == den * Magnitude(k + 2)
<1>1. One \in Nat /\ One >= 2 /\ Pow2[u] \in Nat \ {0} /\ q \in Nat
  BY FormatFacts, Pow2Facts
<1>2. /\ k \in Nat /\ k > 0 /\ k < InfRank /\ InfRank \in Nat
      /\ k % 2 = q % 2 /\ (k + 1) % 2 = (q + 1) % 2
      /\ Magnitude(k) = q * Pow2[u] /\ Magnitude(k + 1) = (q + 1) * Pow2[u]
      /\ Magnitude(k - 1) \in Nat /\ Magnitude(k + 2) \in Nat
      /\ Magnitude(k - 1) < Magnitude(k) /\ Magnitude(k + 1) < Magnitude(k + 2)
  BY RanksAround
<1>3. /\ a = q * (den * Pow2[u]) /\ b = (q + 1) * (den * Pow2[u])
  <2>1. \A x, y, z \in Nat : x * (y * z) = y * (x * z)
    OBVIOUS
  <2> QED BY <1>1, <1>2, <2>1
<1>4. a \in Nat /\ b \in Nat /\ c \in Nat /\ d \in Nat
  <2>1. \A x, y \in Nat : x * y \in Nat
    OBVIOUS
  <2>2. Magnitude(k) \in Nat /\ Magnitude(k + 1) \in Nat
    BY <1>1, <1>2, <2>1
  <2> QED BY <1>2, <2>1, <2>2
<1>5. c < a /\ b < d
  BY <1>1, <1>2
<1>6. /\ a <= mag /\ mag < b
      /\ rb <=> a + b <= 2 * mag
      /\ st <=> mag # a /\ 2 * mag # a + b
  BY <1>3 DEF RoundingBits
<1>0. a = den * Magnitude(k) /\ b = den * Magnitude(k + 1) /\ c = den * Magnitude(k - 1) /\ d = den * Magnitude(k + 2)
  OBVIOUS
<1> HIDE DEF k, a, b, c, d
<1>7. CASE ~RoundUp(sign, q, rb, st, mode)
  <2>1. Up(sign, q, rb, st, mode) = 0
    BY <1>7 DEF Up
  <2>2. mode = RNE => 2 * mag < a + b \/ (2 * mag = a + b /\ k % 2 = 0)
    <3> SUFFICES ASSUME mode = RNE PROVE 2 * mag < a + b \/ (2 * mag = a + b /\ k % 2 = 0)
      OBVIOUS
    <3>1. ~(rb /\ (st \/ q % 2 = 1))
      BY <1>1, <1>7, RoundUpByMode
    <3>2. q % 2 = 1 \/ q % 2 = 0
      BY <1>1
    <3>3. ~rb => 2 * mag < a + b
      BY <1>4, <1>6
    <3>4. rb /\ ~st /\ q % 2 = 0 => 2 * mag = a + b /\ k % 2 = 0
      BY <1>2, <1>4, <1>6
    <3> QED BY <3>1, <3>2, <3>3, <3>4
  <2>3. /\ mode = RMM => 2 * mag < a + b
        /\ mode = RDN /\ sign = 1 => mag = a
        /\ mode = RUP /\ sign = 0 => mag = a
    BY <1>1, <1>4, <1>6, <1>7, RoundUpByMode
  <2>4. Staying(k, sign, mag, mode, a, b, c)
    BY <1>2, <1>4, <1>5, <1>6, <2>2, <2>3 DEF Staying
  <2>5. RoundsTo(k, sign, mag, den, mode)
    BY <2>4, StaysDown DEF a, b, c
  <2> QED BY <1>2, <2>1, <2>5 DEF k
<1>8. CASE RoundUp(sign, q, rb, st, mode)
  <2>1. Up(sign, q, rb, st, mode) = 1
    BY <1>8 DEF Up
  <2>2. ASSUME mode = RNE PROVE rb /\ (a + b < 2 * mag \/ (2 * mag = a + b /\ (k + 1) % 2 = 0))
    <3>1. rb /\ (st \/ q % 2 = 1)
      BY <1>1, <1>8, <2>2, RoundUpByMode
    <3>2. q % 2 = 1 => (q + 1) % 2 = 0
      BY <1>1
    <3> QED BY <1>2, <1>4, <1>6, <3>1, <3>2
  <2>3. /\ mode = RMM => rb
        /\ mode # RTZ
        /\ mode = RDN => sign = 1 /\ (rb \/ st)
        /\ mode = RUP => sign = 0 /\ (rb \/ st)
    BY <1>1, <1>8, RoundUpByMode
  <2>4. rb \/ st
    BY <2>2, <2>3 DEF RoundingModes
  <2>5. a < mag
    BY <1>4, <1>6, <2>4
  <2>6. Rising(k, sign, mag, mode, a, b, d)
    BY <1>2, <1>4, <1>5, <1>6, <2>2, <2>3, <2>5 DEF Rising
  <2>7. RoundsTo(k + 1, sign, mag, den, mode)
    BY <2>6, GoesUp DEF a, b, d
  <2> QED BY <2>1, <2>7 DEF k
<1> QED BY <1>7, <1>8

(* The fields packed from the result of FRound have that rank, also after a *)
(* carry.                                                                   *)
LEMMA Packed ==
    ASSUME NEW u \in Nat, NEW q \in One .. 2 * One - 1, u + 1 < ExpOnes,
           NEW sign \in {0, 1}, NEW rb \in BOOLEAN, NEW st \in BOOLEAN, NEW mode,
           NEW r, r = FRound(sign, q, rb, st, u + EMIN, mode)
    PROVE  /\ Rank(Float(sign, r.exp + BIAS, r.sig % One)) = RankAt(u, q) + Up(sign, q, rb, st, mode)
           /\ Float(sign, r.exp + BIAS, r.sig % One).s = sign
           /\ ~IsNaN(Float(sign, r.exp + BIAS, r.sig % One))
<1>1. /\ One \in Nat /\ One >= 2 /\ ExpOnes \in Nat /\ EMIN \in Int /\ BIAS \in Int /\ EMIN + BIAS = 1
      /\ One \in Nat \ {0}
  BY FormatFacts
<1> DEFINE y == Float(sign, r.exp + BIAS, r.sig % One)
<1>2. CASE q + Up(sign, q, rb, st, mode) < 2 * One
  <2>1. Up(sign, q, rb, st, mode) \in {0, 1}
    BY DEF Up
  <2> DEFINE p == q + Up(sign, q, rb, st, mode)
  <2>2. r = [sig |-> p, exp |-> u + EMIN]
    BY <1>1, <1>2 DEF FRound, Up
  <2>3. p \in One .. 2 * One - 1
    BY <1>1, <1>2, <2>1
  <2>4. p % One = p - One
    <3> HIDE DEF p
    <3>1. p \in Int /\ 1 \in Int /\ p = 1 * One + (p - One) /\ p - One \in 0 .. One - 1
      BY <1>1, <2>3
    <3> QED BY <1>1, <3>1, DivisionUnique, SMTT(30)
  <2>5. y = [s |-> sign, e |-> u + 1, f |-> p - One]
    BY <1>1, <2>2, <2>4 DEF Float
  <2>6. Rank(y) = (u + 1) * One + (p - One) /\ y.s = sign /\ y.e # ExpOnes
    BY <2>5 DEF Rank
  <2>7. ~IsNaN(y)
    BY <2>6 DEF IsNaN, Class
  <2>8. (u + 1) * One \in Int
    BY <1>1
  <2>9. (u + 1) * One + (p - One) = RankAt(u, q) + Up(sign, q, rb, st, mode)
    BY <1>1, <2>1, <2>8 DEF RankAt
  <2> QED BY <2>6, <2>7, <2>9
<1>3. CASE ~(q + Up(sign, q, rb, st, mode) < 2 * One)
  <2>1. Up(sign, q, rb, st, mode) = 1 /\ q = 2 * One - 1 /\ RoundUp(sign, q, rb, st, mode)
    BY <1>1, <1>3 DEF Up
  <2>2. r = [sig |-> One, exp |-> u + EMIN + 1]
    BY <1>1, <2>1 DEF FRound
  <2>3. One % One = 0
    BY <1>1
  <2>4. y = [s |-> sign, e |-> u + 2, f |-> 0]
    BY <1>1, <2>2, <2>3 DEF Float
  <2>5. Rank(y) = (u + 2) * One + 0 /\ y.s = sign /\ y.f = 0
    BY <2>4 DEF Rank
  <2>6. ~(0 >= One \div 2)
    BY <1>1
  <2>7. ~IsNaN(y)
    BY <2>5, <2>6 DEF IsNaN, Class
  <2>8. (u + 1) * One \in Int /\ (u + 2) * One = (u + 1) * One + One
    BY <1>1
  <2>9. (u + 2) * One = RankAt(u, q) + Up(sign, q, rb, st, mode)
    BY <1>1, <2>1, <2>8 DEF RankAt
  <2> QED BY <1>1, <2>5, <2>7, <2>8, <2>9
<1> QED BY <1>2, <1>3

(* A float that is the rounding of mag / den.                               *)
Rounded(y, sign, mag, den, mode) ==
    ~IsNaN(y) /\ y.s = sign /\ Rank(y) \in Nat /\ RoundsTo(Rank(y), y.s, mag, den, mode)

(* So the packed float is the rounded one.                                  *)
LEMMA RoundedFloat ==
    ASSUME NEW u \in Nat, NEW q \in One .. 2 * One - 1, u + 1 < ExpOnes,
           NEW sign \in {0, 1}, NEW rb \in BOOLEAN, NEW st \in BOOLEAN, NEW mode \in RoundingModes,
           NEW mag \in Nat, NEW den \in Nat \ {0}, RoundingBits(q, rb, st, mag, den * Pow2[u]),
           NEW r, r = FRound(sign, q, rb, st, u + EMIN, mode)
    PROVE  Rounded(Float(sign, r.exp + BIAS, r.sig % One), sign, mag, den, mode)
<1> DEFINE y == Float(sign, r.exp + BIAS, r.sig % One)
<1>1. Rank(y) = RankAt(u, q) + Up(sign, q, rb, st, mode) /\ y.s = sign /\ ~IsNaN(y)
  BY Packed
<1>2. RoundsTo(RankAt(u, q) + Up(sign, q, rb, st, mode), sign, mag, den, mode)
  BY Rounding
<1>4. RankAt(u, q) + Up(sign, q, rb, st, mode) \in Nat
  <2>1. RankAt(u, q) \in Nat
    BY RanksAround
  <2>2. Up(sign, q, rb, st, mode) \in {0, 1}
    BY DEF Up
  <2> QED BY <2>1, <2>2
<1> HIDE DEF y
<1>3. Rounded(y, sign, mag, den, mode)
  BY <1>1, <1>2, <1>4 DEF Rounded
<1> QED BY <1>3 DEF y

(* A magnitude of the format rounds to itself in every mode.                *)
LEMMA RoundsExact ==
    ASSUME NEW k \in Nat, k > 0, k < InfRank, NEW den \in Nat \ {0}, NEW sign \in {0, 1},
           NEW mode \in RoundingModes
    PROVE  RoundsTo(k, sign, den * Magnitude(k), den, mode)
<1> DEFINE a == den * Magnitude(k)
           b == den * Magnitude(k + 1)
           c == den * Magnitude(k - 1)
<1>1. /\ Magnitude(k) \in Nat /\ Magnitude(k + 1) \in Nat /\ Magnitude(k - 1) \in Nat
      /\ Magnitude(k) < Magnitude(k + 1) /\ Magnitude(k - 1) < Magnitude(k)
  <2>1. k - 1 \in Nat /\ (k - 1) + 1 = k
    OBVIOUS
  <2> QED BY <2>1, MagnitudeStep
<1>2. \A x, y, z \in Nat : x * y \in Nat /\ (y < z /\ x > 0 => x * y < x * z)
  OBVIOUS
<1>3. a \in Nat /\ b \in Nat /\ c \in Nat /\ a < b /\ c < a
  BY <1>1, <1>2
<1> HIDE DEF a, b, c
<1>4. Staying(k, sign, a, mode, a, b, c)
  BY <1>3 DEF Staying
<1> QED BY <1>4, StaysDown DEF a, b, c

(* Infinity is the rounding to nearest of all that is too large.            *)
LEMMA Overflow ==
    ASSUME NEW mag \in Nat, NEW den \in Nat \ {0}, NEW sign \in {0, 1}, NEW mode \in {RNE, RMM},
           Magnitude(InfRank) * den <= mag
    PROVE  RoundsTo(InfRank, sign, mag, den, mode)
<1>1. InfRank \in Nat /\ InfRank > 0
  BY FormatFacts
<1>2. Magnitude(InfRank - 1) \in Nat /\ Magnitude(InfRank) \in Nat /\ Magnitude(InfRank - 1) < Magnitude(InfRank)
  <2>1. InfRank - 1 \in Nat /\ (InfRank - 1) + 1 = InfRank
    BY <1>1
  <2> QED BY <1>1, <2>1, MagnitudeStep
<1> DEFINE a == den * Magnitude(InfRank - 1)
           b == den * Magnitude(InfRank)
<1>3. \A x, y, z \in Nat : x * y \in Nat /\ x * y = y * x /\ (y < z /\ x > 0 => x * y < x * z)
  OBVIOUS
<1>4. a \in Nat /\ b \in Nat /\ a < b /\ b <= mag
  BY <1>2, <1>3
<1> HIDE DEF a, b
<1>5. a + b < 2 * mag
  BY <1>4
<1>6. den * Magnitude(InfRank - 1) + den * Magnitude(InfRank) < 2 * mag
  BY <1>5 DEF a, b
<1>7. CASE mode = RNE
  BY <1>6, <1>7 DEF RoundsTo, RNE, RMM, RTZ, RDN, RUP
<1>8. CASE mode = RMM
  BY <1>6, <1>8 DEF RoundsTo, RNE, RMM, RTZ, RDN, RUP
<1> QED BY <1>7, <1>8

(* The position of the leading 1. *)
LEMMA LeadingOneFacts ==
    ASSUME NEW n \in Nat, n > 0, NEW b \in Nat, b <= NEXP + 2 * NSIG + 1, n < Pow2[b]
    PROVE  /\ LeadingOne(n) \in Nat /\ LeadingOne(n) < b
           /\ Pow2[LeadingOne(n)] <= n /\ n < 2 * Pow2[LeadingOne(n)]
<1> DEFINE T == {m \in Nat : n < Pow2[m]}
           p == LeadingOne(n)
           D == 0 .. NEXP + 2 * NSIG
<1>1. PICK m \in T : \A i \in T : m <= i
  <2>1. T \subseteq Nat /\ T # {}
    OBVIOUS
  <2> HIDE DEF T
  <2> QED BY <2>1, Least
<1>2. m \in Nat /\ n < Pow2[m] /\ m # 0 /\ m <= b
  BY <1>1, Pow2Facts
<1>3. m - 1 \in Nat /\ ~(n < Pow2[m - 1]) /\ Pow2[(m - 1) + 1] = 2 * Pow2[m - 1]
  BY <1>1, <1>2, Pow2Facts
<1>4. Pow2[m - 1] \in Nat \ {0} /\ Pow2[m - 1] <= n /\ n < 2 * Pow2[m - 1]
  BY <1>2, <1>3, Pow2Facts
<1> HIDE DEF T
<1>5. n = 1 * Pow2[m - 1] + (n - Pow2[m - 1]) /\ n - Pow2[m - 1] \in 0 .. Pow2[m - 1] - 1
  BY <1>4
<1>6. n \div Pow2[m - 1] = 1 /\ m - 1 \in D
  BY <1>2, <1>3, <1>4, <1>5, DivisionUnique, FormatFacts, SMTT(30)
<1>7. p = CHOOSE i \in D : n \div Pow2[i] = 1
  BY DEF LeadingOne
<1>8. p \in D /\ n \div Pow2[p] = 1
  BY <1>6, <1>7
<1>9. p \in Nat
  BY <1>8, FormatFacts
<1> HIDE DEF p, D
<1>10. Pow2[p] \in Nat \ {0}
  BY <1>9, Pow2Facts
<1>11. \A d \in Nat \ {0} : n \div d = 1 => d <= n /\ n < 2 * d
  <2> SUFFICES ASSUME NEW d \in Nat \ {0}, n \div d = 1 PROVE d <= n /\ n < 2 * d
    OBVIOUS
  <2>1. n = (n \div d) * d + (n % d) /\ n % d \in 0 .. d - 1
    BY Division
  <2> QED BY <2>1
<1>12. Pow2[p] <= n /\ n < 2 * Pow2[p]
  BY <1>8, <1>10, <1>11
<1>13. p < b
  <2>1. CASE b <= p
    <3>1. Pow2[b] <= Pow2[p] /\ Pow2[b] \in Nat
      BY <1>9, <2>1, Pow2Mono, Pow2Facts
    <3> QED BY <1>10, <1>12, <3>1
  <2> QED BY <1>9, <2>1
<1> QED BY <1>9, <1>12, <1>13 DEF p

(* What FClass says of the fields of a float.                               *)
LEMMA ClassFacts ==
    ASSUME NEW x \in Floats
    PROVE  /\ x.s \in {0, 1} /\ x.e \in Nat /\ x.e <= ExpOnes /\ x.f \in Nat /\ x.f < One
           /\ Class(x) \in {"INF", "QNAN", "SNAN", "ZERO", "SUB", "NORM"}
           /\ Finite(x) <=> Class(x) \in {"ZERO", "SUB", "NORM"}
           /\ Class(x) = "NORM" => x.e \in 1 .. ExpOnes - 1
           /\ Class(x) = "SUB" => x.e = 0 /\ x.f > 0
           /\ Class(x) = "ZERO" => x.e = 0 /\ x.f = 0
           /\ Class(x) = "INF" => x.e = ExpOnes /\ x.f = 0
           /\ x = Float(x.s, x.e, x.f)
<1>1. /\ x.s \in {0, 1} /\ x.e \in Nat /\ x.e <= ExpOnes /\ x.f \in Nat /\ x.f < One
      /\ x = Float(x.s, x.e, x.f)
  BY FormatFacts DEF Floats, Float
<1>2. /\ Class(x) \in {"INF", "QNAN", "SNAN", "ZERO", "SUB", "NORM"}
      /\ Finite(x) <=> Class(x) \in {"ZERO", "SUB", "NORM"}
  BY <1>1, FormatFacts DEF Class, Finite
<1>3. /\ Class(x) = "NORM" => x.e \in 1 .. ExpOnes - 1
      /\ Class(x) = "SUB" => x.e = 0 /\ x.f > 0
      /\ Class(x) = "ZERO" => x.e = 0 /\ x.f = 0
      /\ Class(x) = "INF" => x.e = ExpOnes /\ x.f = 0
  BY <1>1, FormatFacts DEF Class
<1> QED BY <1>1, <1>2, <1>3

(* Exponent and normalised significand of a number, and its magnitude from  *)
(* them.                                                                    *)
LEMMA Significand ==
    ASSUME NEW x \in Floats, Class(x) \in {"NORM", "SUB"}
    PROVE  /\ Sig(x) \in One .. 2 * One - 1
           /\ Exp(x) \in Int /\ Exp(x) <= EMAX /\ Exp(x) - EMIN + NSIG \in Nat
           /\ (Class(x) = "NORM") <=> (Exp(x) >= EMIN)
           /\ One * Magnitude(Rank(x)) = Sig(x) * Pow2[Exp(x) - EMIN + NSIG]
           /\ Rank(x) \in Nat /\ Rank(x) > 0 /\ Rank(x) < InfRank
<1>1. /\ One \in Nat /\ One >= 2 /\ ExpOnes \in Nat /\ BIAS \in Int /\ EMIN = 1 - BIAS /\ NSIG \in Nat
      /\ ExpOnes - 1 - BIAS = EMAX /\ InfRank = ExpOnes * One /\ One = Pow2[NSIG] /\ BIAS = EMAX /\ EMAX >= 1
  BY FormatFacts
<1>2. CASE Class(x) = "NORM"
  <2> DEFINE u == x.e - 1
             s == One + x.f
  <2>1. x.e \in Int /\ x.f \in Nat /\ x.f < One /\ u \in Nat /\ u + 2 <= ExpOnes
    BY <1>1, <1>2, ClassFacts
  <2>2. Sig(x) = s /\ Exp(x) = x.e - BIAS
    BY <1>2 DEF Sig, Exp
  <2>3. s \in One .. 2 * One - 1 /\ s \in One .. 2 * One
    BY <1>1, <2>1
  <2>4. Exp(x) - EMIN + NSIG = u + NSIG /\ Exp(x) <= EMAX /\ Exp(x) >= EMIN /\ u + NSIG \in Nat
    BY <1>1, <2>1, <2>2
  <2>5. Rank(x) = (u + 1) * One + (s - One)
    BY <1>1, <2>1 DEF Rank
  <2>6. Magnitude(Rank(x)) = s * Pow2[u]
    BY <2>1, <2>3, <2>5, MagnitudeAt
  <2>7. Pow2[u + NSIG] = Pow2[u] * One /\ Pow2[u] \in Nat
    BY <1>1, <2>1, Pow2Sum, Pow2Facts
  <2>8. /\ (u + 1) * One \in Nat /\ (u + 1) * One >= One /\ (u + 2) * One <= ExpOnes * One
        /\ (u + 2) * One = (u + 1) * One + One
    BY <1>1, <2>1, TimesMono
  <2>9. Rank(x) \in Nat /\ Rank(x) > 0 /\ Rank(x) < InfRank
    BY <1>1, <2>1, <2>5, <2>8
  <2> HIDE DEF u, s
  <2>10. One * (s * Pow2[u]) = s * (Pow2[u] * One)
    BY <1>1, <2>3, <2>7
  <2> QED BY <1>1, <1>2, <2>1, <2>2, <2>3, <2>4, <2>6, <2>7, <2>9, <2>10
<1>3. CASE Class(x) = "SUB"
  <2> DEFINE p == LeadingOne(x.f)
             P == Pow2[p]
             Q == Pow2[NSIG - p]
  <2>1. x.e = 0 /\ x.f \in Nat /\ x.f > 0 /\ x.f < One
    BY <1>3, ClassFacts
  <2>2. p \in Nat /\ p < NSIG /\ P <= x.f /\ x.f < 2 * P
    <3>1. NSIG \in Nat /\ NSIG <= NEXP + 2 * NSIG + 1 /\ x.f < Pow2[NSIG]
      BY <1>1, <2>1, FormatFacts
    <3> QED BY <2>1, <3>1, LeadingOneFacts
  <2>5. Sig(x) = x.f * Q /\ Exp(x) = EMIN - (NSIG - p)
    BY <1>3 DEF Sig, Exp
  <2> HIDE DEF p
  <2>3. NSIG - p \in Nat /\ p + (NSIG - p) = NSIG
    BY <1>1, <2>2
  <2>4. P \in Nat /\ Q \in Nat \ {0} /\ P * Q = One
    <3>1. Pow2[p + (NSIG - p)] = Pow2[p] * Pow2[NSIG - p]
      BY <2>2, <2>3, Pow2Sum
    <3> QED BY <1>1, <2>2, <2>3, <3>1, Pow2Facts
  <2>6. Exp(x) - EMIN + NSIG = p /\ Exp(x) < EMIN /\ Exp(x) \in Int
    BY <1>1, <2>2, <2>5
  <2> HIDE DEF P, Q
  <2>7. P * Q <= x.f * Q /\ x.f * Q < (2 * P) * Q /\ (2 * P) * Q = 2 * (P * Q)
    BY <2>1, <2>2, <2>4
  <2>8. x.f * Q \in One .. 2 * One - 1
    BY <1>1, <2>1, <2>4, <2>7
  <2>9. Rank(x) = x.f /\ Magnitude(Rank(x)) = x.f
    BY <1>1, <2>1, MagnitudeBelow DEF Rank
  <2>10. (P * Q) * x.f = (x.f * Q) * P
    BY <2>1, <2>4
  <2>11. One <= InfRank
    BY <1>1
  <2> QED BY <1>1, <1>3, <2>1, <2>2, <2>4, <2>5, <2>6, <2>8, <2>9, <2>10, <2>11 DEF P
<1> QED BY <1>2, <1>3

(* The values of the others.                                                *)
LEMMA RankBelow ==
    ASSUME NEW x \in Floats, ~IsNaN(x)
    PROVE  /\ Rank(x) \in Nat /\ Rank(x) <= InfRank /\ Magnitude(Rank(x)) \in Nat
           /\ Class(x) = "ZERO" => Rank(x) = 0 /\ Magnitude(Rank(x)) = 0
           /\ Class(x) = "INF" => Rank(x) = InfRank
           /\ Class(x) \in {"NORM", "SUB"} => Rank(x) > 0 /\ Rank(x) < InfRank /\ Magnitude(Rank(x)) > 0
<1>1. /\ One \in Nat /\ One >= 2 /\ ExpOnes \in Nat /\ InfRank = ExpOnes * One /\ InfRank \in Nat
      /\ Magnitude(0) = 0
  BY FormatFacts, MagnitudeBelow
<1>2. Class(x) \in {"INF", "ZERO", "SUB", "NORM"}
  BY ClassFacts DEF IsNaN
<1>3. CASE Class(x) = "ZERO"
  <2>1. Rank(x) = 0
    BY <1>1, <1>3, ClassFacts DEF Rank
  <2> QED BY <1>1, <1>3, <2>1
<1>4. CASE Class(x) = "INF"
  <2>1. Rank(x) = InfRank
    BY <1>1, <1>4, ClassFacts DEF Rank
  <2> QED BY <1>1, <1>4, <2>1, MagnitudeStep
<1>5. CASE Class(x) \in {"NORM", "SUB"}
  <2>1. Rank(x) \in Nat /\ Rank(x) > 0 /\ Rank(x) < InfRank
    BY <1>5, Significand
  <2>2. Magnitude(Rank(x)) \in Nat /\ Magnitude(0) < Magnitude(Rank(x))
    BY <2>1, MagnitudeStep, MagnitudeMono
  <2> QED BY <1>1, <1>5, <2>1, <2>2
<1> QED BY <1>2, <1>3, <1>4, <1>5

(* Numbers of 2 * (NSIG + 1) bits and what the rounding unit makes of them. *)
WideValue(w) == w[1] * W + w[2]

(* The rounding bits that FRoundWide takes from a wide number describe it.  *)
LEMMA WideBits ==
    ASSUME NEW q \in Nat, NEW lo \in 0 .. W - 1, NEW mag \in Nat, NEW B \in Nat \ {0},
           mag * W = (q * W + lo) * B
    PROVE  RoundingBits(q, lo >= One, lo % One # 0, mag, B)
<1>1. One \in Nat /\ One >= 2 /\ W = 2 * One /\ W \in Nat \ {0} /\ One \in Nat \ {0}
  BY FormatFacts
<1> DEFINE X == q * B
           D == mag - X
<1>2. X \in Nat /\ D \in Int /\ mag = X + D /\ lo \in Nat
  BY <1>1
<1>3. (q * W + lo) * B = X * W + lo * B /\ (q + 1) * B = X + B
  BY <1>1
<1> HIDE DEF X
<1>4. (X + D) * W = X * W + D * W
  BY <1>1, <1>2
<1> HIDE DEF D
<1>5. D * W = lo * B
  BY <1>1, <1>2, <1>3, <1>4
<1>6. 0 <= D
  <2>1. 0 * W <= D * W
    BY <1>1, <1>2, <1>5
  <2> QED BY <1>1, <1>2, <2>1, TimesMono
<1>7. D < B
  <2>1. lo * B < W * B /\ W * B = B * W
    BY <1>1, <1>2
  <2> QED BY <1>1, <1>2, <1>5, <2>1, TimesMono
<1>8. D * W = (2 * D) * One
  BY <1>1, <1>2
<1>9. (B <= 2 * D) <=> (lo >= One)
  <2>1. B * One <= (2 * D) * One <=> One * B <= lo * B
    BY <1>1, <1>2, <1>5, <1>8
  <2>2. B * One <= (2 * D) * One <=> B <= 2 * D
    BY <1>1, <1>2, TimesMono
  <2>3. One * B <= lo * B <=> One <= lo
    BY <1>1, <1>2, TimesMono
  <2> QED BY <1>1, <1>2, <2>1, <2>2, <2>3
<1>10. (D = 0) <=> (lo = 0)
  BY <1>1, <1>2, <1>5
<1>11. (B = 2 * D) <=> (lo = One)
  <2>1. B * One = (2 * D) * One <=> One * B = lo * B
    BY <1>1, <1>2, <1>5, <1>8
  <2>2. B * One = (2 * D) * One <=> B = 2 * D
    BY <1>1, <1>2, TimesMono
  <2>3. One * B = lo * B <=> One = lo
    BY <1>1, <1>2, TimesMono
  <2> QED BY <2>1, <2>2, <2>3
<1>12. lo % One # 0 <=> lo # 0 /\ lo # One
  <2>1. lo = 0 * One + lo /\ lo = 1 * One + (lo - One)
    BY <1>1, <1>2
  <2>2. CASE lo < One
    <3>1. lo % One = lo
      BY <1>1, <1>2, <2>1, <2>2, DivisionUnique
    <3> QED BY <1>2, <2>2, <3>1
  <2>3. CASE lo >= One
    <3>1. lo - One \in 0 .. One - 1 /\ lo \in Int /\ 1 \in Int
      BY <1>1, <1>2, <2>3
    <3>2. lo % One = lo - One
      BY <1>1, <2>1, <3>1, DivisionUnique
    <3> QED BY <1>1, <1>2, <2>3, <3>2
  <2> QED BY <1>1, <1>2, <2>2, <2>3
<1>13. X <= mag /\ mag < X + B
  BY <1>2, <1>6, <1>7
<1>14. (lo >= One) = (X + (X + B) <= 2 * mag)
  BY <1>2, <1>9
<1>15. (lo % One # 0) = (mag # X /\ 2 * mag # X + (X + B))
  BY <1>2, <1>10, <1>11, <1>12
<1> QED BY <1>3, <1>13, <1>14, <1>15 DEF RoundingBits, X

(* What the units return of a normalised result in the normal range.        *)
Finished(sign, w, exp, mode) ==
    LET r == FRoundWide(sign, w, exp, mode)
    IN  IF exp > EMAX THEN Inf(sign) ELSE Float(sign, r.exp + BIAS, r.sig % One)

(* mag / den lies in the normal range, as NormalResult asks.                *)
Representable(mag, den, mode) ==
    /\ Magnitude(One) * den <= mag
    /\ mode \notin {RNE, RMM} => mag < Magnitude(InfRank) * den

(* The wide number w with this exponent is mag / den.                       *)
Scaled(w, exp, mag, den) ==
    /\ w[1] \in One .. 2 * One - 1 /\ w[2] \in 0 .. W - 1
    /\ mag * W = WideValue(w) * (den * Pow2[exp - EMIN])

(* Infinity has the rank and the magnitude that follow the largest float.   *)
LEMMA InfFacts ==
    /\ \A sign : ~IsNaN(Inf(sign)) /\ Inf(sign).s = sign /\ Rank(Inf(sign)) = InfRank
    /\ InfRank \in Nat
    /\ Magnitude(InfRank) = One * Pow2[2 * EMAX] /\ Magnitude(One) = One
<1>1. /\ One \in Nat /\ One >= 2 /\ ExpOnes \in Nat /\ ExpOnes = 2 * EMAX + 1 /\ InfRank = ExpOnes * One
      /\ EMAX \in Nat /\ InfRank \in Nat
  BY FormatFacts
<1>2. \A sign : ~IsNaN(Inf(sign)) /\ Inf(sign).s = sign /\ Rank(Inf(sign)) = InfRank
  BY <1>1 DEF Inf, Float, IsNaN, Class, Rank
<1>3. 2 * EMAX \in Nat /\ 0 \in Nat /\ One \in One .. 2 * One /\ InfRank = (2 * EMAX + 1) * One + (One - One)
      /\ One = (0 + 1) * One + (One - One)
  BY <1>1
<1>4. Magnitude(InfRank) = One * Pow2[2 * EMAX] /\ Magnitude(One) = One * Pow2[0]
  BY <1>3, MagnitudeAt
<1> QED BY <1>1, <1>2, <1>4, Pow2Facts

(* A result with an exponent beyond EMAX is infinity: in the directed modes *)
(* there is none in range.                                                  *)
LEMMA TooLarge ==
    ASSUME NEW sign \in {0, 1}, NEW mode \in RoundingModes, NEW q \in Nat, One <= q,
           NEW u \in Nat, u >= 2 * EMAX, NEW mag \in Nat, NEW den \in Nat \ {0},
           q * (den * Pow2[u]) <= mag, Representable(mag, den, mode)
    PROVE  mode \in {RNE, RMM} /\ Rounded(Inf(sign), sign, mag, den, mode)
<1> DEFINE P == Pow2[u]
           Q == Pow2[2 * EMAX]
           B == den * P
<1>1. One \in Nat /\ EMAX \in Nat
  BY FormatFacts
<1>2. Q <= P /\ Q \in Nat /\ P \in Nat /\ q * B <= mag
  BY <1>1, Pow2Mono, Pow2Facts
<1>3. B = den * P /\ B \in Nat
  BY <1>2
<1> HIDE DEF P, Q, B
<1>4. One * Q * den <= q * B
  <2>1. Q * den <= P * den /\ P * den = B /\ Q * den \in Nat
    BY <1>2, <1>3
  <2>2. One * (Q * den) <= One * B /\ One * B <= q * B /\ One * Q * den = One * (Q * den)
    BY <1>1, <1>2, <1>3, <2>1
  <2> QED BY <1>1, <1>2, <1>3, <2>1, <2>2
<1>5. Magnitude(InfRank) * den <= mag /\ Magnitude(InfRank) * den \in Nat
  <2>1. Magnitude(InfRank) = One * Q
    BY InfFacts DEF Q
  <2>2. q * B \in Nat /\ One * Q * den \in Nat
    BY <1>1, <1>2, <1>3
  <2> QED BY <1>2, <1>4, <2>1, <2>2
<1>6. mode \in {RNE, RMM}
  BY <1>5 DEF Representable
<1>7. RoundsTo(InfRank, sign, mag, den, mode)
  BY <1>5, <1>6, Overflow
<1> QED BY <1>6, <1>7, InfFacts DEF Rounded

(* A normalised wide result that is the exact one is finished correctly.    *)
LEMMA FinishedRounds ==
    ASSUME NEW sign \in {0, 1}, NEW mode \in RoundingModes, NEW w, NEW exp \in Int, exp >= EMIN,
           NEW mag \in Nat, NEW den \in Nat \ {0}, Scaled(w, exp, mag, den), Representable(mag, den, mode)
    PROVE  Rounded(Finished(sign, w, exp, mode), sign, mag, den, mode)
<1>1. /\ One \in Nat /\ One >= 2 /\ W = 2 * One /\ EMIN \in Int /\ EMAX \in Nat
      /\ EMIN = 1 - EMAX /\ ExpOnes = 2 * EMAX + 1
  BY FormatFacts
<1> DEFINE u == exp - EMIN
           q == w[1]
           lo == w[2]
           B == den * Pow2[u]
<1>2. u \in Nat /\ exp = u + EMIN
  BY <1>1
<1>3. q \in One .. 2 * One - 1 /\ lo \in 0 .. W - 1 /\ mag * W = (q * W + lo) * B
  BY DEF Scaled, WideValue
<1>4. Pow2[u] \in Nat \ {0} /\ B \in Nat \ {0} /\ q \in Nat
  <2>1. Pow2[u] \in Nat \ {0}
    BY <1>2, Pow2Facts
  <2>2. B \in Nat \ {0}
    BY <2>1
  <2> QED BY <1>1, <1>3, <2>1, <2>2
<1>5. RoundingBits(q, lo >= One, lo % One # 0, mag, B)
  <2> HIDE DEF q, lo, B, u
  <2> QED BY <1>3, <1>4, WideBits
<1>6. CASE exp > EMAX
  <2>1. q * (den * Pow2[u]) <= mag /\ One <= q /\ u >= 2 * EMAX
    BY <1>1, <1>2, <1>3, <1>5, <1>6 DEF RoundingBits
  <2> HIDE DEF q, u
  <2>2. Rounded(Inf(sign), sign, mag, den, mode)
    BY <1>2, <1>4, <2>1, TooLarge
  <2> QED BY <1>6, <2>2 DEF Finished
<1>7. CASE ~(exp > EMAX)
  <2>1. u + 1 < ExpOnes
    BY <1>1, <1>2, <1>7
  <2> DEFINE rb == lo >= One
             st == lo % One # 0
             r == FRoundWide(sign, w, exp, mode)
  <2>2. Finished(sign, w, exp, mode) = Float(sign, r.exp + BIAS, r.sig % One)
    BY <1>7 DEF Finished
  <2>3. rb \in BOOLEAN /\ st \in BOOLEAN /\ r = FRound(sign, q, rb, st, u + EMIN, mode)
    BY <1>2 DEF FRoundWide
  <2> HIDE DEF rb, st, r, u, q
  <2>4. RoundingBits(q, rb, st, mag, den * Pow2[u])
    BY <1>5 DEF rb, st, B
  <2> HIDE DEF lo, B
  <2>5. Rounded(Float(sign, r.exp + BIAS, r.sig % One), sign, mag, den, mode)
    BY <1>2, <1>3, <2>1, <2>3, <2>4, RoundedFloat
  <2> QED BY <2>2, <2>5
<1> QED BY <1>6, <1>7

(* A normalised number of 2 * (NSIG + 1) bits that is the exact result up   *)
(* to a power of two: the exponent of a representable one is not too small. *)
ExactUpTo(V, mag, c, d, t) ==
    /\ V \in Nat /\ mag \in Nat /\ c \in Nat /\ d \in Nat /\ t \in Nat
    /\ V < W * W /\ (mag * W) * Pow2[t] = V * Pow2[c] /\ One * Pow2[d] <= mag

(* Powers of two may be cancelled on both sides of a scaled result.         *)
LEMMA Scaling ==
    ASSUME NEW V, NEW mag, NEW c, NEW d, NEW t, ExactUpTo(V, mag, c, d, t)
    PROVE  c - d - t \in Nat /\ mag * W = V * (Pow2[d] * Pow2[c - d - t])
<1>0. V \in Nat /\ mag \in Nat /\ c \in Nat /\ d \in Nat /\ t \in Nat /\ V < W * W
  BY DEF ExactUpTo
<1> DEFINE C == Pow2[c]
           D == Pow2[d]
           T == Pow2[t]
<1>1. One \in Nat /\ One >= 2 /\ W = 2 * One /\ W \in Nat \ {0}
  BY <1>0, FormatFacts
<1>2. C \in Nat \ {0} /\ D \in Nat \ {0} /\ T \in Nat \ {0} /\ (mag * W) * T = V * C /\ One * D <= mag
  BY <1>0, Pow2Facts DEF ExactUpTo
<1>3. D * T = Pow2[d + t] /\ d + t \in Nat
  BY <1>0, Pow2Sum
<1>4. ASSUME c < d + t PROVE FALSE
  <2>1. 2 * C <= D * T
    BY <1>0, <1>3, <1>4, Pow2Mono
  <2> HIDE DEF C, D, T
  <2>2. 2 * (V * C) = V * (2 * C) /\ V * (2 * C) <= V * (D * T)
    BY <1>0, <1>2, <2>1
  <2>3. V * (D * T) < (W * W) * (D * T)
    BY <1>0, <1>1, <1>2
  <2>4. 2 * ((mag * W) * T) < (W * W) * (D * T)
    <3>1. 2 * ((mag * W) * T) = 2 * (V * C)
      BY <1>0, <1>2
    <3>2. V * (D * T) \in Int /\ (W * W) * (D * T) \in Int /\ 2 * (V * C) \in Int
      BY <1>0, <1>1, <1>2
    <3> QED BY <1>0, <2>2, <2>3, <3>1, <3>2
  <2>5. (W * W) * (D * T) = (2 * (One * D)) * (W * T) /\ 2 * ((mag * W) * T) = (2 * mag) * (W * T)
    <3>1. (W * W) * (D * T) = (W * D) * (W * T)
      BY <1>0, <1>1, <1>2
    <3>2. W * D = 2 * (One * D)
      BY <1>0, <1>1, <1>2
    <3> QED BY <1>0, <1>1, <1>2, <3>1, <3>2
  <2>6. (2 * mag) * (W * T) < (2 * (One * D)) * (W * T)
    BY <1>0, <2>4, <2>5
  <2>7. W * T \in Nat /\ 2 * mag \in Int /\ 2 * (One * D) \in Int
    BY <1>0, <1>1, <1>2
  <2>8. 2 * mag < 2 * (One * D)
    BY <1>0, <2>6, <2>7, TimesMono
  <2> QED BY <1>0, <1>1, <1>2, <2>7, <2>8
<1> DEFINE u == c - d - t
           U == Pow2[u]
<1>5. u \in Nat /\ c = (d + t) + u
  BY <1>0, <1>4
<1> HIDE DEF u
<1>6. C = (D * T) * U /\ U \in Nat
  <2>1. Pow2[(d + t) + u] = Pow2[d + t] * Pow2[u]
    BY <1>0, <1>3, <1>5, Pow2Sum
  <2> QED BY <1>0, <1>3, <1>5, <2>1, Pow2Facts
<1> HIDE DEF U, C, D, T
<1>7. V * C = (V * (D * U)) * T
  <2>1. V * ((D * T) * U) = (V * (D * U)) * T
    <3>1. (D * T) * U = (D * U) * T
      BY <1>0, <1>2, <1>6
    <3> QED BY <1>0, <1>2, <1>6, <3>1
  <2> QED BY <1>0, <1>6, <2>1
<1>8. mag * W \in Int /\ V * (D * U) \in Int /\ (mag * W) * T = (V * (D * U)) * T
  BY <1>0, <1>1, <1>2, <1>6, <1>7
<1>9. mag * W = V * (D * U)
  BY <1>0, <1>2, <1>8, TimesMono
<1> QED BY <1>0, <1>5, <1>9 DEF u, U, D

(* The upper half of a wide number, from its value.                         *)
LEMMA WideBounds ==
    ASSUME NEW w, w[1] \in Int, w[2] \in 0 .. W - 1, One * W <= WideValue(w), WideValue(w) < W * W
    PROVE  w[1] \in One .. 2 * One - 1
<1> DEFINE a == w[1]
           b == w[2]
<1>1. One \in Nat /\ One >= 2 /\ W = 2 * One /\ W \in Nat \ {0}
  BY FormatFacts
<1>2. a \in Int /\ b \in 0 .. W - 1 /\ One * W <= a * W + b /\ a * W + b < W * W
  BY DEF WideValue
<1> HIDE DEF a, b
<1>3. a * W < W * W /\ One * W < (a + 1) * W
  <2>1. (a + 1) * W = a * W + W /\ a * W \in Int /\ W * W \in Int /\ One * W \in Int
    BY <1>1, <1>2
  <2> QED BY <1>1, <1>2, <2>1
<1>4. a < W /\ One < a + 1
  BY <1>1, <1>2, <1>3, TimesMono
<1>5. a \in One .. 2 * One - 1
  BY <1>1, <1>2, <1>4
<1> QED BY <1>5 DEF a

(* The halves of a wide number have NSIG + 1 bits.                          *)
LEMMA WideFacts == W = Pow2[NSIG + 1] /\ W \in Nat \ {0} /\ W = 2 * One /\ NSIG + 1 \in Nat
  BY FormatFacts, Pow2Facts

(* WideProduct is the product.                                              *)
LEMMA WideProductFacts ==
    ASSUME NEW m \in Nat, NEW n \in Nat
    PROVE  LET p == WideProduct(m, n)
           IN  p[1] \in Nat /\ p[2] \in 0 .. W - 1 /\ WideValue(p) = m * n
<1> DEFINE H == Pow2[(NSIG + 1) \div 2]
           m1 == m \div H
           m0 == m % H
           n1 == n \div H
           n0 == n % H
           mid == m1 * n0 + m0 * n1
           d1 == mid \div H
           d0 == mid % H
           low == d0 * H + m0 * n0
           l1 == low \div W
           l0 == low % W
<1>1. H \in Nat \ {0} /\ H * H = W
  <2> DEFINE h == (NSIG + 1) \div 2
  <2>1. h \in Nat /\ h + h = NSIG + 1
    BY FormatFacts, FormatAssumption
  <2> HIDE DEF h
  <2>2. Pow2[h + h] = Pow2[h] * Pow2[h] /\ Pow2[h] \in Nat \ {0}
    BY <2>1, Pow2Sum, Pow2Facts
  <2> QED BY <2>1, <2>2, WideFacts DEF h
<1>2. W \in Nat \ {0}
  BY WideFacts
<1>3. WideProduct(m, n) = <<m1 * n1 + d1 + l1, l0>>
  BY DEF WideProduct
<1> HIDE DEF H
<1>4. m1 \in Nat /\ m0 \in 0 .. H - 1 /\ m = m1 * H + m0 /\ n1 \in Nat /\ n0 \in 0 .. H - 1 /\ n = n1 * H + n0
  BY <1>1
<1>5. mid \in Nat
  <2>1. \A x, y \in Nat : x * y \in Nat
    OBVIOUS
  <2> HIDE DEF m1, m0, n1, n0
  <2> QED BY <1>1, <1>4, <2>1
<1> HIDE DEF m1, m0, n1, n0, mid
<1>6. d1 \in Nat /\ d0 \in 0 .. H - 1 /\ mid = d1 * H + d0
  BY <1>1, <1>5
<1> HIDE DEF d1, d0
<1>7. low \in Nat
  <2>1. \A x, y \in Nat : x * y \in Nat
    OBVIOUS
  <2> QED BY <1>1, <1>4, <1>6, <2>1
<1> HIDE DEF low
<1>8. l1 \in Nat /\ l0 \in 0 .. W - 1 /\ low = l1 * W + l0
  BY <1>2, <1>7
<1> HIDE DEF l1, l0
<1>9. (m1 * n1 + d1 + l1) * W + l0 = m * n
  <2>1. (m1 * n1 + d1 + l1) * W + l0 = (m1 * n1) * W + d1 * W + low
    BY <1>2, <1>4, <1>6, <1>8
  <2>2. d1 * W + d0 * H = mid * H
    <3>1. d1 * (H * H) = (d1 * H) * H
      BY <1>1, <1>6
    <3> QED BY <1>1, <1>6, <3>1
  <2>3. (m1 * n1) * W + d1 * W + low = (m1 * n1) * W + mid * H + m0 * n0
    <3>1. low = d0 * H + m0 * n0
      BY DEF low
    <3>2. (m1 * n1) * W \in Int /\ d1 * W \in Int /\ d0 * H \in Int /\ m0 * n0 \in Int /\ mid * H \in Int
      BY <1>1, <1>2, <1>4, <1>5, <1>6
    <3> QED BY <2>2, <3>1, <3>2
  <2>4. mid * H = (m1 * H) * n0 + m0 * (n1 * H)
    BY <1>1, <1>4 DEF mid
  <2>5. (m1 * n1) * W = (m1 * H) * (n1 * H)
    BY <1>1, <1>4
  <2>6. (m1 * H + m0) * (n1 * H + n0) = (m1 * H) * (n1 * H) + (m1 * H) * n0 + m0 * (n1 * H) + m0 * n0
    BY <1>1, <1>4
  <2>7. (m1 * H) * (n1 * H) \in Int /\ (m1 * H) * n0 \in Int /\ m0 * (n1 * H) \in Int /\ m0 * n0 \in Int
    BY <1>1, <1>4
  <2> QED BY <1>4, <2>1, <2>3, <2>4, <2>5, <2>6, <2>7
<1>10. m1 * n1 + d1 + l1 \in Nat
  BY <1>4, <1>6, <1>8
<1> QED BY <1>3, <1>8, <1>9, <1>10 DEF WideValue

(* A shift left by 1 doubles a product that has room for it.                *)
LEMMA WideDoubled ==
    ASSUME NEW w, w[1] \in Nat, w[2] \in 0 .. W - 1
    PROVE  LET p == WideShiftLeft(w, 1)
           IN  p[1] \in Nat /\ p[2] \in 0 .. W - 1 /\ WideValue(p) = 2 * WideValue(w)
<1> DEFINE a == w[1]
           b == w[2]
           t == b \div One
           l == (b * 2) % W
<1>1. One \in Nat /\ One >= 2 /\ W = 2 * One /\ W \in Nat \ {0} /\ NSIG \in Nat /\ NSIG >= 1
  BY FormatFacts
<1>2. Pow2[1] = 2 /\ Pow2[NSIG] = One
  <2>1. Pow2[0 + 1] = 2 * Pow2[0]
    BY Pow2Facts
  <2> QED BY <2>1, Pow2Facts, FormatFacts
<1>3. WideShiftLeft(w, 1) = <<a * 2 + t, l>>
  <2>1. 1 <= NSIG + 1 /\ NSIG + 1 - 1 = NSIG
    BY <1>1
  <2> QED BY <1>2, <2>1 DEF WideShiftLeft
<1>4. a \in Nat /\ b \in 0 .. W - 1
  OBVIOUS
<1> HIDE DEF a, b
<1>5. t \in {0, 1} /\ l \in 0 .. W - 1 /\ 2 * b = t * W + l
  <2>1. CASE b < One
    <3>1. b = 0 * One + b /\ b \in 0 .. One - 1 /\ b * 2 = 0 * W + (b * 2) /\ b * 2 \in 0 .. W - 1
      BY <1>1, <1>4, <2>1
    <3>2. t = 0 /\ l = b * 2
      BY <1>1, <1>4, <2>1, <3>1
    <3> HIDE DEF t, l
    <3> QED BY <1>1, <1>4, <3>1, <3>2
  <2>2. CASE b >= One
    <3>1. t = 1 /\ l = b * 2 - W
      BY <1>1, <1>4, <2>2
    <3> HIDE DEF t, l
    <3> QED BY <1>1, <1>4, <2>2, <3>1
  <2> QED BY <1>1, <1>4, <2>1, <2>2
<1> HIDE DEF t, l
<1>6. (a * 2 + t) * W = 2 * (a * W) + t * W /\ t * W \in Nat /\ a * W \in Nat
  BY <1>1, <1>4, <1>5
<1>7. (a * 2 + t) * W + l = 2 * (a * W + b)
  BY <1>4, <1>5, <1>6
<1>8. a * 2 + t \in Nat
  BY <1>4, <1>5
<1> QED BY <1>3, <1>5, <1>7, <1>8 DEF WideValue, a, b

(* FMUL of two numbers is the rounding of their product.                    *)
LEMMA MulRounds ==
    ASSUME NEW x \in Floats, NEW y \in Floats, NEW mode \in RoundingModes,
           Class(x) \in {"NORM", "SUB"}, Class(y) \in {"NORM", "SUB"},
           Representable(Magnitude(Rank(x)) * Magnitude(Rank(y)), PerUnit, mode)
    PROVE  Rounded(FMulFinite(x, y, mode), XorSign(x, y), Magnitude(Rank(x)) * Magnitude(Rank(y)), PerUnit, mode)
<1> DEFINE sx == Sig(x)
           sy == Sig(y)
           mx == Magnitude(Rank(x))
           my == Magnitude(Rank(y))
           i == Exp(x) - EMIN + NSIG
           j == Exp(y) - EMIN + NSIG
           prod == WideProduct(Sig(x), Sig(y))
           high == prod[1] >= One
           h == IF high THEN 1 ELSE 0
           norm == IF high THEN prod ELSE WideShiftLeft(prod, 1)
           exp == Exp(x) + Exp(y) + h
           sign == XorSign(x, y)
           V == WideValue(norm)
<1>1. /\ One \in Nat /\ One >= 2 /\ W = 2 * One /\ W \in Nat \ {0} /\ NSIG \in Nat /\ One = Pow2[NSIG]
      /\ EMIN = 1 - EMAX /\ EMAX \in Nat /\ EMAX >= 1
  BY FormatFacts
<1>2. /\ sx \in One .. 2 * One - 1 /\ sy \in One .. 2 * One - 1 /\ i \in Nat /\ j \in Nat
      /\ Exp(x) \in Int /\ Exp(y) \in Int
      /\ One * mx = sx * Pow2[i] /\ One * my = sy * Pow2[j] /\ mx \in Nat /\ my \in Nat
  BY Significand, MagnitudeStep
<1>3. sx \in Nat /\ sy \in Nat /\ prod[1] \in Nat /\ prod[2] \in 0 .. W - 1 /\ WideValue(prod) = sx * sy
  <2>1. sx \in Nat /\ sy \in Nat
    BY <1>1, <1>2
  <2> QED BY <2>1, WideProductFacts
<1>4. One * One <= sx * sy /\ sx * sy < (2 * One) * (2 * One)
  <2> HIDE DEF sx, sy
  <2>1. One * One <= sx * One /\ sx * One <= sx * sy /\ sx * sy <= sx * (2 * One) /\ sx * (2 * One) < (2 * One) * (2 * One)
    BY <1>1, <1>2
  <2> QED BY <1>1, <1>3, <2>1
<1>5. high <=> One * W <= sx * sy
  <2>1. WideValue(prod) = prod[1] * W + prod[2]
    BY DEF WideValue
  <2> DEFINE a == prod[1]
             b == prod[2]
  <2>2. a \in Nat /\ b \in 0 .. W - 1 /\ sx * sy = a * W + b
    BY <1>3, <2>1
  <2> HIDE DEF a, b, sx, sy
  <2>3. a >= One => One * W <= a * W
    BY <1>1, <2>2
  <2>4. a < One => (a + 1) * W <= One * W
    BY <1>1, <2>2, TimesMono
  <2>5. (a + 1) * W = a * W + W /\ a * W \in Nat /\ One * W \in Nat
    BY <1>1, <2>2
  <2> QED BY <1>1, <2>2, <2>3, <2>4, <2>5 DEF a
<1>6. norm[1] \in Nat /\ norm[2] \in 0 .. W - 1 /\ V * Pow2[h] = 2 * (sx * sy) /\ One * W <= V /\ V < W * W
  <2>1. Pow2[0] = 1 /\ Pow2[1] = 2
    <3>1. Pow2[0 + 1] = 2 * Pow2[0]
      BY Pow2Facts
    <3> QED BY <3>1, Pow2Facts
  <2>2. One * W = 2 * (One * One) /\ W * W = (2 * One) * (2 * One) /\ One * W \in Nat /\ W * W \in Nat
       /\ W * W = 2 * (One * W)
    BY <1>1
  <2>3. sx * sy \in Nat
    <3> HIDE DEF sx, sy
    <3> QED BY <1>3
  <2>4. CASE high
    <3>1. norm = prod /\ h = 1 /\ V = sx * sy
      BY <1>3, <2>4
    <3> HIDE DEF norm, h, V, high, prod, sx, sy
    <3> QED BY <1>3, <1>4, <1>5, <2>1, <2>2, <2>3, <2>4, <3>1
  <2>5. CASE ~high
    <3>1. norm = WideShiftLeft(prod, 1) /\ h = 0
      BY <2>5
    <3>2. norm[1] \in Nat /\ norm[2] \in 0 .. W - 1 /\ V = 2 * (sx * sy)
      BY <1>3, <3>1, WideDoubled
    <3> HIDE DEF norm, h, V, high, prod, sx, sy
    <3> QED BY <1>1, <1>3, <1>4, <1>5, <2>1, <2>2, <2>3, <2>5, <3>1, <3>2
  <2> QED BY <2>4, <2>5
<1> HIDE DEF V
<1>7. norm[1] \in One .. 2 * One - 1
  <2> HIDE DEF norm
  <2> QED BY <1>6, WideBounds DEF V
<1>8. h \in {0, 1} /\ V \in Nat
  <2>1. WideValue(norm) = norm[1] * W + norm[2]
    BY DEF WideValue
  <2> HIDE DEF norm
  <2>2. norm[1] * W \in Nat
    BY <1>1, <1>6
  <2> QED BY <1>1, <1>6, <2>1, <2>2 DEF V
<1> HIDE DEF norm, high, prod
<1> DEFINE c == h + i + j
           d == NSIG + EMAX - 1
           mag == mx * my
<1>9. mag \in Nat /\ c \in Nat /\ d \in Nat /\ PerUnit = Pow2[d] /\ PerUnit \in Nat \ {0}
  <2>1. d \in Nat /\ PerUnit = Pow2[d] /\ PerUnit \in Nat \ {0}
    BY <1>1, FormatFacts
  <2> HIDE DEF mx, my, h, i, j
  <2> QED BY <1>2, <1>8, <2>1
<1>10. (mag * W) * Pow2[NSIG] = V * Pow2[c]
  <2> DEFINE P == Pow2[i]
             Q == Pow2[j]
             H == Pow2[h]
  <2>1. P \in Nat /\ Q \in Nat /\ H \in Nat /\ Pow2[c] = H * (P * Q)
    <3> HIDE DEF i, j, h
    <3>1. h \in Nat /\ i + j \in Nat /\ c = h + (i + j)
      BY <1>2, <1>8
    <3>2. Pow2[h + (i + j)] = Pow2[h] * Pow2[i + j] /\ Pow2[i + j] = Pow2[i] * Pow2[j]
      BY <1>2, <3>1, Pow2Sum
    <3> QED BY <1>2, <3>1, <3>2, Pow2Facts
  <2>2. One * mx = sx * P /\ One * my = sy * Q /\ V * H = 2 * (sx * sy)
    BY <1>2, <1>6
  <2> HIDE DEF sx, sy, mx, my, P, Q, H, h, i, j
  <2>3. ((mx * my) * W) * One = 2 * ((One * mx) * (One * my))
    <3>1. ((mx * my) * (2 * One)) * One = 2 * ((One * mx) * (One * my))
      BY <1>1, <1>2
    <3> QED BY <1>1, <3>1
  <2>4. (sx * P) * (sy * Q) = (sx * sy) * (P * Q)
    BY <1>3, <2>1
  <2>5. V * (H * (P * Q)) = (V * H) * (P * Q)
    BY <1>8, <2>1
  <2>6. (2 * (sx * sy)) * (P * Q) = 2 * ((sx * sy) * (P * Q))
    BY <1>3, <2>1
  <2> QED BY <1>1, <2>1, <2>2, <2>3, <2>4, <2>5, <2>6
<1>11. One * Pow2[d] <= mag
  BY <1>9, InfFacts DEF Representable
<1>12. c - d - NSIG = exp - EMIN
  <2> HIDE DEF h
  <2> QED BY <1>1, <1>2, <1>8
<1> HIDE DEF c, d, mag, h
<1>13. c - d - NSIG \in Nat /\ mag * W = V * (PerUnit * Pow2[c - d - NSIG])
  <2>1. ExactUpTo(V, mag, c, d, NSIG)
    BY <1>1, <1>6, <1>8, <1>9, <1>10, <1>11 DEF ExactUpTo
  <2> QED BY <1>9, <2>1, Scaling
<1>14. Scaled(norm, exp, mag, PerUnit)
  BY <1>6, <1>7, <1>12, <1>13 DEF Scaled, V
<1>15. exp \in Int /\ exp >= EMIN /\ sign \in {0, 1}
  BY <1>1, <1>2, <1>8, <1>12, <1>13 DEF XorSign
<1>16. Representable(mag, PerUnit, mode)
  BY DEF mag
<1> HIDE DEF exp, sign
<1>17. Rounded(Finished(sign, norm, exp, mode), sign, mag, PerUnit, mode)
  BY <1>9, <1>14, <1>15, <1>16, FinishedRounds
<1>18. FMulFinite(x, y, mode) = Finished(sign, norm, exp, mode)
  <2>1. EMIN - NSIG \in Int /\ ~(exp < EMIN - NSIG) /\ ~(exp < EMIN)
    BY <1>1, <1>15
  <2> QED BY <2>1 DEF FMulFinite, Finished, sign, norm, exp, h, high, prod
<1> QED BY <1>17, <1>18 DEF mag, sign

(* The division loop: a0 is the dividend, b the divisor.                    *)
DivideState == [q : Nat, a : Nat]
(* A step of the divider.                                                   *)
Divided(p, b) == IF p.a < b THEN [q |-> 2 * p.q,     a |-> 2 * p.a]
                            ELSE [q |-> 2 * p.q + 1, a |-> 2 * (p.a - b)]

(* The loop of the divider, as a function on all natural numbers.           *)
LEMMA DivideStepsExist ==
    ASSUME NEW a0 \in Nat, NEW b \in Nat
    PROVE  \E g : /\ g[0] = [q |-> 0, a |-> a0] /\ DivideSteps(a0, b) = g[NSIG + 3]
                  /\ \A n \in 0 .. NSIG + 2 : g[n + 1] = Divided(g[n], b)
<1> DEFINE K == NSIG + 3
           base == [q |-> 0, a |-> a0]
           next == [p \in DivideState |-> Divided(p, b)]
           body(f, n) == IF n = 0 THEN [q |-> 0, a |-> a0]
                         ELSE LET p == f[n - 1]
                              IN  IF p.a < b THEN [q |-> 2 * p.q,     a |-> 2 * p.a]
                                             ELSE [q |-> 2 * p.q + 1, a |-> 2 * (p.a - b)]
           step == CHOOSE f : f = [n \in 0 .. K |-> body(f, n)]
<1>1. K \in Nat /\ K - 1 = NSIG + 2 /\ K \in 0 .. K /\ NSIG \in Nat
  BY FormatFacts
<1>2. base \in DivideState /\ next \in [DivideState -> DivideState]
  <2>1. \A p \in DivideState : Divided(p, b) \in DivideState
    BY DEF DivideState, Divided
  <2> QED BY <2>1 DEF DivideState
<1>3. PICK h : StartsAs(h, K, DivideState, base, next)
  <2> HIDE DEF K, base, next
  <2> QED BY <1>1, <1>2, StartsExist
<1>4. h \in [0 .. K -> DivideState] /\ h[0] = base /\ \A n \in 0 .. K - 1 : h[n + 1] = Divided(h[n], b)
  <2>1. h \in [0 .. K -> DivideState] /\ h[0] = base /\ \A n \in 0 .. K - 1 : h[n + 1] = next[h[n]]
    BY <1>3 DEF StartsAs
  <2>2. \A n \in 0 .. K - 1 : n \in 0 .. K
    BY <1>1
  <2> HIDE DEF K
  <2>3. \A n \in 0 .. K - 1 : h[n] \in DivideState
    BY <2>1, <2>2
  <2> QED BY <2>1, <2>3
<1>5. h = [n \in 0 .. K |-> body(h, n)]
  <2>1. ASSUME NEW n \in 0 .. K PROVE h[n] = body(h, n)
    <3>1. CASE n = 0
      BY <1>4, <3>1
    <3>2. CASE n # 0
      <4>1. n - 1 \in 0 .. K - 1 /\ (n - 1) + 1 = n
        BY <1>1, <3>2
      <4>2. h[(n - 1) + 1] = Divided(h[n - 1], b)
        BY <1>4, <4>1
      <4> QED BY <3>2, <4>1, <4>2 DEF Divided
    <3> QED BY <3>1, <3>2
  <2> HIDE DEF body
  <2>2. h = [n \in 0 .. K |-> h[n]]
    BY <1>4
  <2> QED BY <2>1, <2>2
<1>6. step = [n \in 0 .. K |-> body(step, n)]
  <2> HIDE DEF body
  <2> QED BY <1>5
<1>7. DivideSteps(a0, b) = step[K]
  BY DEF DivideSteps
<1> HIDE DEF step
<1>8. step[0] = [q |-> 0, a |-> a0] /\ \A n \in 0 .. NSIG + 2 : step[n + 1] = Divided(step[n], b)
  <2>1. step[0] = body(step, 0)
    <3> HIDE DEF body
    <3> QED BY <1>1, <1>6
  <2>2. ASSUME NEW n \in 0 .. NSIG + 2 PROVE step[n + 1] = Divided(step[n], b)
    <3>1. n + 1 \in 0 .. K /\ n + 1 # 0 /\ (n + 1) - 1 = n
      BY <1>1
    <3>2. step[n + 1] = body(step, n + 1)
      <4> HIDE DEF body
      <4> QED BY <1>6, <3>1
    <3> QED BY <3>1, <3>2 DEF Divided
  <2> QED BY <2>1, <2>2
<1> QED BY <1>7, <1>8

(* A property of every value of such a loop.                                *)
LEMMA LoopInvariant ==
    ASSUME NEW K \in Nat, NEW I, 0 \in I, \A n \in 0 .. K - 1 : n \in I => n + 1 \in I
    PROVE  K \in I
<1> DEFINE T == {n \in 0 .. K : n \notin I}
<1> SUFFICES ASSUME T # {} PROVE FALSE
  OBVIOUS
<1>1. PICK m \in T : \A i \in T : m <= i
  <2>1. T \subseteq Nat
    OBVIOUS
  <2> HIDE DEF T
  <2> QED BY <2>1, Least
<1>2. m \in 0 .. K /\ m \notin I /\ m # 0
  OBVIOUS
<1>3. m - 1 \in 0 .. K - 1 /\ m - 1 \in I
  BY <1>1, <1>2
<1>4. (m - 1) + 1 = m
  BY <1>2
<1> HIDE DEF T
<1> QED BY <1>2, <1>3, <1>4

(* Quotient and remainder of the divider multiply back to the dividend.     *)
LEMMA DivideStepsFacts ==
    ASSUME NEW a0 \in Nat, NEW b \in Nat \ {0}, a0 < 2 * b
    PROVE  LET d == DivideSteps(a0, b)
           IN  d.q \in Nat /\ d.a \in Nat /\ d.a < 2 * b /\ (8 * One) * a0 = d.a + 2 * (b * d.q)
<1>1. PICK g : /\ g[0] = [q |-> 0, a |-> a0] /\ DivideSteps(a0, b) = g[NSIG + 3]
               /\ \A n \in 0 .. NSIG + 2 : g[n + 1] = Divided(g[n], b)
  BY DivideStepsExist
<1> DEFINE I == {n \in Nat : /\ g[n].q \in Nat /\ g[n].a \in Nat /\ g[n].a < 2 * b
                             /\ Pow2[n] * a0 = g[n].a + 2 * (b * g[n].q)}
           K == NSIG + 3
<1>2. K \in Nat /\ K - 1 = NSIG + 2
  BY FormatFacts
<1>3. 0 \in I
  <2>1. g[0].q = 0 /\ g[0].a = a0 /\ Pow2[0] = 1
    BY <1>1, Pow2Facts
  <2>2. 1 * a0 = a0 + 2 * (b * 0)
    OBVIOUS
  <2>3. Pow2[0] * a0 = g[0].a + 2 * (b * g[0].q) /\ g[0].q \in Nat /\ g[0].a \in Nat /\ g[0].a < 2 * b
    BY <2>1, <2>2
  <2> QED BY <2>3
<1>4. ASSUME NEW n \in 0 .. K - 1, n \in I PROVE n + 1 \in I
  <2> DEFINE q == g[n].q
             a == g[n].a
             P == Pow2[n]
  <2>1. q \in Nat /\ a \in Nat /\ a < 2 * b /\ P * a0 = a + 2 * (b * q)
    BY <1>4
  <2>2. g[n + 1] = Divided(g[n], b)
    BY <1>1, <1>2
  <2>3. n \in Nat /\ n + 1 \in Nat /\ Pow2[n + 1] = 2 * P /\ P \in Nat
    BY <1>2, Pow2Facts
  <2>4. CASE a < b
    <3>1. g[n + 1].q = 2 * q /\ g[n + 1].a = 2 * a
      BY <2>2, <2>4 DEF Divided
    <3> HIDE DEF q, a, P
    <3>2. (2 * P) * a0 = 2 * a + 2 * (b * (2 * q))
      BY <2>1, <2>3
    <3> QED BY <2>1, <2>3, <2>4, <3>1, <3>2
  <2>5. CASE ~(a < b)
    <3>1. g[n + 1].q = 2 * q + 1 /\ g[n + 1].a = 2 * (a - b)
      BY <2>2, <2>5 DEF Divided
    <3> HIDE DEF q, a, P
    <3>2. (2 * P) * a0 = 2 * (a - b) + 2 * (b * (2 * q + 1))
      BY <2>1, <2>3
    <3>3. 2 * (a - b) \in Nat /\ 2 * (a - b) < 2 * b /\ 2 * q + 1 \in Nat
      BY <2>1, <2>5
    <3> QED BY <2>1, <2>3, <3>1, <3>2, <3>3
  <2> QED BY <2>4, <2>5
<1> HIDE DEF I, K
<1>5. K \in I
  BY <1>2, <1>3, <1>4, LoopInvariant
<1>6. Pow2[NSIG + 3] = 8 * One
  <2>1. NSIG \in Nat /\ NSIG + 1 \in Nat /\ NSIG + 2 \in Nat
    BY FormatFacts
  <2>2. Pow2[NSIG + 1] = 2 * Pow2[NSIG] /\ Pow2[(NSIG + 1) + 1] = 2 * Pow2[NSIG + 1] /\ Pow2[(NSIG + 2) + 1] = 2 * Pow2[NSIG + 2]
    BY <2>1, Pow2Facts
  <2>3. (NSIG + 1) + 1 = NSIG + 2 /\ (NSIG + 2) + 1 = NSIG + 3
    BY <2>1
  <2> QED BY <2>2, <2>3, FormatFacts
<1> QED BY <1>1, <1>5, <1>6 DEF I, K

(* The rounding bits of a quotient of full length ...                       *)
LEMMA QuotientBits ==
    ASSUME NEW q \in Nat, NEW a \in Nat, NEW mag \in Nat, NEW B \in Nat \ {0},
           q * B <= 4 * mag, 4 * mag < q * B + B, (4 * mag = q * B) <=> (a = 0)
    PROVE  RoundingBits(q \div 4, q % 4 >= 2, q % 2 = 1 \/ a # 0, mag, B)
<1> DEFINE k == q \div 4
           t == q % 4
           X == k * B
           tB == t * B
<1>1. k \in Nat /\ t \in 0 .. 3 /\ q = 4 * k + t /\ ((q % 2 = 1) <=> (t \in {1, 3}))
  OBVIOUS
<1> HIDE DEF k, t
<1>2. q * B = 4 * X + tB /\ (k + 1) * B = X + B /\ X \in Nat
  BY <1>1
<1>3. /\ t = 0 => tB = 0
      /\ t = 1 => tB = B
      /\ t = 2 => tB = 2 * B
      /\ t = 3 => tB = 3 * B
  OBVIOUS
<1> HIDE DEF X, tB
<1>4. tB \in {0, B, 2 * B, 3 * B}
  BY <1>1, <1>3
<1>5. X <= mag /\ mag < X + B
  BY <1>2, <1>4
<1>6. (t >= 2) = (X + (X + B) <= 2 * mag)
  BY <1>1, <1>2, <1>3
<1>7. (q % 2 = 1 \/ a # 0) = (mag # X /\ 2 * mag # X + (X + B))
  <2>1. CASE t = 0
    BY <1>1, <1>2, <1>3, <2>1
  <2>2. CASE t = 1
    BY <1>1, <1>2, <1>3, <2>2
  <2>3. CASE t = 2
    BY <1>1, <1>2, <1>3, <2>3
  <2>4. CASE t = 3
    BY <1>1, <1>2, <1>3, <2>4
  <2> QED BY <1>1, <2>1, <2>2, <2>3, <2>4
<1>8. X = k * B
  BY DEF X
<1>9. RoundingBits(k, t >= 2, q % 2 = 1 \/ a # 0, mag, B)
  BY <1>2, <1>5, <1>6, <1>7, <1>8 DEF RoundingBits
<1> QED BY <1>9 DEF k, t

(* ... and of one that is shifted left by 1.                                *)
LEMMA ShortQuotientBits ==
    ASSUME NEW q \in Nat, NEW a \in Nat, NEW mag \in Nat, NEW B \in Nat \ {0},
           q * B <= 2 * mag, 2 * mag < q * B + B, (2 * mag = q * B) <=> (a = 0)
    PROVE  RoundingBits((2 * q) \div 4, (2 * q) % 4 >= 2, (2 * q) % 2 = 1 \/ a # 0, mag, B)
<1> DEFINE k == q \div 2
           t == q % 2
           X == k * B
           tB == t * B
<1>1. k \in Nat /\ t \in {0, 1} /\ q = 2 * k + t
  OBVIOUS
<1>2. (2 * q) \div 4 = k /\ (2 * q) % 4 = 2 * t /\ (2 * q) % 2 = 0
  OBVIOUS
<1> HIDE DEF k, t
<1>3. q * B = 2 * X + tB /\ (k + 1) * B = X + B /\ X \in Nat
  BY <1>1
<1>4. tB = IF t = 0 THEN 0 ELSE B
  BY <1>1
<1> HIDE DEF X, tB
<1>5. X <= mag /\ mag < X + B
  BY <1>1, <1>3, <1>4
<1>6. (2 * t >= 2) = (X + (X + B) <= 2 * mag)
  BY <1>1, <1>3, <1>4
<1>7. (0 = 1 \/ a # 0) = (mag # X /\ 2 * mag # X + (X + B))
  <2>1. CASE t = 0
    BY <1>1, <1>3, <1>4, <2>1
  <2>2. CASE t = 1
    BY <1>1, <1>3, <1>4, <2>2
  <2> QED BY <1>1, <2>1, <2>2
<1>8. X = k * B
  BY DEF X
<1>9. RoundingBits(k, 2 * t >= 2, 0 = 1 \/ a # 0, mag, B)
  BY <1>3, <1>5, <1>6, <1>7, <1>8 DEF RoundingBits
<1> QED BY <1>2, <1>9

(* FDIV of two numbers is the rounding of their quotient.                   *)
LEMMA DivRounds ==
    ASSUME NEW x \in Floats, NEW y \in Floats, NEW mode \in RoundingModes,
           Class(x) \in {"NORM", "SUB"}, Class(y) \in {"NORM", "SUB"},
           Representable(PerUnit * Magnitude(Rank(x)), Magnitude(Rank(y)), mode)
    PROVE  Rounded(FDivFinite(x, y, mode), XorSign(x, y), PerUnit * Magnitude(Rank(x)), Magnitude(Rank(y)), mode)
<1> DEFINE sx == Sig(x)
           sy == Sig(y)
           mx == Magnitude(Rank(x))
           my == Magnitude(Rank(y))
           mag == PerUnit * mx
           i == Exp(x) - EMIN + NSIG
           j == Exp(y) - EMIN + NSIG
           sign == XorSign(x, y)
           d == DivideSteps(Sig(x), Sig(y))
           q == d.q
           a == d.a
           less == d.q < 4 * One
           l == IF less THEN 1 ELSE 0
           exp == Exp(x) - Exp(y) - l
           u == exp - EMIN
           Pj == Pow2[j]
           c == i + EMAX - 1
           C == Pow2[c]
<1>1. /\ One \in Nat /\ One >= 2 /\ NSIG \in Nat /\ One = Pow2[NSIG]
      /\ EMIN = 1 - EMAX /\ EMAX \in Nat /\ EMAX >= 1
  BY FormatFacts
<1>2. /\ sx \in One .. 2 * One - 1 /\ sy \in One .. 2 * One - 1 /\ i \in Nat /\ j \in Nat
      /\ Exp(x) \in Int /\ Exp(y) \in Int
      /\ One * mx = sx * Pow2[i] /\ One * my = sy * Pj /\ mx \in Nat /\ my \in Nat \ {0}
  <2>1. Rank(y) > 0 /\ Rank(y) \in Nat /\ Rank(x) \in Nat
    BY Significand
  <2>2. Magnitude(0) < Magnitude(Rank(y)) /\ Magnitude(0) = 0
    BY <1>1, <2>1, MagnitudeMono, MagnitudeBelow
  <2> QED BY <2>1, <2>2, Significand, MagnitudeStep
<1>3. sx \in Nat /\ sy \in Nat \ {0} /\ sx < 2 * sy
  BY <1>1, <1>2
<1>4. q \in Nat /\ a \in Nat /\ a < 2 * sy /\ (8 * One) * sx = a + 2 * (sy * q)
  <2> HIDE DEF sx, sy
  <2>1. LET e == DivideSteps(sx, sy)
        IN  e.q \in Nat /\ e.a \in Nat /\ e.a < 2 * sy /\ (8 * One) * sx = e.a + 2 * (sy * e.q)
    BY <1>3, DivideStepsFacts
  <2> QED BY <2>1 DEF sx, sy
<1>5. c \in Nat /\ C \in Nat \ {0} /\ Pj \in Nat \ {0}
  <2> HIDE DEF i, j
  <2> QED BY <1>1, <1>2, Pow2Facts
<1>6. mag = sx * C /\ mag \in Nat
  <2> DEFINE P == Pow2[i]
             U == Pow2[NSIG + EMAX - 1]
  <2> HIDE DEF i
  <2>1. PerUnit = U /\ NSIG + EMAX - 1 \in Nat /\ U \in Nat /\ P \in Nat
    BY <1>1, <1>2, FormatFacts, Pow2Facts
  <2>2. P * U = One * C
    <3>1. i + (NSIG + EMAX - 1) = NSIG + c /\ i \in Nat
      BY <1>1, <1>2
    <3> HIDE DEF c
    <3>2. Pow2[i + (NSIG + EMAX - 1)] = P * U /\ Pow2[NSIG + c] = Pow2[NSIG] * C
      BY <1>1, <1>2, <1>5, <2>1, <3>1, Pow2Sum
    <3> QED BY <1>1, <3>1, <3>2
  <2> HIDE DEF P, U, C, c, sx, mx
  <2>3. One * (U * mx) = One * (sx * C)
    <3>1. One * (U * mx) = (One * mx) * U /\ (sx * P) * U = sx * (P * U) /\ sx * (One * C) = One * (sx * C)
      BY <1>1, <1>2, <1>3, <1>5, <2>1
    <3> QED BY <1>2, <2>2, <3>1 DEF P
  <2>4. U * mx \in Nat /\ sx * C \in Nat
    BY <1>2, <1>3, <1>5, <2>1
  <2> QED BY <1>1, <2>1, <2>3, <2>4
<1>7. One * my <= mag
  BY InfFacts DEF Representable
<1>8. less => sx < sy
  <2> HIDE DEF sx, sy, q, a, d
  <2>1. CASE q < 4 * One
    <3>1. sy * q <= sy * (4 * One - 1) /\ sy * (4 * One - 1) = 4 * (One * sy) - sy /\ sy * q \in Nat
      BY <1>1, <1>3, <1>4, <2>1
    <3>2. (8 * One) * sx < (8 * One) * sy
      <4>1. (8 * One) * sy = 8 * (One * sy) /\ One * sy \in Nat
        BY <1>1, <1>3
      <4> QED BY <1>3, <1>4, <3>1, <4>1
    <3> QED BY <1>1, <1>3, <3>2
  <2> QED BY <2>1 DEF q
<1>9. 2 * One <= q /\ q < 8 * One
  <2> HIDE DEF sx, sy, q, a, d
  <2>1. CASE q < 2 * One
    <3>1. sy * q <= sy * (2 * One - 1) /\ sy * (2 * One - 1) = 2 * (One * sy) - sy /\ sy * q \in Nat /\ One * sy \in Nat
      BY <1>1, <1>3, <1>4, <2>1
    <3>2. (8 * One) * sx < 4 * (One * sy)
      BY <1>3, <1>4, <3>1
    <3>3. One * sy <= One * (2 * One) /\ One * One <= One * sx /\ (8 * One) * sx = 8 * (One * sx) /\ One * (2 * One) = 2 * (One * One)
         /\ One * One \in Nat /\ One * sx \in Nat
      BY <1>1, <1>2, <1>3
    <3>4. One * One > 0
      BY <1>1
    <3> QED BY <3>1, <3>2, <3>3, <3>4
  <2>2. CASE q >= 8 * One
    <3>1. sy * (8 * One) <= sy * q /\ sy * (8 * One) = (8 * One) * sy /\ sy * q \in Nat /\ (8 * One) * sy \in Nat
         /\ (8 * One) * sx < (8 * One) * (2 * sy) /\ (8 * One) * (2 * sy) = 2 * ((8 * One) * sy) /\ (8 * One) * sx \in Nat
      BY <1>1, <1>3, <1>4, <2>2
    <3> QED BY <1>4, <3>1
  <2> QED BY <1>1, <1>4, <2>1, <2>2
<1>10. u \in Nat /\ u + j + l = c /\ l \in {0, 1} /\ exp = u + EMIN /\ exp \in Int
  <2>1. l \in {0, 1}
    OBVIOUS
  <2>2. u + j + l = c /\ exp = u + EMIN /\ u \in Int /\ exp \in Int
    <3> HIDE DEF l
    <3> QED BY <1>1, <1>2, <2>1
  <2>3. ASSUME u < 0 PROVE FALSE
    <3>1. c < j + l
      <4> HIDE DEF l, u, j, c
      <4> QED BY <1>2, <2>1, <2>2, <2>3
    <3>2. sx * C < sy * Pj
      <4>1. CASE less
        <5>1. c <= j
          <6> HIDE DEF c, j, less
          <6> QED BY <1>2, <1>5, <3>1, <4>1
        <5>2. C <= Pj /\ sx < sy
          <6> HIDE DEF c, j, less
          <6> QED BY <1>2, <1>5, <1>8, <4>1, <5>1, Pow2Mono
        <5> HIDE DEF C, Pj, sx, sy
        <5>3. sx * C < sy * C /\ sy * C <= sy * Pj
          BY <1>3, <1>5, <5>2
        <5>4. sx * C \in Int /\ sy * C \in Int /\ sy * Pj \in Int
          BY <1>3, <1>5
        <5> QED BY <5>3, <5>4
      <4>2. CASE ~less
        <5>1. c < j
          <6> HIDE DEF c, j, less
          <6> QED BY <1>2, <1>5, <3>1, <4>2
        <5>2. 2 * C <= Pj
          <6> HIDE DEF c, j, less
          <6> QED BY <1>2, <1>5, <5>1, Pow2Mono
        <5> HIDE DEF C, Pj, sx, sy
        <5>3. sx * C < (2 * sy) * C /\ (2 * sy) * C = sy * (2 * C) /\ sy * (2 * C) <= sy * Pj
          BY <1>3, <1>5, <5>2
        <5>4. sx * C \in Int /\ sy * (2 * C) \in Int /\ sy * Pj \in Int
          BY <1>3, <1>5
        <5> QED BY <5>3, <5>4
      <4> QED BY <4>1, <4>2
    <3>3. sx * C \in Int /\ sy * Pj \in Int
      <4> HIDE DEF C, Pj, sx, sy
      <4> QED BY <1>3, <1>5
    <3> HIDE DEF sx, sy, C, Pj, mag, my
    <3> QED BY <1>2, <1>6, <1>7, <3>2, <3>3
  <2> HIDE DEF u, exp, l, c
  <2> QED BY <2>1, <2>2, <2>3
<1> DEFINE B == my * Pow2[u]
<1>11. B \in Nat \ {0} /\ One * B * (IF less THEN 2 ELSE 1) = sy * C
  <2> DEFINE U == Pow2[u]
             L == Pow2[l]
  <2> HIDE DEF u, j, l, c, my, sy
  <2>1. U \in Nat \ {0} /\ L \in Nat /\ C = (U * Pj) * L
    <3>1. u + j \in Nat /\ l \in Nat
      BY <1>2, <1>10
    <3>2. Pow2[(u + j) + l] = Pow2[u + j] * Pow2[l] /\ Pow2[u + j] = Pow2[u] * Pow2[j]
      BY <1>2, <1>10, <3>1, Pow2Sum
    <3> QED BY <1>2, <1>10, <3>1, <3>2, Pow2Facts
  <2>2. L = IF less THEN 2 ELSE 1
    <3>1. Pow2[0] = 1 /\ Pow2[0 + 1] = 2 * Pow2[0] /\ 0 + 1 = 1
      BY Pow2Facts
    <3> QED BY <3>1 DEF l
  <2> HIDE DEF U, L, C, Pj
  <2>3. One * (my * U) = (sy * Pj) * U /\ ((sy * Pj) * U) * L = sy * ((U * Pj) * L)
    <3>1. One * (my * U) = (One * my) * U
      BY <1>1, <1>2, <2>1
    <3>2. ((sy * Pj) * U) * L = sy * ((U * Pj) * L)
      BY <1>3, <1>5, <2>1
    <3> QED BY <1>2, <3>1, <3>2
  <2>4. my * U \in Nat \ {0}
    BY <1>2, <2>1
  <2> QED BY <2>1, <2>2, <2>3, <2>4 DEF U
<1>12. (8 * One) * mag = C * a + (2 * q) * (sy * C) /\ C * a < 2 * (sy * C) /\ (C * a = 0 <=> a = 0)
       /\ C * a \in Nat /\ sy * C \in Nat
  <2> HIDE DEF sx, sy, q, a, C, c, d, mag
  <2>1. (8 * One) * (sx * C) = ((8 * One) * sx) * C
    BY <1>1, <1>3, <1>5
  <2>2. (a + 2 * (sy * q)) * C = C * a + (2 * q) * (sy * C)
    BY <1>3, <1>4, <1>5
  <2>3. C * a < C * (2 * sy) /\ C * (2 * sy) = 2 * (sy * C) /\ (C * a = 0 <=> a = 0) /\ C * a \in Nat /\ sy * C \in Nat
    BY <1>3, <1>4, <1>5
  <2> QED BY <1>4, <1>6, <2>1, <2>2, <2>3
<1> DEFINE kept == (IF less THEN 2 * q ELSE q) \div 4
           rb == (IF less THEN 2 * q ELSE q) % 4 >= 2
           st == (IF less THEN 2 * q ELSE q) % 2 = 1 \/ a # 0
           r == FRound(sign, kept, rb, st, exp, mode)
<1>13. kept \in One .. 2 * One - 1 /\ rb \in BOOLEAN /\ st \in BOOLEAN
  <2>1. kept \in One .. 2 * One - 1
    <3> HIDE DEF q, a, d
    <3>1. CASE q < 4 * One
      <4>1. (2 * q) \div 4 \in One .. 2 * One - 1
        BY <1>1, <1>4, <1>9, <3>1
      <4> QED BY <3>1, <4>1 DEF q
    <3>2. CASE ~(q < 4 * One)
      <4>1. q \div 4 \in One .. 2 * One - 1
        BY <1>1, <1>4, <1>9, <3>2
      <4> QED BY <3>2, <4>1 DEF q
    <3> QED BY <3>1, <3>2
  <2> QED BY <2>1
<1>14. RoundingBits(kept, rb, st, mag, B)
  <2>1. CASE ~less
    <3>1. sy * C = One * B /\ One * B \in Nat
      <4> HIDE DEF less, B, sy, C
      <4>1. One * B * 1 = One * B
        BY <1>1, <1>11
      <4> QED BY <1>1, <1>11, <2>1, <4>1
    <3>2. q * B <= 4 * mag /\ 4 * mag < q * B + B /\ ((4 * mag = q * B) <=> (a = 0))
      <4> HIDE DEF q, B, C, c, sy, a, mag, less, d
      <4>1. (8 * One) * mag = (4 * mag) * (2 * One) /\ (2 * q) * (One * B) = (q * B) * (2 * One) /\ q * B \in Nat
        BY <1>1, <1>4, <1>6, <1>11
      <4>2. (q * B + B) * (2 * One) = (q * B) * (2 * One) + 2 * (One * B) /\ (q * B) * (2 * One) \in Nat
        <5>1. \A X, Y, Z \in Nat : (X + Y) * (2 * Z) = X * (2 * Z) + 2 * (Z * Y) /\ X * (2 * Z) \in Nat
          OBVIOUS
        <5> QED BY <1>1, <1>11, <4>1, <5>1
      <4>3. /\ (q * B) * (2 * One) <= (4 * mag) * (2 * One)
            /\ (4 * mag) * (2 * One) < (q * B + B) * (2 * One)
            /\ ((4 * mag) * (2 * One) = (q * B) * (2 * One)) <=> (a = 0)
        BY <1>12, <3>1, <4>1, <4>2
      <4>4. 4 * mag \in Int /\ q * B \in Int /\ q * B + B \in Int /\ 2 * One \in Nat /\ 2 * One > 0
        BY <1>1, <1>6, <1>11, <4>1
      <4> QED BY <4>3, <4>4, TimesMono
    <3> HIDE DEF q, B, mag, a, d
    <3>3. RoundingBits(q \div 4, q % 4 >= 2, q % 2 = 1 \/ a # 0, mag, B)
      BY <1>4, <1>6, <1>11, <3>2, QuotientBits
    <3> HIDE DEF less
    <3> QED BY <2>1, <3>3
  <2>2. CASE less
    <3>1. sy * C = 2 * (One * B) /\ One * B \in Nat
      <4> HIDE DEF less, B, sy, C
      <4>1. One * B * 2 = 2 * (One * B)
        BY <1>1, <1>11
      <4> QED BY <1>1, <1>11, <2>2, <4>1
    <3>2. q * B <= 2 * mag /\ 2 * mag < q * B + B /\ ((2 * mag = q * B) <=> (a = 0))
      <4> HIDE DEF q, B, C, c, sy, a, mag, less, d
      <4>1. (8 * One) * mag = (2 * mag) * (4 * One) /\ (2 * q) * (2 * (One * B)) = (q * B) * (4 * One) /\ q * B \in Nat
        BY <1>1, <1>4, <1>6, <1>11
      <4>2. (q * B + B) * (4 * One) = (q * B) * (4 * One) + 4 * (One * B) /\ (q * B) * (4 * One) \in Nat
        <5>1. \A X, Y, Z \in Nat : (X + Y) * (4 * Z) = X * (4 * Z) + 4 * (Z * Y) /\ X * (4 * Z) \in Nat
          OBVIOUS
        <5> QED BY <1>1, <1>11, <4>1, <5>1
      <4>3. /\ (q * B) * (4 * One) <= (2 * mag) * (4 * One)
            /\ (2 * mag) * (4 * One) < (q * B + B) * (4 * One)
            /\ ((2 * mag) * (4 * One) = (q * B) * (4 * One)) <=> (a = 0)
        BY <1>12, <3>1, <4>1, <4>2
      <4>4. 2 * mag \in Int /\ q * B \in Int /\ q * B + B \in Int /\ 4 * One \in Nat /\ 4 * One > 0
        BY <1>1, <1>6, <1>11, <4>1
      <4> QED BY <4>3, <4>4, TimesMono
    <3> HIDE DEF q, B, mag, a, d
    <3>3. RoundingBits((2 * q) \div 4, (2 * q) % 4 >= 2, (2 * q) % 2 = 1 \/ a # 0, mag, B)
      <4>1. q \in Nat /\ a \in Nat /\ mag \in Nat /\ B \in Nat \ {0}
        BY <1>4, <1>6, <1>11
      <4> QED BY <3>2, <4>1, ShortQuotientBits
    <3> HIDE DEF less
    <3> QED BY <2>2, <3>3
  <2> QED BY <2>1, <2>2
<1>15. r = FRound(sign, kept, rb, st, u + EMIN, mode)
  BY <1>10
<1>16. FDivFinite(x, y, mode) = CASE r.exp < EMIN -> Float(sign, 0, r.sig % One)
                                  [] r.exp > EMAX -> RoundedInfinity(sign, mode)
                                  [] OTHER        -> Float(sign, r.exp + BIAS, r.sig % One)
  BY DEF FDivFinite
<1>17. sign \in {0, 1}
  BY DEF XorSign
<1>18. Representable(mag, my, mode)
  OBVIOUS
<1> DEFINE up == RoundUp(sign, kept, rb, st, mode)
<1> HIDE DEF sign, kept, rb, st, u, mag, my, exp
<1>19. /\ up /\ kept = 2 * One - 1 => r = [sig |-> One, exp |-> u + EMIN + 1]
       /\ ~(up /\ kept = 2 * One - 1) => r.exp = u + EMIN
  <2> HIDE DEF up, r
  <2>1. CASE up
    <3>1. kept + 1 = 2 * One <=> kept = 2 * One - 1
      BY <1>1, <1>13
    <3> QED BY <1>1, <1>15, <2>1, <3>1 DEF FRound, up
  <2>2. CASE ~up
    <3>1. kept # 2 * One
      BY <1>1, <1>13
    <3> QED BY <1>15, <2>2, <3>1 DEF FRound, up
  <2> QED BY <2>1, <2>2
<1> HIDE DEF r
<1>20. ~(r.exp < EMIN) /\ r.exp \in Int
  BY <1>1, <1>10, <1>19
<1>21. CASE u + 1 < ExpOnes
  <2>1. Rounded(Float(sign, r.exp + BIAS, r.sig % One), sign, mag, my, mode)
    BY <1>2, <1>6, <1>10, <1>13, <1>14, <1>15, <1>17, <1>21, RoundedFloat DEF B
  <2>2. CASE r.exp > EMAX
    <3>1. up /\ kept = 2 * One - 1 /\ u + EMIN + 1 > EMAX /\ r = [sig |-> One, exp |-> u + EMIN + 1]
      BY <1>1, <1>10, <1>19, <1>21, <2>2, FormatFacts
    <3>2. r.exp + BIAS = ExpOnes /\ r.sig % One = 0
      BY <1>1, <1>10, <1>21, <3>1, FormatFacts
    <3>3. Float(sign, r.exp + BIAS, r.sig % One) = Inf(sign)
      BY <3>2 DEF Inf
    <3>4. RoundedInfinity(sign, mode) = Inf(sign)
      <4>1. ~(mode = RTZ \/ (mode = RDN /\ sign = 0) \/ (mode = RUP /\ sign = 1))
        BY <1>1, <1>13, <1>17, <3>1, RoundUpByMode
      <4> QED BY <4>1 DEF RoundedInfinity
    <3>5. FDivFinite(x, y, mode) = RoundedInfinity(sign, mode)
      BY <1>16, <1>20, <2>2
    <3> QED BY <2>1, <3>3, <3>4, <3>5 DEF mag, my, sign
  <2>3. CASE ~(r.exp > EMAX)
    <3>1. FDivFinite(x, y, mode) = Float(sign, r.exp + BIAS, r.sig % One)
      BY <1>16, <1>20, <2>3
    <3> QED BY <2>1, <3>1 DEF mag, my, sign
  <2> QED BY <2>2, <2>3
<1>22. CASE ~(u + 1 < ExpOnes)
  <2>1. u >= 2 * EMAX /\ kept \in Nat /\ One <= kept /\ r.exp > EMAX
    BY <1>1, <1>10, <1>13, <1>19, <1>22, FormatFacts
  <2>2. kept * (my * Pow2[u]) <= mag
    BY <1>14 DEF RoundingBits, B
  <2>3. mode \in {RNE, RMM} /\ Rounded(Inf(sign), sign, mag, my, mode)
    BY <1>2, <1>6, <1>10, <1>17, <1>18, <2>1, <2>2, TooLarge
  <2>4. RoundedInfinity(sign, mode) = Inf(sign)
    BY <2>3 DEF RoundedInfinity, RNE, RMM, RTZ, RDN, RUP
  <2>5. FDivFinite(x, y, mode) = RoundedInfinity(sign, mode)
    BY <1>16, <1>20, <2>1
  <2> QED BY <2>3, <2>4, <2>5 DEF mag, my, sign
<1> QED BY <1>21, <1>22

(* The root loop.                                                           *)
RootState == [q : Nat, rem : Nat, x : Nat]
(* A step of the square root.                                               *)
Rooted(p) ==
    LET ac == 4 * p.rem + p.x \div (2 * One)
        t  == ac - (4 * p.q + 1)
        x  == (p.x % (2 * One)) * 4
    IN  IF t < 0 THEN [q |-> 2 * p.q,     rem |-> ac, x |-> x]
                 ELSE [q |-> 2 * p.q + 1, rem |-> t,  x |-> x]

(* A step of the square root keeps its registers natural numbers.           *)
LEMMA RootedTyped == \A p \in RootState : Rooted(p) \in RootState
<1> SUFFICES ASSUME NEW p \in RootState PROVE Rooted(p) \in RootState
  OBVIOUS
<1> DEFINE top == p.x \div (2 * One)
           low == p.x % (2 * One)
           ac == 4 * p.rem + top
           t  == ac - (4 * p.q + 1)
<1>1. One \in Nat /\ One >= 2
  BY FormatFacts
<1>2. p.q \in Nat /\ p.rem \in Nat /\ p.x \in Nat
  BY DEF RootState
<1>3. top \in Nat /\ low \in Nat
  BY <1>1, <1>2
<1>4. Rooted(p) = IF t < 0 THEN [q |-> 2 * p.q,     rem |-> ac, x |-> low * 4]
                           ELSE [q |-> 2 * p.q + 1, rem |-> t,  x |-> low * 4]
  BY DEF Rooted
<1> HIDE DEF top, low
<1>5. ac \in Nat /\ t \in Int /\ low * 4 \in Nat /\ 2 * p.q \in Nat /\ 2 * p.q + 1 \in Nat /\ (~(t < 0) => t \in Nat)
  BY <1>2, <1>3
<1> HIDE DEF ac, t
<1> QED BY <1>4, <1>5 DEF RootState

(* The loop of the square root, as a function on all natural numbers.       *)
LEMMA RootStepsExist ==
    ASSUME NEW R \in Nat
    PROVE  \E g : /\ g[0] = [q |-> 0, rem |-> 0, x |-> R] /\ RootSteps(R) = g[NSIG + 2]
                  /\ \A n \in 0 .. NSIG + 1 : g[n + 1] = Rooted(g[n])
<1> DEFINE K == NSIG + 2
           base == [q |-> 0, rem |-> 0, x |-> R]
           next == [p \in RootState |-> Rooted(p)]
           body(f, n) == IF n = 0 THEN [q |-> 0, rem |-> 0, x |-> R]
                         ELSE LET p  == f[n - 1]
                                  ac == 4 * p.rem + p.x \div (2 * One)
                                  t  == ac - (4 * p.q + 1)
                                  x  == (p.x % (2 * One)) * 4
                              IN  IF t < 0 THEN [q |-> 2 * p.q,     rem |-> ac, x |-> x]
                                           ELSE [q |-> 2 * p.q + 1, rem |-> t,  x |-> x]
           step == CHOOSE f : f = [n \in 0 .. K |-> body(f, n)]
<1>1. K \in Nat /\ K - 1 = NSIG + 1 /\ K \in 0 .. K /\ NSIG \in Nat
  BY FormatFacts
<1>2. base \in RootState /\ next \in [RootState -> RootState]
  BY RootedTyped DEF RootState
<1>3. PICK h : StartsAs(h, K, RootState, base, next)
  <2> HIDE DEF K, base, next
  <2> QED BY <1>1, <1>2, StartsExist
<1>4. h \in [0 .. K -> RootState] /\ h[0] = base /\ \A n \in 0 .. K - 1 : h[n + 1] = Rooted(h[n])
  <2>1. h \in [0 .. K -> RootState] /\ h[0] = base /\ \A n \in 0 .. K - 1 : h[n + 1] = next[h[n]]
    BY <1>3 DEF StartsAs
  <2>2. \A n \in 0 .. K - 1 : n \in 0 .. K
    BY <1>1
  <2> HIDE DEF K
  <2>3. \A n \in 0 .. K - 1 : h[n] \in RootState
    BY <2>1, <2>2
  <2> QED BY <2>1, <2>3
<1>5. h = [n \in 0 .. K |-> body(h, n)]
  <2>1. ASSUME NEW n \in 0 .. K PROVE h[n] = body(h, n)
    <3>1. CASE n = 0
      BY <1>4, <3>1
    <3>2. CASE n # 0
      <4>1. n - 1 \in 0 .. K - 1 /\ (n - 1) + 1 = n
        BY <1>1, <3>2
      <4>2. h[(n - 1) + 1] = Rooted(h[n - 1])
        BY <1>4, <4>1
      <4> QED BY <3>2, <4>1, <4>2 DEF Rooted
    <3> QED BY <3>1, <3>2
  <2> HIDE DEF body
  <2>2. h = [n \in 0 .. K |-> h[n]]
    BY <1>4
  <2> QED BY <2>1, <2>2
<1>6. step = [n \in 0 .. K |-> body(step, n)]
  <2> HIDE DEF body
  <2> QED BY <1>5
<1>7. RootSteps(R) = step[K]
  BY DEF RootSteps
<1> HIDE DEF step
<1>8. step[0] = [q |-> 0, rem |-> 0, x |-> R] /\ \A n \in 0 .. NSIG + 1 : step[n + 1] = Rooted(step[n])
  <2>1. step[0] = body(step, 0)
    <3> HIDE DEF body
    <3> QED BY <1>1, <1>6
  <2>2. ASSUME NEW n \in 0 .. NSIG + 1 PROVE step[n + 1] = Rooted(step[n])
    <3>1. n + 1 \in 0 .. K /\ n + 1 # 0 /\ (n + 1) - 1 = n
      BY <1>1
    <3>2. step[n + 1] = body(step, n + 1)
      <4> HIDE DEF body
      <4> QED BY <1>6, <3>1
    <3> QED BY <3>1, <3>2 DEF Rooted
  <2> QED BY <2>1, <2>2
<1> QED BY <1>7, <1>8

(* Root and remainder belong to the radicand.                               *)
LEMMA RootStepsFacts ==
    ASSUME NEW R \in Nat, R < 4 * One
    PROVE  LET d == RootSteps(R)
           IN  d.q \in Nat /\ d.rem \in Nat /\ d.rem <= 2 * d.q /\ d.q * d.q + d.rem = 2 * (One * R)
<1>1. PICK g : /\ g[0] = [q |-> 0, rem |-> 0, x |-> R] /\ RootSteps(R) = g[NSIG + 2]
               /\ \A n \in 0 .. NSIG + 1 : g[n + 1] = Rooted(g[n])
  BY RootStepsExist
<1> DEFINE I == {n \in Nat : /\ g[n].q \in Nat /\ g[n].rem \in Nat /\ g[n].x \in Nat
                             /\ g[n].rem <= 2 * g[n].q /\ g[n].x < 8 * One
                             /\ (Pow2[n] * Pow2[n]) * R = (8 * One) * (g[n].q * g[n].q + g[n].rem) + g[n].x}
           K == NSIG + 2
<1>2. K \in Nat /\ K - 1 = NSIG + 1 /\ One \in Nat /\ One >= 2
  BY FormatFacts
<1>3. 0 \in I
  <2>1. g[0].q = 0 /\ g[0].rem = 0 /\ g[0].x = R /\ Pow2[0] = 1
    BY <1>1, Pow2Facts
  <2>2. (1 * 1) * R = (8 * One) * (0 * 0 + 0) + R
    BY <1>2
  <2>3. (Pow2[0] * Pow2[0]) * R = (8 * One) * (g[0].q * g[0].q + g[0].rem) + g[0].x
    BY <2>1, <2>2
  <2>4. g[0].q \in Nat /\ g[0].rem \in Nat /\ g[0].x \in Nat /\ g[0].rem <= 2 * g[0].q /\ g[0].x < 8 * One
    BY <1>2, <2>1
  <2> QED BY <2>3, <2>4
<1>4. ASSUME NEW n \in 0 .. K - 1, n \in I PROVE n + 1 \in I
  <2> DEFINE q == g[n].q
             rem == g[n].rem
             x == g[n].x
             P == Pow2[n]
             top == x \div (2 * One)
             low == x % (2 * One)
             ac == 4 * rem + top
             t == ac - (4 * q + 1)
  <2>1. /\ q \in Nat /\ rem \in Nat /\ x \in Nat /\ rem <= 2 * q /\ x < 8 * One
        /\ (P * P) * R = (8 * One) * (q * q + rem) + x
    BY <1>4
  <2>2. g[n + 1] = IF t < 0 THEN [q |-> 2 * q,     rem |-> ac, x |-> low * 4]
                            ELSE [q |-> 2 * q + 1, rem |-> t,  x |-> low * 4]
    BY <1>1, <1>2 DEF Rooted
  <2>3. n \in Nat /\ n + 1 \in Nat /\ Pow2[n + 1] = 2 * P /\ P \in Nat
    BY <1>2, Pow2Facts
  <2> HIDE DEF q, rem, x
  <2>4. top \in 0 .. 3 /\ low \in 0 .. 2 * One - 1 /\ x = top * (2 * One) + low
    <3> DEFINE O == 2 * One
               a == x \div O
               b == x % O
    <3>1. O \in Nat \ {0} /\ x < 4 * O
      BY <1>2, <2>1
    <3> HIDE DEF O
    <3>2. a \in Nat /\ b \in 0 .. O - 1 /\ x = a * O + b
      BY <2>1, <3>1
    <3> HIDE DEF a, b
    <3>3. a * O < 4 * O
      BY <2>1, <3>1, <3>2
    <3>4. a < 4
      BY <3>1, <3>2, <3>3, TimesMono
    <3> QED BY <3>2, <3>4 DEF a, b, O
  <2> HIDE DEF top, low
  <2>5. ac \in Nat /\ t \in Int /\ low * 4 \in Nat /\ low * 4 < 8 * One
    BY <1>2, <2>1, <2>4
  <2>6. ((2 * P) * (2 * P)) * R = (8 * One) * (4 * (q * q) + ac) + low * 4
    <3> DEFINE Q == q * q
    <3>1. ((2 * P) * (2 * P)) * R = 4 * ((P * P) * R)
      BY <2>3
    <3>2. Q \in Nat
      BY <2>1
    <3> HIDE DEF Q
    <3>3. (8 * One) * (4 * Q + ac) = 4 * ((8 * One) * (Q + rem)) + (8 * One) * top
      <4>1. 4 * Q + ac = 4 * (Q + rem) + top
        BY <2>1, <2>4, <3>2
      <4>2. \A X, Y, Z \in Nat : X * (4 * Y + Z) = 4 * (X * Y) + X * Z
        OBVIOUS
      <4> QED BY <1>2, <2>1, <2>4, <3>2, <4>1, <4>2
    <3>4. 4 * x = (8 * One) * top + low * 4
      BY <1>2, <2>4
    <3>5. (8 * One) * (Q + rem) \in Nat /\ (8 * One) * top \in Nat
      BY <1>2, <2>1, <2>4, <3>2
    <3>6. (P * P) * R = (8 * One) * (Q + rem) + x
      BY <2>1 DEF Q
    <3>7. 4 * ((P * P) * R) = (8 * One) * (4 * Q + ac) + low * 4
      BY <2>1, <2>4, <3>3, <3>4, <3>5, <3>6
    <3> QED BY <3>1, <3>7 DEF Q
  <2>7. CASE t < 0
    <3>1. g[n + 1].q = 2 * q /\ g[n + 1].rem = ac /\ g[n + 1].x = low * 4
      BY <2>2, <2>7
    <3>2. ac <= 2 * (2 * q) /\ 2 * q \in Nat /\ (2 * q) * (2 * q) = 4 * (q * q)
      BY <2>1, <2>5, <2>7
    <3> HIDE DEF ac, t
    <3> QED BY <2>3, <2>5, <2>6, <3>1, <3>2
  <2>8. CASE ~(t < 0)
    <3>1. g[n + 1].q = 2 * q + 1 /\ g[n + 1].rem = t /\ g[n + 1].x = low * 4
      BY <2>2, <2>8
    <3>2. t <= 2 * (2 * q + 1) /\ 2 * q + 1 \in Nat /\ t \in Nat
      BY <2>1, <2>4, <2>5, <2>8
    <3>3. (2 * q + 1) * (2 * q + 1) + t = 4 * (q * q) + ac
      <4>1. (2 * q + 1) * (2 * q + 1) = 4 * (q * q) + (4 * q + 1) /\ 4 * (q * q) \in Nat
        BY <2>1
      <4> QED BY <2>1, <2>5, <4>1
    <3> HIDE DEF ac, t
    <3> QED BY <2>3, <2>5, <2>6, <3>1, <3>2, <3>3
  <2> QED BY <2>7, <2>8
<1> HIDE DEF I, K
<1>5. K \in I
  BY <1>2, <1>3, <1>4, LoopInvariant
<1>6. Pow2[NSIG + 2] = 4 * One
  <2>1. NSIG \in Nat /\ NSIG + 1 \in Nat
    BY FormatFacts
  <2>2. Pow2[NSIG + 1] = 2 * Pow2[NSIG] /\ Pow2[(NSIG + 1) + 1] = 2 * Pow2[NSIG + 1] /\ (NSIG + 1) + 1 = NSIG + 2
    BY <2>1, Pow2Facts
  <2> QED BY <2>2, FormatFacts
<1> DEFINE q == g[NSIG + 2].q
           rem == g[NSIG + 2].rem
           x == g[NSIG + 2].x
<1>7. /\ q \in Nat /\ rem \in Nat /\ x \in Nat /\ rem <= 2 * q /\ x < 8 * One
      /\ ((4 * One) * (4 * One)) * R = (8 * One) * (q * q + rem) + x
  BY <1>5, <1>6 DEF I, K
<1> HIDE DEF q, rem, x
<1>8. q * q + rem = 2 * (One * R)
  <2> DEFINE A == q * q + rem
             B == 2 * (One * R)
             O == 8 * One
  <2>1. A \in Nat /\ B \in Nat /\ O \in Nat \ {0}
    BY <1>2, <1>7
  <2>2. O * B = O * A + x
    <3>1. ((4 * One) * (4 * One)) * R = (8 * One) * (2 * (One * R))
      BY <1>2
    <3> QED BY <1>7, <3>1
  <2>3. x < O
    BY <1>7
  <2> HIDE DEF A, B, O
  <2>4. A <= B
    <3>1. A * O <= B * O
      BY <1>7, <2>1, <2>2
    <3> QED BY <2>1, <3>1, TimesMono
  <2>5. B < A + 1
    <3>1. B * O < (A + 1) * O
      BY <1>7, <2>1, <2>2, <2>3
    <3> QED BY <2>1, <3>1, TimesMono
  <2>6. A = B
    BY <2>1, <2>4, <2>5
  <2> QED BY <2>6 DEF A, B
<1> QED BY <1>1, <1>7, <1>8 DEF q, rem

(* Squares are ordered as their roots.                                      *)
LEMMA SquareOrder ==
    ASSUME NEW a \in Nat, NEW b \in Nat
    PROVE  /\ a < b => a * a < b * b
           /\ a <= b => a * a <= b * b
           /\ a * a < b * b => a < b
           /\ a * a <= b * b => a <= b
<1>1. \A m, n \in Nat : m <= n => m * m <= n * n
  <2> SUFFICES ASSUME NEW m \in Nat, NEW n \in Nat, m <= n PROVE m * m <= n * n
    OBVIOUS
  <2>1. m * m <= m * n /\ m * n <= n * n /\ m * m \in Int /\ m * n \in Int /\ n * n \in Int
    OBVIOUS
  <2> QED BY <2>1
<1>2. \A m, n \in Nat : m < n => m * m < n * n
  <2> SUFFICES ASSUME NEW m \in Nat, NEW n \in Nat, m < n PROVE m * m < n * n
    OBVIOUS
  <2>1. m * m <= m * n /\ m * n < n * n /\ m * m \in Int /\ m * n \in Int /\ n * n \in Int
    OBVIOUS
  <2> QED BY <2>1
<1>3. a * a \in Int /\ b * b \in Int /\ (a < b \/ a = b \/ b < a)
  OBVIOUS
<1> QED BY <1>1, <1>2, <1>3

(* The exact square, from the significand of the operand and the exponent   *)
(* of the root.                                                             *)
LEMMA SqrtExponents ==
    ASSUME NEW x \in Floats, Class(x) \in {"NORM", "SUB"}, Exp(x) >= 2 * EMIN,
           NEW u \in Nat, NEW o \in {0, 1}, Exp(x) = 2 * (u + EMIN) + o
    PROVE  PerUnit * Magnitude(Rank(x)) = Pow2[o] * ((One * Sig(x)) * (Pow2[u] * Pow2[u]))
<1> DEFINE S == Sig(x)
           M == Magnitude(Rank(x))
           i == Exp(x) - EMIN + NSIG
           j == NSIG + EMAX - 1
           O == Pow2[o]
           U == Pow2[u]
           I == Pow2[i]
           J == Pow2[j]
<1>1. /\ One \in Nat /\ One >= 2 /\ NSIG \in Nat /\ One = Pow2[NSIG]
      /\ EMIN = 1 - EMAX /\ EMAX \in Nat /\ EMAX >= 1 /\ PerUnit = J /\ j \in Nat
  BY FormatFacts
<1>2. i \in Nat /\ One * M = S * I /\ M \in Nat /\ S \in Nat /\ Exp(x) \in Int
  BY <1>1, Significand, MagnitudeStep
<1>3. i + j = o + ((u + u) + (NSIG + NSIG))
  BY <1>1, <1>2
<1>4. O \in Nat /\ U \in Nat /\ I \in Nat /\ J \in Nat /\ I * J = O * ((U * U) * (One * One))
  <2> HIDE DEF i, j
  <2>1. I * J = Pow2[i + j]
    BY <1>1, <1>2, Pow2Sum
  <2>0. \A k, m, n \in Nat : k = m + n => Pow2[k] = Pow2[m] * Pow2[n]
    BY Pow2Sum
  <2>2. Pow2[u + u] = U * U /\ Pow2[NSIG + NSIG] = One * One /\ u + u \in Nat /\ NSIG + NSIG \in Nat
    <3>1. u + u \in Nat /\ NSIG + NSIG \in Nat
      BY <1>1
    <3> QED BY <1>1, <2>0, <3>1
  <2>3. Pow2[(u + u) + (NSIG + NSIG)] = (U * U) * (One * One) /\ (u + u) + (NSIG + NSIG) \in Nat /\ o \in Nat
    <3>1. (u + u) + (NSIG + NSIG) \in Nat
      BY <2>2
    <3> QED BY <2>0, <2>2, <3>1
  <2>4. Pow2[o + ((u + u) + (NSIG + NSIG))] = O * ((U * U) * (One * One))
    BY <2>3, Pow2Sum
  <2> QED BY <1>1, <1>2, <1>3, <2>1, <2>3, <2>4, Pow2Facts
<1> HIDE DEF S, M, O, U, I, J, i, j
<1>5. One * (J * M) = One * (O * ((One * S) * (U * U)))
  <2>1. One * (J * M) = J * (One * M)
    BY <1>1, <1>2, <1>4
  <2>2. J * (S * I) = S * (I * J)
    BY <1>2, <1>4
  <2> DEFINE X == U * U
  <2>3. X \in Nat
    BY <1>4
  <2> HIDE DEF X
  <2>4. S * (O * (X * (One * One))) = One * (O * ((One * S) * X))
    <3>1. \A a, b, c, d \in Nat : a * (b * (c * (d * d))) = d * (b * ((d * a) * c))
      <4> SUFFICES ASSUME NEW a \in Nat, NEW b \in Nat, NEW c \in Nat, NEW d \in Nat
                   PROVE  a * (b * (c * (d * d))) = d * (b * ((d * a) * c))
        OBVIOUS
      <4>1. c * (d * d) = d * (d * c) /\ (d * a) * c = a * (d * c) /\ d * c \in Nat
        OBVIOUS
      <4> DEFINE z == d * c
      <4> HIDE DEF z
      <4>2. a * (b * (d * z)) = d * (b * (a * z))
        BY <4>1 DEF z
      <4> QED BY <4>1, <4>2 DEF z
    <3> QED BY <1>1, <1>2, <1>4, <2>3, <3>1
  <2> QED BY <1>1, <1>2, <1>4, <2>1, <2>2, <2>4 DEF X
<1>6. J * M \in Nat /\ O * ((One * S) * (U * U)) \in Nat
  <2>1. U * U \in Nat /\ One * S \in Nat /\ J * M \in Nat
    BY <1>1, <1>2, <1>4
  <2> DEFINE X == U * U
             Y == One * S
  <2> HIDE DEF X, Y
  <2>2. Y * X \in Nat
    BY <2>1 DEF X, Y
  <2> DEFINE Z == Y * X
  <2> HIDE DEF Z
  <2>3. O * Z \in Nat
    BY <1>4, <2>2 DEF Z
  <2> QED BY <2>1, <2>3 DEF X, Y, Z
<1> DEFINE L == J * M
           N == O * ((One * S) * (U * U))
<1> HIDE DEF L, N
<1>7. L * One = N * One /\ L \in Nat /\ N \in Nat
  BY <1>1, <1>5, <1>6 DEF L, N
<1>8. L = N
  BY <1>1, <1>7, TimesMono
<1> QED BY <1>1, <1>8 DEF L, N, S, M, O, U, J

(* The bits of the root that are kept, h, are its floor.                    *)
LEMMA RootFloor ==
    ASSUME NEW S \in One .. 2 * One - 1, NEW o \in {0, 1}
    PROVE  LET d == RootSteps(IF o = 1 THEN S ELSE 2 * S)
               h == IF o = 1 THEN d.q ELSE d.q \div 2
               T == Pow2[o] * (One * S)
           IN  /\ h \in One .. 2 * One - 1 /\ T \in Nat /\ d.rem \in Nat
               /\ h * h <= T /\ T < (h + 1) * (h + 1) /\ (d.rem # 0 => h * h < T)
<1> DEFINE R == IF o = 1 THEN S ELSE 2 * S
           d == RootSteps(R)
           q == d.q
           rem == d.rem
           h == IF o = 1 THEN q ELSE q \div 2
           T == Pow2[o] * (One * S)
           A == One * S
<1>1. One \in Nat /\ One >= 2 /\ S \in Nat /\ One <= S /\ S < 2 * One
  BY FormatFacts
<1>2. Pow2[0] = 1 /\ Pow2[1] = 2
  <2>1. Pow2[0 + 1] = 2 * Pow2[0]
    BY Pow2Facts
  <2> QED BY <2>1, Pow2Facts
<1>3. A \in Nat /\ One * One <= A /\ A < 2 * (One * One) /\ One * One \in Nat /\ One * (2 * S) = 2 * A
  BY <1>1
<1>4. q \in Nat /\ rem \in Nat /\ rem <= 2 * q /\ q * q + rem = 2 * (One * R)
  <2>1. R \in Nat /\ R < 4 * One
    BY <1>1
  <2> HIDE DEF R
  <2> QED BY <2>1, RootStepsFacts
<1> HIDE DEF q, rem, d
<1>5. q * q \in Nat /\ (q + 1) * (q + 1) = q * q + 2 * q + 1
  BY <1>4
<1>6. h \in Nat /\ T \in Nat /\ h * h <= T /\ T < (h + 1) * (h + 1) /\ (rem # 0 => h * h < T) /\ One * One <= T /\ T < 4 * (One * One)
  <2>1. CASE o = 1
    <3>1. h = q /\ T = 2 * A /\ R = S
      BY <1>2, <2>1
    <3> HIDE DEF h, T, R
    <3>2. q * q + rem = 2 * A
      BY <1>4, <3>1
    <3> HIDE DEF A
    <3> QED BY <1>3, <1>4, <1>5, <3>1, <3>2
  <2>2. CASE o = 0
    <3>1. h = q \div 2 /\ T = A /\ R = 2 * S
      BY <1>2, <1>3, <2>2
    <3>2. h \in Nat /\ 2 * h <= q /\ q <= 2 * h + 1
      BY <1>4, <3>1
    <3>3. q * q + rem = 4 * A
      BY <1>3, <1>4, <3>1
    <3> HIDE DEF h, T, R, A
    <3>4. (2 * h) * (2 * h) <= q * q /\ (q + 1) * (q + 1) <= (2 * (h + 1)) * (2 * (h + 1))
      <4>1. 2 * h \in Nat /\ q + 1 \in Nat /\ 2 * (h + 1) \in Nat /\ q + 1 <= 2 * (h + 1)
        BY <1>4, <3>2
      <4> QED BY <1>4, <3>2, <4>1, SquareOrder
    <3>5. (2 * h) * (2 * h) = 4 * (h * h) /\ (2 * (h + 1)) * (2 * (h + 1)) = 4 * ((h + 1) * (h + 1)) /\ h * h \in Nat
         /\ (h + 1) * (h + 1) \in Nat
      <4>1. \A n \in Nat : (2 * n) * (2 * n) = 4 * (n * n) /\ n * n \in Nat
        OBVIOUS
      <4>2. h + 1 \in Nat
        BY <3>2
      <4> QED BY <3>2, <4>1, <4>2
    <3> DEFINE H == h * h
               H1 == (h + 1) * (h + 1)
               Q == q * q
               Q1 == (q + 1) * (q + 1)
    <3>6. 4 * H <= Q /\ Q1 <= 4 * H1 /\ H \in Nat /\ H1 \in Nat /\ Q \in Nat /\ Q1 = Q + 2 * q + 1 /\ Q + rem = 4 * A
      BY <1>5, <3>3, <3>4, <3>5
    <3> HIDE DEF H, H1, Q, Q1
    <3>7. H <= A /\ A < H1 /\ (rem # 0 => H < A)
      BY <1>3, <1>4, <3>6
    <3> QED BY <1>3, <3>1, <3>2, <3>7 DEF H, H1
  <2> QED BY <2>1, <2>2
<1> HIDE DEF h, T
<1>7. h < 2 * One
  <2>1. h * h < (2 * One) * (2 * One) /\ 2 * One \in Nat
    <3>1. (2 * One) * (2 * One) = 4 * (One * One) /\ h * h \in Nat
      BY <1>1, <1>6
    <3> QED BY <1>1, <1>3, <1>6, <3>1
  <2> QED BY <1>6, <2>1, SquareOrder
<1>8. One < h + 1
  <2>1. One * One < (h + 1) * (h + 1) /\ h + 1 \in Nat
    <3>1. (h + 1) * (h + 1) \in Nat
      BY <1>6
    <3> QED BY <1>3, <1>6, <3>1
  <2> QED BY <1>1, <2>1, SquareOrder
<1>9. h \in One .. 2 * One - 1 /\ rem \in Nat
  BY <1>1, <1>4, <1>6, <1>7, <1>8
<1> QED BY <1>6, <1>9 DEF h, T, rem, q, d

(* FSQRT delivers a float next to the exact root.                           *)
LEMMA SqrtIsANeighbour ==
    ASSUME NEW x \in Floats, NEW mode \in RoundingModes, Class(x) \in {"NORM", "SUB"}, Exp(x) >= 2 * EMIN
    PROVE  LET y == FSqrtFinite(x, mode)
               k == Rank(y)
               S == PerUnit * Magnitude(Rank(x))
           IN  /\ Finite(y) /\ y.s = 0
               /\ Magnitude(k - 1) * Magnitude(k - 1) < S /\ S < Magnitude(k + 1) * Magnitude(k + 1)
<1> DEFINE E == Exp(x)
           S == Sig(x)
           odd == E % 2 = 1
           o == IF odd THEN 1 ELSE 0
           u == E \div 2 - EMIN
           d == RootSteps(IF odd THEN S ELSE 2 * S)
           h == IF odd THEN d.q ELSE d.q \div 2
           rb == d.rem >= 4 * One
           st == d.rem % (4 * One) # 0
           r == FRound(0, h, rb, st, E \div 2, mode)
           y == Float(0, r.exp + BIAS, r.sig % One)
           P == Pow2[u]
           T == Pow2[o] * (One * S)
           X == PerUnit * Magnitude(Rank(x))
           k == RankAt(u, h)
<1>1. /\ One \in Nat /\ One >= 2 /\ EMIN = 1 - EMAX /\ EMAX \in Nat /\ EMAX >= 1 /\ ExpOnes = 2 * EMAX + 1
      /\ BIAS = EMAX
  BY FormatFacts
<1>2. E \in Int /\ E <= EMAX /\ E >= 2 * EMIN /\ S \in One .. 2 * One - 1 /\ S \in Nat
  BY <1>1, Significand
<1>3. /\ u \in Nat /\ o \in {0, 1} /\ E = 2 * (u + EMIN) + o /\ E \div 2 = u + EMIN
      /\ u + 2 < ExpOnes /\ (odd <=> o = 1)
  <2> HIDE DEF E
  <2> QED BY <1>1, <1>2
<1>4. /\ h \in One .. 2 * One - 1 /\ T \in Nat /\ d.rem \in Nat
      /\ h * h <= T /\ T < (h + 1) * (h + 1) /\ (d.rem # 0 => h * h < T)
  <2> DEFINE e == RootSteps(IF o = 1 THEN S ELSE 2 * S)
             g == IF o = 1 THEN e.q ELSE e.q \div 2
  <2>1. /\ g \in One .. 2 * One - 1 /\ T \in Nat /\ e.rem \in Nat
        /\ g * g <= T /\ T < (g + 1) * (g + 1) /\ (e.rem # 0 => g * g < T)
    <3> HIDE DEF S, o
    <3> QED BY <1>2, <1>3, RootFloor
  <2>2. e = d /\ g = h
    <3>1. odd <=> o = 1
      BY <1>3
    <3> HIDE DEF odd, o
    <3> QED BY <3>1
  <2> HIDE DEF e, g, d, h, T
  <2> QED BY <2>1, <2>2
<1>5. X = T * (P * P) /\ P \in Nat \ {0}
  <2>1. X = Pow2[o] * ((One * S) * (P * P))
    <3> HIDE DEF u, o
    <3> QED BY <1>2, <1>3, SqrtExponents DEF X
  <2>2. Pow2[o] \in Nat /\ P \in Nat \ {0} /\ One * S \in Nat
    <3> HIDE DEF u, o, S
    <3>1. o \in Nat
      BY <1>3
    <3> QED BY <1>1, <1>2, <1>3, <3>1, Pow2Facts
  <2> DEFINE O == Pow2[o]
             Y == One * S
  <2> HIDE DEF O, Y, P
  <2>3. \A a, b, c \in Nat : a * (b * c) = (a * b) * c
    OBVIOUS
  <2>4. P * P \in Nat
    BY <2>2
  <2> QED BY <2>1, <2>2, <2>3, <2>4 DEF O, Y
<1>6. FSqrtFinite(x, mode) = IF r.exp < EMIN THEN Float(0, 0, r.sig % One) ELSE y
  BY DEF FSqrtFinite
<1>7. /\ Rank(y) = k + Up(0, h, rb, st, mode) /\ y.s = 0 /\ ~(r.exp < EMIN) /\ r.exp + BIAS < ExpOnes
      /\ k > 0 /\ k \in Nat /\ Magnitude(k) = h * P /\ Magnitude(k + 1) = (h + 1) * P
      /\ Magnitude(k - 1) \in Nat /\ Magnitude(k + 2) \in Nat
      /\ Magnitude(k - 1) < Magnitude(k) /\ Magnitude(k + 1) < Magnitude(k + 2)
  <2>1. rb \in BOOLEAN /\ st \in BOOLEAN
    OBVIOUS
  <2>2. r = FRound(0, h, rb, st, u + EMIN, mode)
    BY <1>3
  <2> HIDE DEF rb, st, h, u, r
  <2>3. r.exp \in {u + EMIN, u + EMIN + 1}
    BY <2>2 DEF FRound
  <2>4. u + 1 < ExpOnes
    BY <1>1, <1>3
  <2>5. Rank(y) = k + Up(0, h, rb, st, mode) /\ y.s = 0
    BY <1>3, <1>4, <2>1, <2>2, <2>4, Packed
  <2>6. ~(r.exp < EMIN) /\ r.exp + BIAS < ExpOnes
    BY <1>1, <1>3, <2>3
  <2>7. /\ k > 0 /\ k \in Nat /\ Magnitude(k) = h * P /\ Magnitude(k + 1) = (h + 1) * P
        /\ Magnitude(k - 1) \in Nat /\ Magnitude(k + 2) \in Nat
        /\ Magnitude(k - 1) < Magnitude(k) /\ Magnitude(k + 1) < Magnitude(k + 2)
    BY <1>3, <1>4, <2>4, RanksAround
  <2> QED BY <2>5, <2>6, <2>7
<1>8. Finite(y)
  BY <1>1, <1>7, SMTT(30) DEF Finite, Float
<1>9. RoundUp(0, h, rb, st, mode) => d.rem # 0
  <2>1. RoundUp(0, h, rb, st, mode) => rb \/ st
    <3>1. rb \in BOOLEAN /\ st \in BOOLEAN /\ h \in Nat
      BY <1>1, <1>4
    <3> HIDE DEF rb, st, h
    <3> QED BY <3>1, RoundUpByMode DEF RoundingModes
  <2>2. rb \/ st => d.rem # 0
    <3>1. ~(0 >= 4 * One) /\ 0 % (4 * One) = 0
      <4> DEFINE F == 4 * One
      <4>1. F \in Nat \ {0}
        BY <1>1
      <4> HIDE DEF F
      <4>2. ~(0 >= F) /\ 0 % F = 0
        BY <4>1
      <4> QED BY <4>2 DEF F
    <3> QED BY <3>1
  <2> QED BY <2>1, <2>2
<1>10. y = FSqrtFinite(x, mode)
  BY <1>6, <1>7
<1> DEFINE Sq(n) == Magnitude(n) * Magnitude(n)
<1>11. /\ Sq(k) = (h * h) * (P * P) /\ Sq(k + 1) = ((h + 1) * (h + 1)) * (P * P)
       /\ Sq(k - 1) < Sq(k) /\ Sq(k + 1) < Sq(k + 2) /\ Sq(k) \in Nat /\ Sq(k + 1) \in Nat
       /\ Sq(k - 1) \in Nat /\ Sq(k + 2) \in Nat
  <2> HIDE DEF h, P, k
  <2>1. h \in Nat /\ h + 1 \in Nat
    BY <1>1, <1>4
  <2>2. \A a, b \in Nat : (a * b) * (a * b) = (a * a) * (b * b) /\ a * b \in Nat
    OBVIOUS
  <2>3. Magnitude(k) \in Nat /\ Magnitude(k + 1) \in Nat
    BY <1>5, <1>7, <2>1, <2>2
  <2>4. Sq(k) = (h * h) * (P * P) /\ Sq(k + 1) = ((h + 1) * (h + 1)) * (P * P)
    BY <1>5, <1>7, <2>1, <2>2
  <2> QED BY <1>7, <2>2, <2>3, <2>4, SquareOrder
<1>12. /\ Sq(k) <= X /\ X < Sq(k + 1) /\ (d.rem # 0 => Sq(k) < X)
  <2> HIDE DEF h, P, k, T, X, d
  <2> DEFINE G == P * P
             a == h * h
             b == (h + 1) * (h + 1)
  <2>1. G \in Nat \ {0} /\ a \in Nat /\ b \in Nat
    BY <1>1, <1>4, <1>5
  <2>2. X = T * G /\ Sq(k) = a * G /\ Sq(k + 1) = b * G /\ a <= T /\ T < b /\ (d.rem # 0 => a < T) /\ T \in Nat
    BY <1>4, <1>5, <1>11
  <2> HIDE DEF G, a, b, Sq
  <2>3. a * G <= T * G /\ T * G < b * G /\ (a < T => a * G < T * G)
    BY <2>1, <2>2, TimesMono
  <2> QED BY <2>2, <2>3
<1>13. X \in Nat
  <2> HIDE DEF X, T, P
  <2>1. P * P \in Nat
    BY <1>5
  <2> DEFINE G == P * P
  <2> HIDE DEF G
  <2> QED BY <1>4, <1>5, <2>1 DEF G
<1>14. LET m == Rank(y) IN Sq(m - 1) < X /\ X < Sq(m + 1)
  <2> HIDE DEF X, d, h, y, rb, st, Sq, k
  <2>1. CASE RoundUp(0, h, rb, st, mode)
    <3>1. Rank(y) = k + 1 /\ (k + 1) - 1 = k /\ (k + 1) + 1 = k + 2
      BY <1>7, <2>1 DEF Up
    <3> QED BY <1>9, <1>11, <1>12, <1>13, <2>1, <3>1
  <2>2. CASE ~RoundUp(0, h, rb, st, mode)
    <3>1. Rank(y) = k
      BY <1>7, <2>2 DEF Up
    <3> QED BY <1>11, <1>12, <1>13, <3>1
  <2> QED BY <2>1, <2>2
<1> QED BY <1>7, <1>8, <1>10, <1>14

(* Shifts and sums of numbers of 2 * (NSIG + 1) bits.                       *)
LEMMA Pow2Split == \A k, m, n \in Nat : k = m + n => Pow2[k] = Pow2[m] * Pow2[n]
  BY Pow2Sum

(* An arithmetic shift right is the quotient by a power of two, rounded     *)
(* down.                                                                    *)
LEMMA ShiftedRight ==
    ASSUME NEW v \in Int, -W < v, v < W, NEW n \in Nat
    PROVE  LET p == WideShiftRight(<<v, 0>>, n)
               F == WideValue(p)
           IN  /\ p[1] \in Int /\ p[2] \in 0 .. W - 1 /\ F \in Int
               /\ F * Pow2[n] <= v * W /\ v * W < (F + 1) * Pow2[n]
               /\ (n <= NSIG + 1 \/ v % Pow2[n - (NSIG + 1)] = 0) => F * Pow2[n] = v * W
               /\ n < NSIG + 1 => F % 2 = 0
<1> DEFINE K == NSIG + 1
           p == WideShiftRight(<<v, 0>>, n)
           F == WideValue(p)
<1>1. W = Pow2[K] /\ W \in Nat /\ W >= 4 /\ K \in Nat /\ NSIG \in Nat
  BY WideFacts, FormatFacts
<1>2. <<v, 0>>[1] = v /\ <<v, 0>>[2] = 0
  OBVIOUS
<1>3. CASE n <= K
  <2> DEFINE m == Pow2[n]
             g == Pow2[K - n]
             a == v \div m
             b == v % m
  <2>1. m \in Nat \ {0} /\ g \in Nat \ {0} /\ W = m * g
    <3>1. K - n \in Nat /\ K = n + (K - n)
      BY <1>1, <1>3
    <3>2. W = Pow2[n] * Pow2[K - n]
      BY <1>1, <3>1, Pow2Split
    <3>3. Pow2[n] \in Nat \ {0} /\ Pow2[K - n] \in Nat \ {0}
      BY <3>1, Pow2Facts
    <3> QED BY <3>2, <3>3
  <2>2. n < K => g % 2 = 0 /\ g = 2 * (g \div 2)
    <3>1. ASSUME n < K PROVE g % 2 = 0 /\ g = 2 * (g \div 2)
      <4>1. K - n - 1 \in Nat /\ (K - n - 1) + 1 = K - n
        BY <1>1, <3>1
      <4>2. g = 2 * Pow2[K - n - 1] /\ Pow2[K - n - 1] \in Nat
        BY <4>1, Pow2Facts
      <4> DEFINE h == Pow2[K - n - 1]
      <4> HIDE DEF g, h
      <4>3. g = 2 * h /\ h \in Nat
        BY <4>2 DEF h
      <4> QED BY <4>3
    <3> QED BY <3>1
  <2>3. p = <<a, b * g + 0 \div m>>
    <3>1. \A w, c, e : w[1] = c /\ w[2] = e =>
            WideShiftRight(w, n) = <<c \div Pow2[n], (c % Pow2[n]) * Pow2[NSIG + 1 - n] + e \div Pow2[n]>>
      BY <1>3 DEF WideShiftRight
    <3>2. NSIG + 1 - n = K - n
      BY <1>1
    <3> QED BY <1>2, <3>1, <3>2
  <2> HIDE DEF m, g
  <2>4. a \in Int /\ b \in 0 .. m - 1 /\ v = a * m + b /\ 0 \div m = 0
    BY <2>1
  <2>5. p = <<a, b * g>>
    <3>1. b * g + 0 = b * g
      <4> HIDE DEF b
      <4> QED BY <2>1, <2>4
    <3> HIDE DEF a, b, p
    <3> QED BY <2>3, <2>4, <3>1
  <2> HIDE DEF a, b, p
  <2>6. F = a * W + b * g
    BY <2>5 DEF WideValue
  <2>7. b * g \in 0 .. W - 1
    <3>1. b * g < m * g /\ b * g \in Nat
      BY <2>1, <2>4
    <3> QED BY <1>1, <2>1, <3>1
  <2>8. F = v * g
    <3>1. (a * m + b) * g = a * (m * g) + b * g
      BY <2>1, <2>4
    <3> QED BY <2>1, <2>4, <2>6, <3>1
  <2>9. F * m = v * W /\ F \in Int
    <3>1. (v * g) * m = v * (m * g) /\ v * g \in Int
      BY <2>1
    <3> QED BY <2>1, <2>8, <3>1
  <2>10. v * W < (F + 1) * m
    <3>1. (F + 1) * m = F * m + m /\ F * m \in Int
      BY <2>1, <2>9
    <3> QED BY <2>1, <2>9, <3>1
  <2>11. n < K => F % 2 = 0
    <3>1. ASSUME n < K PROVE F % 2 = 0
      <4> DEFINE h == g \div 2
      <4>1. h \in Nat /\ g = 2 * h
        BY <2>1, <2>2, <3>1
      <4> HIDE DEF h
      <4>2. F = 2 * (v * h) /\ v * h \in Int
        BY <2>8, <4>1
      <4> DEFINE z == v * h
      <4> HIDE DEF z, F
      <4>3. F = 2 * z /\ z \in Int
        BY <4>2 DEF z
      <4> QED BY <4>3
    <3> QED BY <3>1
  <2>12. F * m <= v * W
    BY <2>1, <2>9, <1>1
  <2> HIDE DEF F
  <2> QED BY <1>3, <2>4, <2>5, <2>7, <2>9, <2>10, <2>11, <2>12 DEF F, m, p, K
<1>4. CASE n > K
  <2> DEFINE k == IF n > 2 * K THEN K ELSE n - K
             D == Pow2[k]
             G == Pow2[n - K]
             z == v \div D
             s == v \div W
  <2>1. k \in Nat /\ k <= K /\ k >= 1
    BY <1>1, <1>4
  <2>2. p = <<s, z % W>>
    <3>1. ~(n <= NSIG + 1) /\ k = IF n > 2 * (NSIG + 1) THEN NSIG + 1 ELSE n - NSIG - 1
      BY <1>1, <1>4
    <3> HIDE DEF k
    <3> QED BY <3>1 DEF WideShiftRight
  <2>3. D \in Nat \ {0} /\ G \in Nat \ {0} /\ Pow2[n] = G * W /\ Pow2[n] \in Nat \ {0}
    <3> HIDE DEF k
    <3>1. n - K \in Nat /\ n = (n - K) + K
      BY <1>1, <1>4
    <3>2. Pow2[n] = G * W
      BY <1>1, <3>1, Pow2Split DEF G
    <3>3. D \in Nat \ {0} /\ G \in Nat \ {0} /\ Pow2[n] \in Nat \ {0}
      BY <2>1, <3>1, Pow2Facts
    <3> QED BY <3>2, <3>3
  <2>4. D <= G /\ (n <= 2 * K => D = G) /\ (n > 2 * K => D = W /\ W < G)
    <3>1. CASE n <= 2 * K
      <4>1. k = n - K /\ ~(n > 2 * K)
        BY <1>1, <3>1
      <4>2. D = G
        <5> HIDE DEF k
        <5> QED BY <4>1
      <4> HIDE DEF D, G
      <4> QED BY <2>3, <4>1, <4>2
    <3>2. CASE n > 2 * K
      <4>1. k = K /\ n - K \in Nat /\ K < n - K
        BY <1>1, <3>2
      <4>2. Pow2[K] <= Pow2[n - K] /\ 2 * Pow2[K] <= Pow2[n - K]
        BY <1>1, <4>1, Pow2Mono
      <4> QED BY <1>1, <2>3, <3>2, <4>1, <4>2
    <3> QED BY <1>1, <3>1, <3>2
  <2> HIDE DEF k, D, G
  <2>5. s = IF v >= 0 THEN 0 ELSE -1
    <3>1. v >= 0 => v = 0 * W + v /\ v \in 0 .. W - 1
      BY <1>1
    <3>2. v < 0 => v = -1 * W + (v + W) /\ v + W \in 0 .. W - 1
      BY <1>1
    <3>3. W \in Nat \ {0} /\ 0 \in Int /\ -1 \in Int
      BY <1>1
    <3> QED BY <3>1, <3>2, <3>3, DivisionUnique
  <2>6. z \in Int /\ z * D <= v /\ v < (z + 1) * D /\ (v >= 0 => z >= 0) /\ (v < 0 => z < 0) /\ z < W /\ -W <= z
    <3>1. z \in Int /\ v % D \in 0 .. D - 1 /\ v = z * D + (v % D)
      BY <2>3
    <3> DEFINE b == v % D
    <3> HIDE DEF z, b
    <3>2. z \in Int /\ b \in 0 .. D - 1 /\ v = z * D + b /\ (z + 1) * D = z * D + D /\ z * D \in Int
      BY <2>3, <3>1 DEF b
    <3>3. z * D <= v /\ v < (z + 1) * D
      BY <2>3, <3>2
    <3>4. v >= 0 => z >= 0
      <4>1. ASSUME v >= 0 PROVE z >= 0
        <5>1. 0 * D < (z + 1) * D
          BY <2>3, <3>2, <3>3, <4>1
        <5>2. 0 < z + 1
          BY <2>3, <3>2, <5>1, TimesMono
        <5> QED BY <3>2, <5>2
      <4> QED BY <4>1
    <3>5. v < 0 => z < 0
      <4>1. ASSUME v < 0 PROVE z < 0
        <5>1. z * D < 0 * D
          BY <2>3, <3>2, <3>3, <4>1
        <5> QED BY <2>3, <3>2, <5>1, TimesMono
      <4> QED BY <4>1
    <3>6. z < W
      <4>1. CASE z >= W
        <5>1. W * D <= z * D /\ W <= W * D
          BY <1>1, <2>3, <3>2, <4>1, TimesMono
        <5>2. W * D \in Int
          BY <1>1, <2>3
        <5> QED BY <1>1, <3>2, <3>3, <5>1, <5>2
      <4> QED BY <1>1, <3>2, <4>1
    <3>7. -W <= z
      <4>1. CASE z + 1 <= -W
        <5>1. (z + 1) * D <= (-W) * D /\ (-W) * D <= -W
          <6>1. (-W) * D <= -W
            BY <1>1, <2>3
          <6>2. -W \in Int /\ z + 1 \in Int
            BY <1>1, <3>2
          <6> QED BY <2>3, <4>1, <6>1, <6>2, TimesMono
        <5>2. (-W) * D \in Int /\ (z + 1) * D \in Int
          BY <1>1, <2>3, <3>2
        <5> QED BY <1>1, <3>3, <5>1, <5>2
      <4> QED BY <1>1, <3>2, <4>1
    <3> QED BY <3>2, <3>3, <3>4, <3>5, <3>6, <3>7
  <2> HIDE DEF s
  <2>7. z % W \in 0 .. W - 1 /\ s * W + (z % W) = z
    <3> HIDE DEF z
    <3>1. v >= 0 => z = 0 * W + z /\ z \in 0 .. W - 1
      BY <1>1, <2>6
    <3>2. v < 0 => z = -1 * W + (z + W) /\ z + W \in 0 .. W - 1
      BY <1>1, <2>6
    <3>3. W \in Nat \ {0} /\ 0 \in Int /\ -1 \in Int
      BY <1>1
    <3>4. (v >= 0 => z % W = z) /\ (v < 0 => z % W = z + W)
      BY <2>6, <3>1, <3>2, <3>3, DivisionUnique, SMTT(30)
    <3> QED BY <1>1, <2>5, <2>6, <3>1, <3>2, <3>4
  <2>8. p[1] = s /\ p[2] = z % W /\ s \in Int
    BY <2>2, <2>5
  <2>9. F = z
    <3> HIDE DEF p, z
    <3> QED BY <2>7, <2>8 DEF WideValue
  <2> HIDE DEF F, p
  <2>10. z * G <= v /\ v < (z + 1) * G /\ (v % G = 0 => z * G = v)
    <3>1. CASE n <= 2 * K
      <4>1. D = G
        BY <2>4, <3>1
      <4>2. v % G = 0 => z * G = v
        <5>1. v = (v \div G) * G + (v % G)
          BY <2>3
        <5>2. z = v \div G
          BY <4>1 DEF z
        <5> HIDE DEF z
        <5>3. z * G \in Int
          BY <2>3, <2>6
        <5> QED BY <5>1, <5>2, <5>3
      <4> QED BY <2>6, <4>1, <4>2
    <3>2. CASE n > 2 * K
      <4>1. D = W /\ W < G
        BY <2>4, <3>2
      <4>2. z = s
        BY <4>1 DEF z, s
      <4> HIDE DEF z
      <4>3. v % G = 0 => v = 0
        <5>1. v > 0 => v = 0 * G + v /\ v \in 0 .. G - 1
          BY <1>1, <2>3, <4>1
        <5>2. v < 0 => v = -1 * G + (v + G) /\ v + G \in 0 .. G - 1 /\ v + G # 0
          BY <1>1, <2>3, <4>1
        <5>3. (v > 0 => v % G = v) /\ (v < 0 => v % G = v + G)
          BY <2>3, <5>1, <5>2, DivisionUnique, SMTT(30)
        <5> QED BY <5>2, <5>3
      <4> QED BY <1>1, <2>3, <2>5, <4>1, <4>2, <4>3
    <3> QED BY <1>1, <3>1, <3>2
  <2>11. F * Pow2[n] = (z * G) * W /\ (F + 1) * Pow2[n] = ((z + 1) * G) * W
    <3>0. z \in Int /\ z + 1 \in Int
      BY <2>6
    <3> HIDE DEF z
    <3>1. \A a \in Int, b, c \in Nat : a * (b * c) = (a * b) * c
      OBVIOUS
    <3> QED BY <1>1, <2>3, <2>9, <3>0, <3>1
  <2> DEFINE L == z * G
             H == (z + 1) * G
  <2>12. L \in Int /\ H \in Int
    <3> HIDE DEF z
    <3> QED BY <2>3, <2>6
  <2>13. L <= v /\ v < H /\ (v % G = 0 => L = v) /\ F * Pow2[n] = L * W /\ (F + 1) * Pow2[n] = H * W
    BY <2>10, <2>11
  <2> HIDE DEF L, H
  <2>14. F * Pow2[n] <= v * W /\ v * W < (F + 1) * Pow2[n] /\ (v % G = 0 => F * Pow2[n] = v * W)
    <3>1. L * W <= v * W /\ v * W < H * W
      BY <1>1, <2>12, <2>13, TimesMono
    <3> QED BY <2>13, <3>1
  <2>15. p[1] \in Int /\ p[2] \in 0 .. W - 1 /\ F \in Int
    BY <2>6, <2>7, <2>8, <2>9
  <2> QED BY <1>1, <1>4, <2>14, <2>15 DEF F, p, G, K
<1> QED BY <1>1, <1>3, <1>4

(* A shift left multiplies, as long as the result fits.                     *)
LEMMA ShiftedLeft ==
    ASSUME NEW w, w[1] \in Nat, w[2] \in 0 .. W - 1, NEW n \in Nat, WideValue(w) * Pow2[n] < W * W
    PROVE  LET p == WideShiftLeft(w, n)
           IN  p[1] \in Nat /\ p[2] \in 0 .. W - 1 /\ WideValue(p) = WideValue(w) * Pow2[n]
<1> DEFINE K == NSIG + 1
           p == WideShiftLeft(w, n)
           a == w[1]
           b == w[2]
           N == Pow2[n]
<1>1. W = Pow2[K] /\ W \in Nat /\ W >= 4 /\ K \in Nat /\ NSIG \in Nat
  BY WideFacts, FormatFacts
<1>2. a \in Nat /\ b \in 0 .. W - 1 /\ b \in Nat /\ (a * W + b) * N < W * W /\ N \in Nat \ {0}
  <2>1. N \in Nat \ {0}
    BY Pow2Facts
  <2> QED BY <1>1, <2>1 DEF WideValue
<1> HIDE DEF a, b
<1>3. CASE n <= K
  <2> DEFINE g == Pow2[K - n]
             c == b \div g
             e == b % g
  <2>1. g \in Nat \ {0} /\ W = N * g
    <3>1. K - n \in Nat /\ K = n + (K - n)
      BY <1>1, <1>3
    <3>2. W = Pow2[n] * Pow2[K - n]
      BY <1>1, <3>1, Pow2Split
    <3>3. Pow2[K - n] \in Nat \ {0}
      BY <3>1, Pow2Facts
    <3> QED BY <3>2, <3>3
  <2>2. p = <<a * N + c, (b * N) % W>>
    <3>1. NSIG + 1 - n = K - n
      BY <1>1
    <3>2. p = <<a * Pow2[n] + b \div Pow2[NSIG + 1 - n], (b * Pow2[n]) % W>>
      BY <1>3 DEF WideShiftLeft, a, b
    <3> QED BY <3>1, <3>2
  <2> HIDE DEF g, N, p
  <2>3. c \in Nat /\ e \in 0 .. g - 1 /\ b = c * g + e
    BY <1>2, <2>1
  <2> HIDE DEF c, e
  <2>4. e * N \in 0 .. W - 1
    <3>1. e * N < g * N /\ g * N = N * g /\ e * N \in Nat
      BY <1>2, <2>1, <2>3
    <3> QED BY <1>1, <2>1, <3>1
  <2>5. b * N = c * W + e * N
    BY <1>2, <2>1, <2>3
  <2>6. (b * N) % W = e * N
    <3>1. b * N \in Int /\ W \in Nat \ {0} /\ c \in Int
      BY <1>1, <1>2, <2>3
    <3> QED BY <2>4, <2>5, <3>1, DivisionUnique
  <2>7. (a * N + c) * W + e * N = (a * W + b) * N
    <3>1. (a * N + c) * W = (a * W) * N + c * W /\ (a * W + b) * N = (a * W) * N + b * N
      BY <1>1, <1>2, <2>3
    <3>2. (a * W) * N \in Int /\ c * W \in Int /\ b * N \in Int /\ e * N \in Int
      <4>1. a * W \in Nat
        BY <1>1, <1>2
      <4> QED BY <1>1, <1>2, <2>3, <4>1
    <3> QED BY <2>5, <3>1, <3>2
  <2>8. a * N + c \in Nat
    BY <1>2, <2>3
  <2>9. WideValue(w) = a * W + b
    BY DEF WideValue, a, b
  <2> QED BY <2>2, <2>4, <2>6, <2>7, <2>8, <2>9 DEF WideValue, p, N
<1>4. CASE n > K
  <2> DEFINE G == Pow2[n - K]
  <2>1. G \in Nat \ {0} /\ N = G * W
    <3>1. n - K \in Nat /\ n = (n - K) + K
      BY <1>1, <1>4
    <3>2. Pow2[n] = Pow2[n - K] * Pow2[K]
      BY <1>1, <3>1, Pow2Split
    <3>3. Pow2[n - K] \in Nat \ {0}
      BY <3>1, Pow2Facts
    <3> QED BY <1>1, <3>2, <3>3
  <2>2. p = <<b * G, 0>>
    <3>1. n - NSIG - 1 = n - K /\ ~(n <= NSIG + 1)
      BY <1>1, <1>4
    <3>2. p = <<b * Pow2[n - NSIG - 1], 0>>
      BY <3>1 DEF WideShiftLeft, b
    <3> QED BY <3>1, <3>2
  <2> HIDE DEF G, N, p
  <2>3. a = 0
    <3>1. CASE a >= 1
      <4>1. W <= a * W + b /\ a * W + b \in Nat
        <5>1. 1 * W <= a * W /\ a * W \in Int
          BY <1>1, <1>2, <3>1, TimesMono
        <5> QED BY <1>1, <1>2, <5>1
      <4>2. W <= N
        BY <1>1, <2>1
      <4> DEFINE V == a * W + b
      <4> HIDE DEF V
      <4>3. W * W <= V * N
        <5>1. V \in Nat /\ W <= V
          BY <4>1 DEF V
        <5>2. W * W <= V * W /\ V * W <= V * N /\ W * W \in Int /\ V * W \in Int /\ V * N \in Int
          BY <1>1, <1>2, <4>2, <5>1
        <5> QED BY <5>2
      <4>4. V * N < W * W /\ V * N \in Int /\ W * W \in Int
        BY <1>1, <1>2, <4>1 DEF V
      <4> QED BY <4>3, <4>4
    <3> QED BY <1>2, <3>1
  <2>4. WideValue(p) = (b * G) * W
    <3>1. (b * G) * W \in Int
      <4>1. b * G \in Int
        BY <1>2, <2>1
      <4> QED BY <1>1, <4>1
    <3> QED BY <2>2, <3>1 DEF WideValue
  <2>5. WideValue(w) * N = (b * G) * W
    <3>1. WideValue(w) = b
      BY <1>1, <1>2, <2>3 DEF WideValue, a, b
    <3>2. b * (G * W) = (b * G) * W
      BY <1>1, <1>2, <2>1
    <3> QED BY <2>1, <3>1, <3>2
  <2>6. p[1] = b * G /\ p[2] = 0 /\ b * G \in Nat /\ 0 \in 0 .. W - 1
    BY <1>1, <1>2, <2>1, <2>2
  <2> QED BY <2>4, <2>5, <2>6 DEF p, N
<1> QED BY <1>1, <1>3, <1>4

(* A shift right by 1 halves.                                               *)
LEMMA Halved ==
    ASSUME NEW w, w[1] \in Nat, w[2] \in 0 .. W - 1, w[2] % 2 = 0
    PROVE  LET p == WideShiftRight(w, 1)
           IN  p[1] \in Nat /\ p[2] \in 0 .. W - 1 /\ 2 * WideValue(p) = WideValue(w)
<1> DEFINE p == WideShiftRight(w, 1)
           a == w[1]
           b == w[2]
           c == a \div 2
           e == a % 2
           h == b \div 2
<1>1. One \in Nat /\ One >= 2 /\ W = 2 * One /\ NSIG \in Nat /\ Pow2[NSIG] = One
  BY FormatFacts
<1>2. a \in Nat /\ b \in 0 .. W - 1 /\ b % 2 = 0
  OBVIOUS
<1>3. p = <<c, e * One + h>>
  <2>1. 1 <= NSIG + 1 /\ NSIG + 1 - 1 = NSIG /\ Pow2[1] = 2
    <3>1. Pow2[0 + 1] = 2 * Pow2[0]
      BY Pow2Facts
    <3> QED BY <1>1, <3>1, Pow2Facts
  <2> QED BY <1>1, <2>1 DEF WideShiftRight
<1> HIDE DEF p, a, b
<1>4. c \in Nat /\ e \in {0, 1} /\ a = 2 * c + e /\ h \in Nat /\ b = 2 * h /\ h < One
  BY <1>1, <1>2
<1> HIDE DEF c, e, h
<1>5. e * One + h \in 0 .. W - 1
  BY <1>1, <1>4
<1>6. 2 * (c * W + (e * One + h)) = a * W + b
  <2>1. (2 * c + e) * W = 2 * (c * W) + e * (2 * One) /\ c * W \in Int
    BY <1>1, <1>4
  <2>2. e * (2 * One) = 2 * (e * One) /\ e * One \in Int
    BY <1>1, <1>4
  <2> QED BY <1>4, <2>1, <2>2
<1> QED BY <1>3, <1>4, <1>5, <1>6 DEF WideValue, p, a, b

(* The position of the leading 1 of a wide number.                          *)
LEMMA WideLeading ==
    ASSUME NEW w, w[1] \in Nat, w[1] < 2 * W, w[2] \in 0 .. W - 1, WideValue(w) > 0
    PROVE  LET L == WideLeadingOne(w)
           IN  L \in Nat /\ Pow2[L] <= WideValue(w) /\ WideValue(w) < 2 * Pow2[L]
<1> DEFINE K == NSIG + 1
           a == w[1]
           b == w[2]
           L == WideLeadingOne(w)
<1>1. W = Pow2[K] /\ W \in Nat /\ W >= 4 /\ K \in Nat /\ K + 1 <= NEXP + 2 * NSIG + 1 /\ Pow2[K + 1] = 2 * W
  BY WideFacts, FormatFacts, Pow2Facts
<1>2. a \in Nat /\ a < 2 * W /\ b \in 0 .. W - 1 /\ b \in Nat /\ WideValue(w) = a * W + b
  BY <1>1 DEF WideValue
<1>3. L = IF a > 0 THEN NSIG + 1 + LeadingOne(a) ELSE LeadingOne(b)
  BY DEF WideLeadingOne
<1> HIDE DEF a, b, L
<1>4. CASE a > 0
  <2> DEFINE l == LeadingOne(a)
             P == Pow2[l]
  <2>1. l \in Nat /\ P <= a /\ a < 2 * P
    <3>1. K + 1 \in Nat /\ a < Pow2[K + 1]
      BY <1>1, <1>2
    <3> HIDE DEF K
    <3> QED BY <1>1, <1>2, <1>4, <3>1, LeadingOneFacts
  <2>2. L = K + l
    BY <1>3, <1>4
  <2> HIDE DEF l, K
  <2>3. Pow2[L] = W * P /\ P \in Nat /\ L \in Nat
    <3>1. L \in Nat
      BY <1>1, <2>1, <2>2
    <3>2. Pow2[L] = Pow2[K] * P
      BY <1>1, <2>1, <2>2, <3>1, Pow2Split
    <3>3. P \in Nat
      BY <2>1, Pow2Facts
    <3> QED BY <1>1, <3>1, <3>2, <3>3
  <2> HIDE DEF P
  <2>4. P * W <= a * W /\ (a + 1) * W <= (2 * P) * W
    <3>1. a + 1 <= 2 * P /\ a + 1 \in Int /\ 2 * P \in Int
      BY <1>2, <2>1, <2>3
    <3> QED BY <1>1, <1>2, <2>1, <2>3, <3>1, TimesMono
  <2>5. P * W = W * P /\ (a + 1) * W = a * W + W /\ (2 * P) * W = 2 * (W * P) /\ a * W \in Int /\ W * P \in Int
    BY <1>1, <1>2, <2>3
  <2> QED BY <1>1, <1>2, <2>3, <2>4, <2>5 DEF L
<1>5. CASE a = 0
  <2>1. L = LeadingOne(b) /\ WideValue(w) = b
    BY <1>1, <1>2, <1>3, <1>5
  <2>2. b < Pow2[K] /\ K \in Nat /\ K <= NEXP + 2 * NSIG + 1 /\ b > 0
    BY <1>1, <1>2, <2>1, FormatFacts
  <2> HIDE DEF K
  <2>3. LeadingOne(b) \in Nat /\ Pow2[LeadingOne(b)] <= b /\ b < 2 * Pow2[LeadingOne(b)]
    BY <1>2, <2>2, LeadingOneFacts
  <2> QED BY <2>1, <2>3 DEF L
<1> QED BY <1>2, <1>4, <1>5

(* The sum of two significands aligned at a distance of n exponents: the    *)
(* floor of the exact one, and the exact one unless a 1 is shifted out.     *)
Aligned(sb, v, n) == WideSum(<<sb, 0>>, WideShiftRight(<<v, 0>>, n))

(* Significands of a larger and a smaller operand, the latter with its      *)
(* sign.                                                                    *)
Alignable(sb, ss, v, n) ==
    /\ sb \in One .. 2 * One - 1 /\ ss \in One .. 2 * One - 1 /\ v \in {ss, -ss}
    /\ n \in Nat /\ (n = 0 => ss <= sb)
(* w is their aligned sum rounded down, and exact while no bits are lost.   *)
SumOf(w, sb, ss, v, n) ==
    LET V == WideValue(w)
        X == (sb * Pow2[n] + v) * W
    IN  /\ w[1] \in Nat /\ w[2] \in 0 .. W - 1 /\ w[1] < 2 * W /\ V \in Nat /\ X \in Nat
        /\ V * Pow2[n] <= X /\ X < (V + 1) * Pow2[n]
        /\ (n <= NSIG + 1 \/ ss % Pow2[n - (NSIG + 1)] = 0) => V * Pow2[n] = X
        /\ w[1] >= W => w[2] % 2 = 0
        /\ n > NSIG + 1 => w[1] < W /\ (One - 1) * W <= V

(* The larger operand and the aligned other one sum up, rounded down.       *)
LEMMA AlignedSum ==
    ASSUME NEW sb, NEW ss, NEW v, NEW n, Alignable(sb, ss, v, n)
    PROVE  SumOf(Aligned(sb, v, n), sb, ss, v, n)
<1>0. /\ sb \in One .. 2 * One - 1 /\ ss \in One .. 2 * One - 1 /\ v \in {ss, -ss}
      /\ n \in Nat /\ (n = 0 => ss <= sb)
  BY DEF Alignable
<1> DEFINE K == NSIG + 1
           s == WideShiftRight(<<v, 0>>, n)
           F == WideValue(s)
           w == Aligned(sb, v, n)
           V == WideValue(w)
           P == Pow2[n]
           X == (sb * P + v) * W
<1>1. /\ W = 2 * One /\ W \in Nat /\ W >= 4 /\ K \in Nat /\ One \in Nat /\ One >= 2 /\ P \in Nat \ {0}
      /\ W = Pow2[K]
  BY <1>0, FormatFacts, WideFacts, Pow2Facts
<1>2. sb \in Nat /\ ss \in Nat /\ One <= sb /\ One <= ss /\ sb < W /\ ss < W /\ v \in Int /\ -W < v /\ v < W /\ -ss <= v /\ v <= ss
  BY <1>0, <1>1
<1>3. /\ s[1] \in Int /\ s[2] \in 0 .. W - 1 /\ F \in Int
      /\ F * P <= v * W /\ v * W < (F + 1) * P
      /\ (n <= K \/ v % Pow2[n - K] = 0) => F * P = v * W
      /\ n < K => F % 2 = 0
  <2> HIDE DEF s
  <2> QED BY <1>0, <1>2, ShiftedRight DEF s
<1>4. w = <<sb + s[1], s[2]>>
  <2> DEFINE a == s[1]
             b == s[2]
  <2>1. a \in Int /\ b \in 0 .. W - 1
    BY <1>3
  <2>2. w = <<sb + a + (0 + b) \div W, (0 + b) % W>>
    <3> HIDE DEF s
    <3> QED BY DEF Aligned, WideSum, s
  <2> HIDE DEF a, b, w
  <2>3. b = 0 * W + b /\ W \in Nat \ {0} /\ 0 \in Int /\ b \in Int /\ 0 + b = b
    BY <1>1, <2>1
  <2>4. b \div W = 0 /\ b % W = b
    BY <2>1, <2>3, DivisionUnique
  <2>5. sb + a + 0 = sb + a
    BY <1>2, <2>1
  <2> QED BY <2>2, <2>3, <2>4, <2>5 DEF a, b
<1> HIDE DEF w
<1>5. w[1] \in Int /\ w[2] \in 0 .. W - 1 /\ V = sb * W + F
  <2> DEFINE a == s[1]
             b == s[2]
  <2>1. a \in Int /\ b \in 0 .. W - 1 /\ F = a * W + b /\ w[1] = sb + a /\ w[2] = b /\ V = w[1] * W + w[2]
    BY <1>3, <1>4 DEF WideValue
  <2> HIDE DEF a, b, F, V
  <2>2. (sb + a) * W = sb * W + a * W /\ a * W \in Int /\ sb * W \in Int
    BY <1>1, <1>2, <2>1
  <2> QED BY <1>1, <1>2, <2>1, <2>2
<1> HIDE DEF s, F, P
<1>6. V \in Int /\ V * P = (sb * W) * P + F * P /\ (V + 1) * P = (sb * W) * P + (F + 1) * P
  <2> DEFINE A == sb * W
  <2>1. A \in Int /\ V = A + F
    BY <1>1, <1>2, <1>5
  <2> HIDE DEF A, V
  <2>2. V \in Int /\ V * P = A * P + F * P /\ (V + 1) * P = A * P + (F + 1) * P
    BY <1>1, <1>3, <2>1
  <2> QED BY <2>2 DEF A
<1>7. X = (sb * W) * P + v * W /\ X \in Int
  <2>1. (sb * P + v) * W = (sb * P) * W + v * W /\ (sb * P) * W = (sb * W) * P
    BY <1>1, <1>2
  <2>2. (sb * W) * P \in Int /\ v * W \in Int
    <3>1. sb * W \in Int
      BY <1>1, <1>2
    <3> QED BY <1>1, <1>2, <3>1
  <2> QED BY <2>1, <2>2
<1> DEFINE A == (sb * W) * P
           B == v * W
           C == F * P
           D == (F + 1) * P
<1>8. A \in Int /\ B \in Int /\ C \in Int /\ D \in Int /\ X = A + B /\ V * P = A + C /\ (V + 1) * P = A + D
      /\ C <= B /\ B < D /\ ((n <= K \/ v % Pow2[n - K] = 0) => C = B)
  <2>1. A \in Int
    <3>1. sb * W \in Int
      BY <1>1, <1>2
    <3> QED BY <1>1, <3>1
  <2>2. B \in Int /\ C \in Int /\ D \in Int
    BY <1>1, <1>2, <1>3
  <2> QED BY <1>3, <1>6, <1>7, <2>1, <2>2
<1>9. V * P <= X /\ X < (V + 1) * P /\ ((n <= K \/ v % Pow2[n - K] = 0) => V * P = X)
  <2> HIDE DEF A, B, C, D, X, V
  <2> QED BY <1>8
<1>10. ss % Pow2[n - K] = 0 /\ n > K => v % Pow2[n - K] = 0
  <2>1. ASSUME n > K, ss % Pow2[n - K] = 0 PROVE v % Pow2[n - K] = 0
    <3> DEFINE G == Pow2[n - K]
    <3>1. n - K \in Nat
      BY <1>0, <1>1, <2>1
    <3>2. G \in Nat \ {0} /\ ss % G = 0
      BY <2>1, <3>1, Pow2Facts
    <3> HIDE DEF G
    <3>3. ss = (ss \div G) * G + 0 /\ ss \div G \in Int
      BY <1>2, <3>2
    <3> DEFINE q == ss \div G
    <3> HIDE DEF q
    <3>4. -ss = (-q) * G + 0 /\ -q \in Int /\ 0 \in 0 .. G - 1 /\ -ss \in Int
      BY <1>2, <3>2, <3>3 DEF q
    <3>5. (-ss) % G = 0
      BY <3>2, <3>4, DivisionUnique
    <3> QED BY <1>0, <3>2, <3>5 DEF G
  <2> QED BY <2>1
<1> DEFINE Y == sb * P + v
<1>11. Y \in Nat /\ Y <= sb * P + ss
  <2>1. CASE n = 0
    <3>1. P = 1
      BY <2>1, Pow2Facts DEF P
    <3> QED BY <1>0, <1>2, <2>1, <3>1
  <2>2. CASE n # 0
    <3>1. P >= 2
      <4>1. n - 1 \in Nat /\ (n - 1) + 1 = n
        BY <1>0, <2>2
      <4>2. P = 2 * Pow2[n - 1] /\ Pow2[n - 1] \in Nat \ {0}
        BY <4>1, Pow2Facts DEF P
      <4> QED BY <4>2
    <3>2. sb * 2 <= sb * P /\ sb * P \in Int
      BY <1>1, <1>2, <3>1
    <3> QED BY <1>1, <1>2, <3>2
  <2> QED BY <2>1, <2>2
<1>12. X \in Nat /\ X = Y * W
  <2> HIDE DEF Y
  <2>1. X = Y * W
    BY DEF Y
  <2> QED BY <1>1, <1>11, <2>1
<1> HIDE DEF X, Y, V
<1>13. V \in Nat
  <2>1. 0 * P < (V + 1) * P
    <3>1. (V + 1) * P \in Int
      BY <1>1, <1>6
    <3> QED BY <1>1, <1>9, <1>12, <3>1
  <2>2. 0 < V + 1
    BY <1>1, <1>6, <2>1, TimesMono
  <2> QED BY <1>6, <2>2
<1>14. V = w[1] * W + w[2]
  BY DEF V, WideValue
<1> DEFINE a == w[1]
           b == w[2]
<1>15. a \in Int /\ b \in 0 .. W - 1 /\ V = a * W + b
  BY <1>5, <1>14
<1> HIDE DEF a, b
<1>16. a \in Nat
  <2>1. 0 * W < (a + 1) * W
    <3>1. (a + 1) * W = a * W + W /\ a * W \in Int
      BY <1>1, <1>15
    <3> QED BY <1>1, <1>13, <1>15, <3>1
  <2>2. 0 < a + 1
    BY <1>1, <1>15, <2>1, TimesMono
  <2> QED BY <1>15, <2>2
<1>17. V * P <= (sb * P + ss) * W
  <2>1. Y * W <= (sb * P + ss) * W
    <3>1. sb * P + ss \in Int
      BY <1>1, <1>2
    <3> QED BY <1>1, <1>11, <3>1, TimesMono
  <2>2. (sb * P + ss) * W \in Int /\ V * P \in Int
    <3>1. sb * P + ss \in Int
      BY <1>1, <1>2
    <3> QED BY <1>1, <1>13, <3>1
  <2> QED BY <1>9, <1>12, <2>1, <2>2
<1>18. a < 2 * W
  <2>1. (sb * P + ss) * W < ((2 * W) * W) * P
    <3>1. sb * P + ss < (2 * W) * P
      <4>1. sb * P <= (W - 1) * P /\ (W - 1) * P = W * P - P /\ W <= W * P /\ (2 * W) * P = 2 * (W * P) /\ W * P \in Int
        BY <1>1, <1>2
      <4>2. sb * P \in Int
        BY <1>1, <1>2
      <4> QED BY <1>1, <1>2, <4>1, <4>2
    <3>2. sb * P + ss \in Int /\ (2 * W) * P \in Int
      BY <1>1, <1>2
    <3>3. (sb * P + ss) * W < ((2 * W) * P) * W
      BY <1>1, <3>1, <3>2, TimesMono
    <3>4. ((2 * W) * P) * W = ((2 * W) * W) * P
      BY <1>1
    <3> QED BY <3>3, <3>4
  <2>2. V * P < ((2 * W) * W) * P
    <3>1. V * P \in Int /\ (sb * P + ss) * W \in Int /\ ((2 * W) * W) * P \in Int
      <4>1. sb * P + ss \in Int /\ (2 * W) * W \in Int
        BY <1>1, <1>2
      <4> QED BY <1>1, <1>13, <4>1
    <3> QED BY <1>17, <2>1, <3>1
  <2>3. V < (2 * W) * W /\ (2 * W) * W \in Int
    <3>1. (2 * W) * W \in Int
      BY <1>1
    <3> QED BY <1>1, <1>13, <2>2, <3>1, TimesMono
  <2>4. a * W < (2 * W) * W
    <3>1. a * W \in Int
      BY <1>1, <1>15
    <3> QED BY <1>13, <1>15, <2>3, <3>1
  <2> QED BY <1>1, <1>15, <2>4, TimesMono
<1>19. n >= K => V < W * W /\ W <= P
  <2>1. ASSUME n >= K PROVE V < W * W /\ W <= P
    <3>1. W <= P
      BY <1>0, <1>1, <2>1, Pow2Mono DEF P
    <3>2. (sb * P + ss) * W < (W * W) * P
      <4>1. sb * P <= (W - 1) * P /\ (W - 1) * P = W * P - P /\ W * P \in Int /\ sb * P \in Int
        BY <1>1, <1>2
      <4>2. sb * P + ss < W * P
        BY <1>1, <1>2, <3>1, <4>1
      <4>3. (sb * P + ss) * W < (W * P) * W
        <5>1. sb * P + ss \in Int
          BY <1>2, <4>1
        <5> QED BY <1>1, <4>1, <4>2, <5>1, TimesMono
      <4>4. (W * P) * W = (W * W) * P
        BY <1>1
      <4> QED BY <4>3, <4>4
    <3>3. V * P < (W * W) * P /\ W * W \in Int
      <4>1. V * P \in Int /\ (sb * P + ss) * W \in Int /\ (W * W) * P \in Int /\ W * W \in Int
        <5>1. sb * P + ss \in Int /\ W * W \in Int
          BY <1>1, <1>2
        <5> QED BY <1>1, <1>13, <5>1
      <4> QED BY <1>17, <3>2, <4>1
    <3>4. V < W * W
      BY <1>1, <1>13, <3>3, TimesMono
    <3> QED BY <3>1, <3>4
  <2> QED BY <2>1
<1>20. n >= K => a < W
  <2>1. ASSUME n >= K PROVE a < W
    <3>1. a * W < W * W
      <4>1. a * W \in Int /\ W * W \in Int
        BY <1>1, <1>15
      <4> QED BY <1>13, <1>15, <1>19, <2>1, <4>1
    <3> QED BY <1>1, <1>15, <3>1, TimesMono
  <2> QED BY <2>1
<1>21. a >= W => b % 2 = 0
  <2>1. ASSUME a >= W PROVE b % 2 = 0
    <3>1. n < K
      BY <1>0, <1>1, <1>15, <1>20, <2>1
    <3>2. F % 2 = 0 /\ F \in Int
      BY <1>3, <3>1
    <3>3. sb * W = 2 * (sb * One) /\ sb * One \in Int /\ a * W = 2 * (a * One) /\ a * One \in Int
      BY <1>1, <1>2, <1>15
    <3>4. V = sb * W + F
      BY <1>5 DEF V
    <3> DEFINE c == sb * One
               d == a * One
    <3> HIDE DEF c, d
    <3>5. 2 * d + b = 2 * c + F /\ c \in Int /\ d \in Int
      BY <1>15, <3>3, <3>4 DEF c, d
    <3> QED BY <1>15, <3>2, <3>5
  <2> QED BY <2>1
<1>22. n > K => a < W /\ (One - 1) * W <= V
  <2>1. ASSUME n > K PROVE a < W /\ (One - 1) * W <= V
    <3>1. W <= P /\ a < W
      BY <1>0, <1>1, <1>19, <1>20, <2>1
    <3>2. ((sb - 1) * P) * W <= X
      <4>1. (sb - 1) * P <= Y
        <5>1. (sb - 1) * P = sb * P - P /\ sb * P \in Int
          BY <1>1, <1>2
        <5> QED BY <1>1, <1>2, <3>1, <5>1 DEF Y
      <4>2. (sb - 1) * P \in Int
        BY <1>1, <1>2
      <4> QED BY <1>1, <1>11, <1>12, <4>1, <4>2, TimesMono
    <3>3. ((sb - 1) * P) * W = ((sb - 1) * W) * P /\ (sb - 1) * W \in Int
      BY <1>1, <1>2
    <3>4. ((sb - 1) * W) * P < (V + 1) * P
      <4>1. ((sb - 1) * W) * P \in Int /\ (V + 1) * P \in Int
        BY <1>1, <1>13, <3>3
      <4> QED BY <1>9, <1>12, <3>2, <3>3, <4>1
    <3>5. (sb - 1) * W < V + 1
      BY <1>1, <1>13, <3>3, <3>4, TimesMono
    <3>6. (One - 1) * W <= (sb - 1) * W /\ (One - 1) * W \in Int
      <4>1. One - 1 \in Int /\ sb - 1 \in Int /\ One - 1 <= sb - 1
        BY <1>1, <1>2
      <4> QED BY <1>1, <4>1, TimesMono
    <3> QED BY <1>13, <3>1, <3>3, <3>5, <3>6
  <2> QED BY <2>1
<1>23. (n <= K \/ ss % Pow2[n - K] = 0) => V * P = X
  BY <1>0, <1>1, <1>9, <1>10
<1> QED BY <1>9, <1>12, <1>13, <1>15, <1>16, <1>18, <1>21, <1>22, <1>23 DEF V, P, X, a, b, w, SumOf

(* The shift FADDd normalises a sum with.                                   *)
Normal(w) == IF w[1] >= W THEN WideShiftRight(w, 1)
             ELSE WideShiftLeft(w, 2 * NSIG + 1 - WideLeadingOne(w))

(* The sum after its leading 1 is shifted to the top.                       *)
LEMMA NormalisedSum ==
    ASSUME NEW w, w[1] \in Nat, w[1] < 2 * W, w[2] \in 0 .. W - 1, w[1] >= W => w[2] % 2 = 0, WideValue(w) > 0
    PROVE  LET V == WideValue(w)
               L == WideLeadingOne(w)
               p == Normal(w)
           IN  /\ p[1] \in One .. 2 * One - 1 /\ p[2] \in 0 .. W - 1 /\ WideValue(p) \in Nat /\ WideValue(p) < W * W
               /\ L \in Nat /\ L <= 2 * NSIG + 2 /\ 2 * WideValue(p) = V * Pow2[2 * NSIG + 2 - L]
               /\ w[1] < W /\ (One - 1) * W <= V => L = 2 * NSIG + 1 \/ (L = 2 * NSIG /\ p[2] % 2 = 0)
<1> DEFINE K == NSIG + 1
           a == w[1]
           b == w[2]
           V == WideValue(w)
           L == WideLeadingOne(w)
           p == Normal(w)
           N == WideValue(p)
           Q == One * W
           P == Pow2[L]
<1>1. /\ W = 2 * One /\ W \in Nat /\ W >= 4 /\ W = Pow2[K] /\ K \in Nat /\ One \in Nat /\ One >= 2 /\ One = Pow2[NSIG]
      /\ NSIG \in Nat /\ NSIG >= 1
  BY FormatFacts, WideFacts
<1>2. Q = Pow2[2 * NSIG + 1] /\ W * W = 2 * Q /\ Q \in Nat /\ Pow2[2 * NSIG + 2] = 2 * Q /\ Q = 2 * Pow2[2 * NSIG]
  <2>1. 2 * NSIG + 1 \in Nat /\ 2 * NSIG + 1 = NSIG + K /\ 2 * NSIG \in Nat /\ (2 * NSIG + 1) + 1 = 2 * NSIG + 2
    BY <1>1
  <2>2. Pow2[2 * NSIG + 1] = Pow2[NSIG] * Pow2[K]
    BY <1>1, <2>1, Pow2Split
  <2>3. Pow2[(2 * NSIG + 1) + 1] = 2 * Pow2[2 * NSIG + 1] /\ Pow2[2 * NSIG + 1] = 2 * Pow2[2 * NSIG]
    BY <2>1, Pow2Facts
  <2>4. W * W = 2 * (One * W) /\ One * W \in Nat
    BY <1>1
  <2> QED BY <1>1, <2>1, <2>2, <2>3, <2>4
<1>3. V = a * W + b /\ V \in Nat /\ V > 0 /\ a \in Nat /\ b \in 0 .. W - 1 /\ a < 2 * W /\ a * W \in Nat
  <2>1. V = a * W + b /\ V > 0
    BY DEF WideValue
  <2>2. a \in Nat /\ b \in 0 .. W - 1 /\ a < 2 * W
    OBVIOUS
  <2> HIDE DEF V, a, b
  <2>3. a * W \in Nat
    BY <1>1, <2>2
  <2> QED BY <1>1, <2>1, <2>2, <2>3
<1>4. L \in Nat /\ P <= V /\ V < 2 * P /\ P \in Nat \ {0}
  <2>1. L \in Nat /\ Pow2[L] <= V /\ V < 2 * Pow2[L]
    BY WideLeading
  <2> HIDE DEF L, V
  <2> QED BY <2>1, Pow2Facts
<1> HIDE DEF L
<1>5. CASE a >= W
  <2>1. 2 * Q <= V /\ V < 4 * Q
    <3>1. W * W <= a * W /\ (a + 1) * W <= (2 * W) * W /\ (a + 1) * W = a * W + W /\ (2 * W) * W = 2 * (W * W)
      BY <1>1, <1>3, <1>5, TimesMono
    <3> QED BY <1>1, <1>2, <1>3, <3>1
  <2>2. L = 2 * NSIG + 2
    <3>1. CASE L < 2 * NSIG + 2
      <4>1. 2 * P <= Pow2[2 * NSIG + 2]
        BY <1>1, <1>4, <3>1, Pow2Mono
      <4> QED BY <1>2, <1>3, <1>4, <2>1, <4>1
    <3>2. CASE L > 2 * NSIG + 2
      <4>1. 2 * Pow2[2 * NSIG + 2] <= P
        BY <1>1, <1>4, <3>2, Pow2Mono
      <4> QED BY <1>2, <1>3, <1>4, <2>1, <4>1
    <3> QED BY <1>1, <1>4, <3>1, <3>2
  <2>3. p = WideShiftRight(w, 1)
    BY <1>5 DEF Normal
  <2> HIDE DEF p
  <2>4. p[1] \in Nat /\ p[2] \in 0 .. W - 1 /\ 2 * N = V
    BY <1>5, <2>3, Halved
  <2>5. N \in Nat
    <3>1. p[1] * W \in Nat
      BY <1>1, <2>4
    <3>2. p[1] * W + p[2] \in Nat
      BY <1>1, <2>4, <3>1
    <3> QED BY <3>2 DEF WideValue
  <2>6. Q <= N /\ N < W * W
    BY <1>2, <1>3, <2>1, <2>4, <2>5
  <2>7. p[1] \in One .. 2 * One - 1
    BY <2>4, <2>6, WideBounds
  <2>8. Pow2[2 * NSIG + 2 - L] = 1
    BY <1>1, <2>2, Pow2Facts
  <2>9. V * 1 = V
    BY <1>3
  <2> QED BY <1>1, <1>5, <2>2, <2>4, <2>5, <2>6, <2>7, <2>8, <2>9 DEF p, L
<1>6. CASE ~(a >= W)
  <2> DEFINE e == 2 * NSIG + 1 - L
             E == Pow2[e]
  <2>1. V < 2 * Q
    <3>1. (a + 1) * W <= W * W /\ (a + 1) * W = a * W + W
      <4>1. a + 1 \in Int /\ a + 1 <= W
        BY <1>1, <1>3, <1>6
      <4>2. (a + 1) * W <= W * W
        BY <1>1, <4>1, TimesMono
      <4> QED BY <1>1, <1>3, <4>2
    <3> QED BY <1>1, <1>2, <1>3, <3>1
  <2>2. L <= 2 * NSIG + 1
    <3>1. CASE L > 2 * NSIG + 1
      <4>1. 2 * Pow2[2 * NSIG + 1] <= P
        BY <1>1, <1>4, <3>1, Pow2Mono
      <4> QED BY <1>2, <1>3, <1>4, <2>1, <4>1
    <3> QED BY <1>1, <1>4, <3>1
  <2>3. e \in Nat /\ P * E = Q /\ E \in Nat \ {0}
    <3>1. e \in Nat /\ 2 * NSIG + 1 = L + e /\ 2 * NSIG + 1 \in Nat
      BY <1>1, <1>4, <2>2
    <3> HIDE DEF e
    <3>2. Pow2[2 * NSIG + 1] = P * E
      BY <1>4, <3>1, Pow2Split
    <3>3. E \in Nat \ {0}
      BY <3>1, Pow2Facts
    <3> QED BY <1>2, <3>1, <3>2, <3>3
  <2>4. Q <= V * E /\ V * E < W * W /\ V * E \in Nat
    <3> HIDE DEF P, E, V
    <3>1. P * E <= V * E /\ V * E < (2 * P) * E /\ (2 * P) * E = 2 * (P * E) /\ V * E \in Nat
      BY <1>3, <1>4, <2>3, TimesMono
    <3> QED BY <1>2, <2>3, <3>1
  <2>5. p = WideShiftLeft(w, e)
    BY <1>6 DEF Normal, L
  <2> HIDE DEF p, e
  <2>6. p[1] \in Nat /\ p[2] \in 0 .. W - 1 /\ N = V * E
    <3>1. w[1] \in Nat /\ w[2] \in 0 .. W - 1 /\ WideValue(w) * Pow2[e] < W * W
      BY <2>4
    <3> QED BY <2>3, <2>5, <3>1, ShiftedLeft
  <2> HIDE DEF V, N, E
  <2>7. N \in Nat /\ Q <= N /\ N < W * W
    BY <2>4, <2>6
  <2>8. p[1] \in One .. 2 * One - 1
    BY <2>6, <2>7, WideBounds DEF N
  <2>9. Pow2[2 * NSIG + 2 - L] = 2 * E
    <3>1. 2 * NSIG + 2 - L = e + 1
      BY <1>1, <1>4 DEF e
    <3>2. Pow2[e + 1] = 2 * Pow2[e]
      BY <2>3, Pow2Facts
    <3> QED BY <3>1, <3>2 DEF E
  <2>10. 2 * N = V * (2 * E)
    BY <1>3, <2>3, <2>6
  <2>11. (One - 1) * W <= V => L = 2 * NSIG + 1 \/ (L = 2 * NSIG /\ p[2] % 2 = 0)
    <3>1. ASSUME (One - 1) * W <= V PROVE L = 2 * NSIG + 1 \/ (L = 2 * NSIG /\ p[2] % 2 = 0)
      <4>1. Q <= 2 * V
        <5>1. Q <= (2 * (One - 1)) * W
          <6>1. One <= 2 * (One - 1) /\ One - 1 \in Nat
            BY <1>1
          <6> QED BY <1>1, <6>1
        <5>2. (2 * (One - 1)) * W = 2 * ((One - 1) * W) /\ (One - 1) * W \in Nat
          <6>1. One - 1 \in Nat
            BY <1>1
          <6> QED BY <1>1, <6>1
        <5> HIDE DEF Q
        <5> QED BY <1>2, <1>3, <3>1, <5>1, <5>2
      <4>2. L >= 2 * NSIG
        <5>1. CASE L < 2 * NSIG
          <6>1. 2 * P <= Pow2[2 * NSIG]
            BY <1>1, <1>4, <5>1, Pow2Mono
          <6>2. Pow2[2 * NSIG] \in Nat
            BY <1>1, Pow2Facts
          <6> HIDE DEF Q, P
          <6> QED BY <1>2, <1>3, <1>4, <4>1, <6>1, <6>2
        <5> QED BY <1>1, <1>4, <5>1
      <4>3. CASE L = 2 * NSIG + 1
        BY <4>3
      <4>4. CASE L = 2 * NSIG
        <5>1. E = 2
          <6>1. e = 0 + 1
            BY <1>1, <4>4 DEF e
          <6>2. Pow2[0 + 1] = 2 * Pow2[0]
            BY Pow2Facts
          <6> QED BY <6>1, <6>2, Pow2Facts DEF E
        <5>2. N = p[1] * W + p[2]
          BY DEF N, WideValue
        <5> DEFINE f == p[1]
                   g == p[2]
        <5>3. f \in Nat /\ g \in 0 .. W - 1 /\ f * W + g = V * 2
          BY <2>6, <5>1, <5>2
        <5> HIDE DEF f, g
        <5>4. f * W = 2 * (f * One) /\ f * One \in Nat
          BY <1>1, <5>3
        <5> DEFINE h == f * One
        <5> HIDE DEF h
        <5>5. 2 * h + g = V * 2 /\ h \in Nat /\ g \in Int
          BY <5>3, <5>4, <1>1 DEF h
        <5>6. g % 2 = 0
          BY <1>3, <5>5
        <5> QED BY <4>4, <5>6 DEF g
      <4> QED BY <1>1, <1>4, <2>2, <4>2, <4>3, <4>4
    <3> QED BY <3>1
  <2>12. L <= 2 * NSIG + 2
    BY <1>1, <1>4, <2>2
  <2>13. 2 * N = V * Pow2[2 * NSIG + 2 - L]
    BY <2>9, <2>10
  <2>14. /\ p[1] \in One .. 2 * One - 1 /\ p[2] \in 0 .. W - 1 /\ N \in Nat /\ N < W * W
         /\ L \in Nat /\ L <= 2 * NSIG + 2 /\ 2 * N = V * Pow2[2 * NSIG + 2 - L]
         /\ a < W /\ (One - 1) * W <= V => L = 2 * NSIG + 1 \/ (L = 2 * NSIG /\ p[2] % 2 = 0)
    BY <1>4, <2>6, <2>7, <2>8, <2>11, <2>12, <2>13
  <2> HIDE DEF a, b, Q, P
  <2> QED BY <2>14 DEF V, N, p, L, a
<1> QED BY <1>5, <1>6

(* The float on one side or the other of the exact result.                  *)
Neighbour(y, sign, mag, den) ==
    /\ ~IsNaN(y) /\ y.s = sign /\ den * Magnitude(Rank(y) - 1) < mag
    /\ Rank(y) = InfRank \/ mag < den * Magnitude(Rank(y) + 1)

(* A correctly rounded result is a neighbour of the exact one.              *)
LEMMA RoundedNeighbour ==
    ASSUME NEW y, NEW sign, NEW mag \in Nat, NEW den \in Nat \ {0}, NEW mode \in RoundingModes,
           Rounded(y, sign, mag, den, mode)
    PROVE  Neighbour(y, sign, mag, den)
<1> DEFINE k == Rank(y)
           a == den * Magnitude(k)
           b == den * Magnitude(k + 1)
           c == den * Magnitude(k - 1)
<1>1. ~IsNaN(y) /\ y.s = sign /\ k \in Nat /\ RoundsTo(k, sign, mag, den, mode)
  BY DEF Rounded
<1> HIDE DEF k
<1>2. Magnitude(k) \in Nat /\ Magnitude(k + 1) \in Nat /\ Magnitude(k) < Magnitude(k + 1)
  <2>1. k + 1 \in Nat
    BY <1>1
  <2> QED BY <1>1, <2>1, MagnitudeStep
<1>3. \A x, z \in Int : x < z => den * x < den * z /\ den * x \in Int /\ den * z \in Int
  OBVIOUS
<1>4. a \in Nat /\ b \in Nat /\ a < b
  BY <1>2, <1>3
<1>5. CASE k = 0
  <2>1. Magnitude(k - 1) = -1
    <3>1. k - 1 \in Int /\ k - 1 < One /\ k - 1 = -1
      BY <1>5, FormatFacts
    <3> QED BY <3>1, MagnitudeBelow
  <2>2. c < 0 /\ c \in Int
    BY <2>1
  <2>3. k # InfRank => mag < b
    <3> HIDE DEF a, b, c
    <3>0. a = den * Magnitude(k) /\ b = den * Magnitude(k + 1)
      BY DEF a, b
    <3>1. CASE mode = RNE
      BY <1>1, <1>4, <1>5, <3>0, <3>1 DEF RoundsTo, RNE, RMM, RTZ, RDN, RUP
    <3>2. CASE mode = RMM
      BY <1>1, <1>4, <1>5, <3>0, <3>2 DEF RoundsTo, RNE, RMM, RTZ, RDN, RUP
    <3>3. CASE mode = RTZ
      BY <1>1, <1>4, <1>5, <3>0, <3>3 DEF RoundsTo, RNE, RMM, RTZ, RDN, RUP
    <3>4. CASE mode = RDN
      BY <1>1, <1>4, <1>5, <3>0, <3>4 DEF RoundsTo, RNE, RMM, RTZ, RDN, RUP
    <3>5. CASE mode = RUP
      BY <1>1, <1>4, <1>5, <3>0, <3>5 DEF RoundsTo, RNE, RMM, RTZ, RDN, RUP
    <3> QED BY <3>1, <3>2, <3>3, <3>4, <3>5 DEF RoundingModes
  <2> QED BY <1>1, <2>2, <2>3 DEF Neighbour, k
<1>6. CASE k # 0
  <2>1. Magnitude(k - 1) \in Nat /\ Magnitude(k - 1) < Magnitude(k)
    <3>1. k - 1 \in Nat /\ (k - 1) + 1 = k
      BY <1>1, <1>6
    <3> QED BY <3>1, MagnitudeStep
  <2>2. c \in Nat /\ c < a
    BY <1>2, <1>3, <2>1
  <2>3. c < mag /\ (k # InfRank => mag < b)
    <3>0. a = den * Magnitude(k) /\ b = den * Magnitude(k + 1) /\ c = den * Magnitude(k - 1)
      OBVIOUS
    <3> HIDE DEF a, b, c
    <3>1. CASE mode = RNE
      BY <1>1, <1>4, <1>6, <2>2, <3>0, <3>1 DEF RoundsTo, RNE, RMM, RTZ, RDN, RUP
    <3>2. CASE mode = RMM
      BY <1>1, <1>4, <1>6, <2>2, <3>0, <3>2 DEF RoundsTo, RNE, RMM, RTZ, RDN, RUP
    <3>3. CASE mode = RTZ
      BY <1>1, <1>4, <1>6, <2>2, <3>0, <3>3 DEF RoundsTo, RNE, RMM, RTZ, RDN, RUP
    <3>4. CASE mode = RDN
      BY <1>1, <1>4, <1>6, <2>2, <3>0, <3>4 DEF RoundsTo, RNE, RMM, RTZ, RDN, RUP
    <3>5. CASE mode = RUP
      BY <1>1, <1>4, <1>6, <2>2, <3>0, <3>5 DEF RoundsTo, RNE, RMM, RTZ, RDN, RUP
    <3> QED BY <3>1, <3>2, <3>3, <3>4, <3>5 DEF RoundingModes
  <2> QED BY <1>1, <2>3 DEF Neighbour, k
<1> QED BY <1>5, <1>6

(* The significand in w is mag / B rounded down.                            *)
FloorOf(w, mag, B) ==
    /\ w[1] \in One .. 2 * One - 1 /\ w[2] \in 0 .. W - 1
    /\ w[1] * B <= mag /\ mag < (w[1] + 1) * B /\ (w[2] # 0 => w[1] * B < mag)

(* The rounding of a number rounded down is a neighbour of that number.     *)
LEMMA FloorNeighbour ==
    ASSUME NEW sign \in {0, 1}, NEW mode \in RoundingModes, NEW w, NEW u \in Nat, NEW mag \in Nat,
           FloorOf(w, mag, Pow2[u]), Representable(mag, 1, mode)
    PROVE  Neighbour(Finished(sign, w, u + EMIN, mode), sign, mag, 1)
<1> DEFINE q == w[1]
           lo == w[2]
           B == Pow2[u]
           exp == u + EMIN
           rb == lo >= One
           st == lo % One # 0
           r == FRoundWide(sign, w, exp, mode)
           y == Float(sign, r.exp + BIAS, r.sig % One)
           k == RankAt(u, q)
<1>1. /\ One \in Nat /\ One >= 2 /\ W = 2 * One /\ EMIN \in Int /\ EMAX \in Nat
      /\ EMIN = 1 - EMAX /\ ExpOnes = 2 * EMAX + 1
  BY FormatFacts
<1>2. /\ q \in One .. 2 * One - 1 /\ lo \in 0 .. W - 1 /\ q \in Nat /\ B \in Nat \ {0}
      /\ q * B <= mag /\ mag < (q + 1) * B /\ (lo # 0 => q * B < mag)
  BY <1>1, Pow2Facts DEF FloorOf
<1>3. CASE exp > EMAX
  <2>1. Finished(sign, w, exp, mode) = Inf(sign)
    BY <1>3 DEF Finished
  <2>2. q * (1 * Pow2[u]) <= mag /\ u >= 2 * EMAX /\ One <= q
    BY <1>1, <1>2, <1>3
  <2> HIDE DEF q
  <2>3. Rounded(Inf(sign), sign, mag, 1, mode)
    BY <1>2, <2>2, TooLarge
  <2>4. Neighbour(Inf(sign), sign, mag, 1)
    BY <2>3, RoundedNeighbour
  <2> QED BY <2>1, <2>4
<1>4. CASE ~(exp > EMAX)
  <2>1. Finished(sign, w, exp, mode) = y
    BY <1>4 DEF Finished
  <2>2. rb \in BOOLEAN /\ st \in BOOLEAN /\ r = FRound(sign, q, rb, st, exp, mode) /\ u + 1 < ExpOnes
    BY <1>1, <1>4 DEF FRoundWide
  <2>3. rb \/ st => lo # 0
    <3>1. ~(0 >= One) /\ 0 % One = 0
      BY <1>1
    <3> HIDE DEF lo
    <3> QED BY <3>1
  <2> HIDE DEF q, lo, rb, st, r, B
  <2>4. /\ Rank(y) = k + Up(sign, q, rb, st, mode) /\ y.s = sign /\ ~IsNaN(y)
    BY <1>2, <2>2, Packed
  <2>5. /\ Magnitude(k) = q * B /\ Magnitude(k + 1) = (q + 1) * B /\ k \in Nat
        /\ Magnitude(k - 1) \in Nat /\ Magnitude(k + 2) \in Nat
        /\ Magnitude(k - 1) < Magnitude(k) /\ Magnitude(k + 1) < Magnitude(k + 2)
    BY <1>2, <2>2, RanksAround DEF B
  <2>6. Magnitude(k) \in Nat /\ Magnitude(k + 1) \in Nat
    BY <2>5, MagnitudeStep
  <2> HIDE DEF y, k
  <2>7. CASE RoundUp(sign, q, rb, st, mode)
    <3>1. Rank(y) = k + 1 /\ (k + 1) - 1 = k /\ (k + 1) + 1 = k + 2
      BY <2>4, <2>5, <2>7 DEF Up
    <3>2. rb \/ st
      BY <1>2, <2>2, <2>7, RoundUpByMode DEF RoundingModes
    <3>3. 1 * Magnitude(k) < mag /\ mag < 1 * Magnitude(k + 2)
      BY <1>2, <2>3, <2>5, <2>6, <3>2
    <3> QED BY <2>1, <2>4, <3>1, <3>3 DEF Neighbour
  <2>8. CASE ~RoundUp(sign, q, rb, st, mode)
    <3>1. Rank(y) = k
      BY <2>4, <2>5, <2>8 DEF Up
    <3>2. 1 * Magnitude(k - 1) < mag /\ mag < 1 * Magnitude(k + 1)
      BY <1>2, <2>5, <2>6
    <3> QED BY <2>1, <2>4, <3>1, <3>2 DEF Neighbour
  <2> QED BY <2>7, <2>8
<1> QED BY <1>3, <1>4

(* Addition of a float to a larger one.                                     *)
Aligns(b, c) == /\ b \in Floats /\ c \in Floats
                /\ Class(b) \in {"NORM", "SUB"} /\ Class(c) \in {"NORM", "SUB"}
                /\ Exp(c) < Exp(b) \/ (Exp(c) = Exp(b) /\ Sig(c) <= Sig(b))
(* The operands b and c of an addition: sum of magnitudes, addend, sum,     *)
(* exponent.                                                                *)
Combined(b, c) == IF DiffSigns(b, c) THEN Magnitude(Rank(b)) - Magnitude(Rank(c))
                                     ELSE Magnitude(Rank(b)) + Magnitude(Rank(c))
AddedSig(b, c) == IF DiffSigns(b, c) THEN -Sig(c) ELSE Sig(c)
AddedSum(b, c) == Aligned(Sig(b), AddedSig(b, c), Exp(b) - Exp(c))
AddedExp(b, c) == Exp(b) + WideLeadingOne(AddedSum(b, c)) - (2 * NSIG + 1)
LosesBits(b, c) == /\ Exp(b) - Exp(c) > NSIG + 1
                   /\ Sig(c) % Pow2[Exp(b) - Exp(c) - (NSIG + 1)] # 0

(* The aligned sum is the exact one rounded down, and the exact one unless  *)
(* the shift loses bits.                                                    *)
LEMMA AddedScale ==
    ASSUME NEW b, NEW c, Aligns(b, c)
    PROVE  LET V == WideValue(AddedSum(b, c))
               I == Exp(b) - EMIN + NSIG
               Y == (One * Combined(b, c)) * W
               n == Exp(b) - Exp(c)
           IN  /\ SumOf(AddedSum(b, c), Sig(b), Sig(c), AddedSig(b, c), n) /\ n \in Nat
               /\ Combined(b, c) \in Nat /\ V \in Nat /\ I \in Nat
               /\ V * Pow2[I] <= Y /\ Y < (V + 1) * Pow2[I]
               /\ ~LosesBits(b, c) => V * Pow2[I] = Y
               /\ n > NSIG + 1 => I >= NSIG + 2
<1> DEFINE sb == Sig(b)
           ss == Sig(c)
           v == AddedSig(b, c)
           n == Exp(b) - Exp(c)
           w == AddedSum(b, c)
           V == WideValue(w)
           I == Exp(b) - EMIN + NSIG
           J == Exp(c) - EMIN + NSIG
           mag == Combined(b, c)
           Mb == Magnitude(Rank(b))
           Mc == Magnitude(Rank(c))
           N == Pow2[n]
           PI == Pow2[I]
           PJ == Pow2[J]
           X == (sb * N + v) * W
           Y == (One * mag) * W
<1>1. One \in Nat /\ One >= 2 /\ W \in Nat /\ W >= 4 /\ NSIG \in Nat /\ EMIN \in Int
  BY FormatFacts, WideFacts
<1>2. /\ sb \in One .. 2 * One - 1 /\ ss \in One .. 2 * One - 1 /\ I \in Nat /\ J \in Nat
      /\ Exp(b) \in Int /\ Exp(c) \in Int /\ One * Mb = sb * PI /\ One * Mc = ss * PJ
      /\ Mb \in Nat /\ Mc \in Nat
  BY Significand, MagnitudeStep DEF Aligns
<1>3. n \in Nat /\ I = J + n /\ (n = 0 => ss <= sb) /\ v \in {ss, -ss}
  BY <1>1, <1>2 DEF Aligns, AddedSig
<1>4. PI = PJ * N /\ N \in Nat \ {0} /\ PJ \in Nat \ {0} /\ PI \in Nat \ {0}
  <2> HIDE DEF I, J, n
  <2>1. PI = PJ * N
    BY <1>2, <1>3, Pow2Split
  <2>2. N \in Nat \ {0} /\ PJ \in Nat \ {0} /\ PI \in Nat \ {0}
    BY <1>2, <1>3, Pow2Facts
  <2> QED BY <2>1, <2>2
<1>15. SumOf(w, sb, ss, v, n)
  <2> HIDE DEF sb, ss, v, n, w
  <2>1. Alignable(sb, ss, v, n)
    BY <1>2, <1>3 DEF Alignable
  <2>2. SumOf(Aligned(sb, v, n), sb, ss, v, n)
    BY <2>1, AlignedSum
  <2> QED BY <2>2 DEF w, AddedSum, sb, v, n
<1>5. /\ V \in Nat /\ X \in Nat /\ V * N <= X /\ X < (V + 1) * N
      /\ (n <= NSIG + 1 \/ ss % Pow2[n - (NSIG + 1)] = 0) => V * N = X
  <2> HIDE DEF w, sb, ss, v, n
  <2> QED BY <1>15 DEF SumOf
<1>6. mag \in Int /\ One * mag = One * Mb + (IF v = ss THEN One * Mc ELSE -(One * Mc)) /\ ss > 0 /\ sb \in Nat /\ ss \in Nat
  <2>1. ss > 0 /\ sb \in Nat /\ ss \in Nat
    BY <1>1, <1>2
  <2>2. CASE DiffSigns(b, c)
    <3>1. mag = Mb - Mc /\ v = -ss /\ v # ss
      BY <2>1, <2>2 DEF Combined, AddedSig
    <3> HIDE DEF mag, Mb, Mc, v, ss
    <3> QED BY <1>1, <1>2, <2>1, <3>1
  <2>3. CASE ~DiffSigns(b, c)
    <3>1. mag = Mb + Mc /\ v = ss
      BY <2>3 DEF Combined, AddedSig
    <3> HIDE DEF mag, Mb, Mc, v, ss
    <3> QED BY <1>1, <1>2, <2>1, <3>1
  <2> QED BY <2>2, <2>3
<1> HIDE DEF sb, ss, v, n, w, V, I, J, mag, Mb, Mc, N, PI, PJ
<1>7. (One * mag) * N = (sb * N + v) * PI
  <2> DEFINE A == sb * PI
             C == ss * PJ
  <2>1. C * N = ss * PI
    BY <1>3, <1>4, <1>6
  <2>2. (sb * N + v) * PI = A * N + v * PI
    BY <1>3, <1>4, <1>6
  <2>3. A \in Int /\ C \in Int
    BY <1>4, <1>6
  <2>4. One * mag = A + (IF v = ss THEN C ELSE -C)
    BY <1>2, <1>6
  <2> HIDE DEF A, C
  <2>5. CASE v = ss
    <3>1. One * mag = A + C
      BY <2>4, <2>5
    <3>2. (A + C) * N = A * N + C * N
      BY <1>4, <2>3
    <3> QED BY <2>1, <2>2, <2>5, <3>1, <3>2
  <2>6. CASE v # ss
    <3>1. One * mag = A - C /\ v = -ss
      BY <1>3, <2>3, <2>4, <2>6
    <3>2. (A - C) * N = A * N - C * N /\ A * N \in Int
      BY <1>4, <2>3
    <3>3. v * PI = -(ss * PI) /\ ss * PI \in Int
      BY <1>4, <1>6, <3>1
    <3> QED BY <2>1, <2>2, <3>1, <3>2, <3>3
  <2> QED BY <2>5, <2>6
<1>8. One * mag \in Int /\ sb * N + v \in Int /\ Y * N = X * PI /\ Y \in Int
  <2> DEFINE Z == sb * N + v
             T == One * mag
  <2>1. Z \in Int /\ T \in Int
    BY <1>1, <1>3, <1>4, <1>6
  <2>2. T * N = Z * PI
    BY <1>7
  <2> HIDE DEF Z, T
  <2>3. (T * W) * N = (T * N) * W /\ (Z * W) * PI = (Z * PI) * W /\ T * W \in Int
    BY <1>1, <1>4, <2>1
  <2> QED BY <2>1, <2>2, <2>3 DEF Z, T
<1> HIDE DEF X, Y
<1>9. V * PI <= Y /\ Y < (V + 1) * PI /\ (V * N = X => V * PI = Y)
  <2>1. (V * N) * PI <= X * PI /\ X * PI < ((V + 1) * N) * PI
    <3>1. V * N \in Int /\ (V + 1) * N \in Int /\ X \in Int
      BY <1>4, <1>5
    <3> QED BY <1>4, <1>5, <3>1, TimesMono
  <2>2. (V * N) * PI = (V * PI) * N /\ ((V + 1) * N) * PI = ((V + 1) * PI) * N
    BY <1>4, <1>5
  <2>3. V * PI \in Int /\ (V + 1) * PI \in Int
    BY <1>4, <1>5
  <2>4. (V * PI) * N <= Y * N /\ Y * N < ((V + 1) * PI) * N /\ (V * N = X => (V * PI) * N = Y * N)
    BY <1>8, <2>1, <2>2
  <2> QED BY <1>4, <1>8, <2>3, <2>4, TimesMono
<1>10. mag \in Nat
  <2>1. 0 <= V * PI /\ V * PI \in Int
    BY <1>4, <1>5
  <2>2. 0 <= Y
    BY <1>8, <1>9, <2>1
  <2>3. Y = (One * W) * mag /\ One * W > 0 /\ One * W \in Nat
    BY <1>1, <1>6 DEF Y
  <2> DEFINE Z == One * W
  <2> HIDE DEF Z
  <2>4. 0 * Z <= mag * Z
    BY <1>6, <2>2, <2>3 DEF Z
  <2> QED BY <1>6, <2>3, <2>4, TimesMono DEF Z
<1>11. ~LosesBits(b, c) => n <= NSIG + 1 \/ ss % Pow2[n - (NSIG + 1)] = 0
  <2>1. \A i : i = Exp(b) - Exp(c) => (i > NSIG + 1) = ~(i <= NSIG + 1)
    BY <1>1, <1>2
  <2> QED BY <2>1 DEF LosesBits, n, ss
<1>12. n > NSIG + 1 => I >= NSIG + 2
  BY <1>1, <1>2, <1>3
<1>13. ~LosesBits(b, c) => V * PI = Y
  BY <1>5, <1>9, <1>11
<1>14. /\ mag \in Nat /\ V \in Nat /\ I \in Nat /\ V * PI <= Y /\ Y < (V + 1) * PI
       /\ ~LosesBits(b, c) => V * PI = Y
       /\ n > NSIG + 1 => I >= NSIG + 2
  BY <1>2, <1>5, <1>9, <1>10, <1>12, <1>13
<1> QED BY <1>3, <1>14, <1>15 DEF mag, V, I, PI, Y, n, w, sb, ss, v

(* The result FADDd makes of them.                                          *)
AddTo(b, c, mode) ==
    IF AddedSum(b, c) = <<0, 0>> \/ AddedExp(b, c) < EMIN THEN Zero(0)
    ELSE Finished(b.s, Normal(AddedSum(b, c)), AddedExp(b, c), mode)

(* An addition rounds, or where the shift lost bits delivers a neighbour.   *)
LEMMA AddToRounds ==
    ASSUME NEW b, NEW c, Aligns(b, c), NEW mode \in RoundingModes, Representable(Combined(b, c), 1, mode)
    PROVE  /\ Neighbour(AddTo(b, c, mode), b.s, Combined(b, c), 1)
           /\ ~LosesBits(b, c) => Rounded(AddTo(b, c, mode), b.s, Combined(b, c), 1, mode)
<1> DEFINE w == AddedSum(b, c)
           V == WideValue(w)
           I == Exp(b) - EMIN + NSIG
           n == Exp(b) - Exp(c)
           mag == Combined(b, c)
           L == WideLeadingOne(w)
           p == Normal(w)
           N == WideValue(p)
           exp == AddedExp(b, c)
           y == AddTo(b, c, mode)
           Y == (One * mag) * W
           PI == Pow2[I]
           e == 2 * NSIG + 2 - L
           E == Pow2[e]
<1>1. /\ One \in Nat /\ One >= 2 /\ W = 2 * One /\ W \in Nat /\ W >= 4 /\ NSIG \in Nat /\ NSIG >= 1
      /\ One = Pow2[NSIG] /\ EMIN \in Int
  BY FormatFacts, WideFacts
<1>2. /\ SumOf(w, Sig(b), Sig(c), AddedSig(b, c), n) /\ n \in Nat
      /\ mag \in Nat /\ V \in Nat /\ I \in Nat
      /\ V * PI <= Y /\ Y < (V + 1) * PI
      /\ ~LosesBits(b, c) => V * PI = Y
      /\ n > NSIG + 1 => I >= NSIG + 2
  <2> HIDE DEF w, V, I, n, mag, Y
  <2> QED BY AddedScale DEF w, V, I, n, mag, Y
<1>3. b.s \in {0, 1} /\ Exp(b) \in Int
  BY ClassFacts, Significand DEF Aligns
<1>4. PI \in Nat \ {0}
  <2> HIDE DEF I
  <2> QED BY <1>2, Pow2Facts
<1>5. One <= mag
  <2>1. Magnitude(One) * 1 <= mag /\ Magnitude(One) = One
    BY InfFacts DEF Representable
  <2> HIDE DEF mag
  <2> QED BY <1>1, <2>1
<1> HIDE DEF mag, I, PI, V, w, n
<1>6. /\ w[1] \in Nat /\ w[2] \in 0 .. W - 1 /\ w[1] < 2 * W /\ (w[1] >= W => w[2] % 2 = 0)
      /\ n > NSIG + 1 => w[1] < W /\ (One - 1) * W <= V
  BY <1>2 DEF SumOf, V
<1>7. V > 0
  <2>1. CASE n > NSIG + 1
    <3>1. 1 * W <= (One - 1) * W /\ (One - 1) * W \in Int
      BY <1>1
    <3> QED BY <1>1, <1>2, <1>6, <2>1, <3>1
  <2>2. CASE ~(n > NSIG + 1)
    <3>1. ~LosesBits(b, c)
      BY <2>2 DEF LosesBits, n
    <3>2. V * PI = Y
      BY <1>2, <3>1
    <3>3. Y > 0
      <4>1. One * mag \in Nat /\ One * mag > 0
        BY <1>1, <1>2, <1>5
      <4> DEFINE z == One * mag
      <4> HIDE DEF z
      <4>2. z * W > 0
        BY <1>1, <4>1 DEF z
      <4> QED BY <4>2 DEF z
    <3>4. V = 0 => V * PI = 0
      BY <1>4
    <3> QED BY <1>2, <3>2, <3>3, <3>4
  <2> QED BY <2>1, <2>2
<1>8. /\ p[1] \in One .. 2 * One - 1 /\ p[2] \in 0 .. W - 1 /\ N \in Nat /\ N < W * W
      /\ L \in Nat /\ L <= 2 * NSIG + 2 /\ 2 * N = V * Pow2[2 * NSIG + 2 - L]
      /\ w[1] < W /\ (One - 1) * W <= V => L = 2 * NSIG + 1 \/ (L = 2 * NSIG /\ p[2] % 2 = 0)
  BY <1>6, <1>7, NormalisedSum DEF V
<1>9. N = p[1] * W + p[2]
  BY DEF WideValue
<1> HIDE DEF p, N, L
<1>10. exp = Exp(b) + L - (2 * NSIG + 1) /\ exp \in Int /\ exp - EMIN = I + L - (3 * NSIG + 1)
  <2>1. exp = Exp(b) + L - (2 * NSIG + 1)
    BY DEF AddedExp, L, w
  <2> QED BY <1>1, <1>3, <1>8, <2>1 DEF I
<1>11. y = IF exp < EMIN THEN Zero(0) ELSE Finished(b.s, p, exp, mode)
  <2>1. w # <<0, 0>>
    <3>1. CASE w = <<0, 0>>
      <4>1. WideValue(w) = 0 * W + 0
        BY <3>1 DEF WideValue
      <4> QED BY <1>1, <1>7, <4>1 DEF V
    <3> QED BY <3>1
  <2> HIDE DEF exp
  <2> QED BY <2>1 DEF AddTo, w, p, exp
<1> HIDE DEF exp, y
<1>12. e \in Nat /\ E \in Nat \ {0} /\ 2 * N = V * E
  <2>1. e \in Nat
    BY <1>1, <1>8
  <2>2. 2 * N = V * E
    BY <1>8
  <2> HIDE DEF e
  <2> QED BY <2>1, <2>2, Pow2Facts
<1>13. ~LosesBits(b, c) => Rounded(y, b.s, mag, 1, mode)
  <2> SUFFICES ASSUME ~LosesBits(b, c) PROVE Rounded(y, b.s, mag, 1, mode)
    OBVIOUS
  <2> DEFINE t == NSIG + e
             cc == I + 1
  <2>1. t \in Nat /\ cc \in Nat /\ Pow2[cc] = 2 * PI /\ Pow2[t] = One * E
    <3>1. t \in Nat /\ cc \in Nat
      BY <1>1, <1>2, <1>12
    <3>2. Pow2[I + 1] = 2 * Pow2[I]
      BY <1>2, Pow2Facts
    <3> HIDE DEF e
    <3>3. Pow2[t] = Pow2[NSIG] * Pow2[e]
      BY <1>1, <1>12, <3>1, Pow2Split
    <3> QED BY <1>1, <3>1, <3>2, <3>3 DEF PI
  <2>2. (mag * W) * Pow2[t] = N * Pow2[cc]
    <3>1. V * PI = Y
      BY <1>2
    <3> HIDE DEF t, cc, E, e
    <3>2. (mag * W) * (One * E) = ((One * mag) * W) * E
      BY <1>1, <1>2, <1>12
    <3>3. (V * PI) * E = (V * E) * PI /\ (2 * N) * PI = N * (2 * PI)
      BY <1>2, <1>4, <1>8, <1>12
    <3> QED BY <1>12, <2>1, <3>1, <3>2, <3>3
  <2>3. Pow2[0] = 1 /\ One * Pow2[0] <= mag
    BY <1>1, <1>5, Pow2Facts
  <2> HIDE DEF t, cc, E, e
  <2>4. ExactUpTo(N, mag, cc, 0, t)
    BY <1>2, <1>8, <2>1, <2>2, <2>3 DEF ExactUpTo
  <2>5. cc - 0 - t \in Nat /\ mag * W = N * (Pow2[0] * Pow2[cc - 0 - t])
    BY <2>4, Scaling
  <2>6. cc - 0 - t = exp - EMIN
    BY <1>1, <1>2, <1>8, <1>10 DEF cc, t, e
  <2>7. exp >= EMIN /\ exp - EMIN \in Nat
    BY <1>1, <1>10, <2>5, <2>6
  <2>8. Scaled(p, exp, mag, 1)
    BY <1>8, <2>3, <2>5, <2>6 DEF Scaled, N
  <2>9. Rounded(Finished(b.s, p, exp, mode), b.s, mag, 1, mode)
    BY <1>2, <1>3, <1>10, <2>7, <2>8, FinishedRounds DEF mag
  <2>10. y = Finished(b.s, p, exp, mode)
    BY <1>1, <1>10, <1>11, <2>7
  <2> QED BY <2>9, <2>10
<1>14. CASE ~LosesBits(b, c)
  <2>1. Neighbour(y, b.s, mag, 1)
    BY <1>2, <1>13, <1>14, RoundedNeighbour
  <2> QED BY <1>13, <2>1 DEF y, mag
<1>15. CASE LosesBits(b, c)
  <2>1. n > NSIG + 1
    BY <1>15 DEF LosesBits, n
  <2> DEFINE D == 2 * NSIG + 1 - L
             q == p[1]
             lo == p[2]
             u == exp - EMIN
             B == Pow2[u]
             S == Pow2[D]
  <2>2. D \in {0, 1} /\ (D = 1 => lo % 2 = 0) /\ u \in Nat /\ I = (NSIG + D) + u /\ e = D + 1
    <3>1. L = 2 * NSIG + 1 \/ (L = 2 * NSIG /\ lo % 2 = 0)
      BY <1>6, <1>8, <2>1
    <3> QED BY <1>1, <1>2, <1>8, <1>10, <2>1, <3>1
  <2> HIDE DEF D, u
  <2>3. /\ S \in {1, 2} /\ (S = 2 => lo % 2 = 0) /\ B \in Nat \ {0} /\ E = 2 * S /\ PI = (One * S) * B
    <3>1. D \in Nat /\ NSIG + D \in Nat
      BY <1>1, <2>2
    <3>2. Pow2[0 + 1] = 2 * Pow2[0] /\ Pow2[D + 1] = 2 * Pow2[D] /\ Pow2[0] = 1 /\ B \in Nat \ {0}
      BY <2>2, <3>1, Pow2Facts
    <3>3. Pow2[NSIG + D] = One * S
      BY <1>1, <3>1, Pow2Split
    <3>4. PI = Pow2[NSIG + D] * B
      BY <1>2, <2>2, <3>1, Pow2Split, SMTT(30) DEF PI
    <3> QED BY <2>2, <3>2, <3>3, <3>4
  <2> HIDE DEF S, B
  <2>4. N = V * S
    <3>1. 2 * N = 2 * (V * S) /\ V * S \in Nat
      <4>1. V * (2 * S) = 2 * (V * S) /\ V * S \in Nat
        BY <1>2, <2>3
      <4> QED BY <1>12, <2>3, <4>1
    <3> QED BY <1>8, <3>1
  <2> DEFINE M == mag * W
  <2>5. N * B <= M /\ M < (N + S) * B
    <3> DEFINE k == One
    <3>0. M \in Nat /\ Y = M * k /\ k \in Nat \ {0}
      BY <1>1, <1>2
    <3>1. V * PI = (N * B) * k /\ (V + 1) * PI = ((N + S) * B) * k
      <4>1. \A x \in Nat : x * ((k * S) * B) = ((x * S) * B) * k
        <5> SUFFICES ASSUME NEW x \in Nat PROVE x * ((k * S) * B) = ((x * S) * B) * k
          OBVIOUS
        <5> HIDE DEF k
        <5> QED BY <2>3, <3>0
      <4>2. (V + 1) * S = N + S /\ V + 1 \in Nat
        BY <1>2, <2>3, <2>4
      <4> HIDE DEF k
      <4>3. V * PI = ((V * S) * B) * k /\ (V + 1) * PI = (((V + 1) * S) * B) * k
        BY <1>2, <2>3, <4>1, <4>2 DEF k
      <4> QED BY <2>4, <4>2, <4>3
    <3> HIDE DEF k, M
    <3>2. (N * B) * k <= M * k /\ M * k < ((N + S) * B) * k
      BY <1>2, <3>0, <3>1
    <3>3. N * B \in Int /\ (N + S) * B \in Int
      BY <1>8, <2>3
    <3> QED BY <3>0, <3>2, <3>3, TimesMono
  <2>6. q \in Nat /\ lo \in 0 .. W - 1 /\ N = q * W + lo
    BY <1>1, <1>8, <1>9
  <2> HIDE DEF q, lo
  <2>7. lo + S <= W
    <3>1. W % 2 = 0
      BY <1>1
    <3> QED BY <1>1, <2>3, <2>6, <3>1
  <2>8. q * B <= mag /\ mag < (q + 1) * B /\ (lo # 0 => q * B < mag)
    <3>1. N * B = (q * B) * W + lo * B /\ lo * B >= 0 /\ (lo # 0 => lo * B > 0) /\ lo * B \in Int
      <4>1. (q * W + lo) * B = (q * B) * W + lo * B
        BY <1>1, <2>3, <2>6
      <4> QED BY <1>1, <2>3, <2>6, <4>1
    <3>2. (N + S) * B <= ((q + 1) * B) * W
      <4>1. N + S <= (q + 1) * W
        <5>1. (q + 1) * W = q * W + W /\ q * W \in Int
          BY <1>1, <2>6
        <5> QED BY <1>1, <2>3, <2>6, <2>7, <5>1
      <4>2. (q + 1) * W \in Int /\ N + S \in Int
        BY <1>1, <1>8, <2>3, <2>6
      <4>3. (N + S) * B <= ((q + 1) * W) * B
        BY <2>3, <4>1, <4>2, TimesMono
      <4>4. ((q + 1) * W) * B = ((q + 1) * B) * W
        <5>1. \A x, y1, z \in Nat : (x * y1) * z = (x * z) * y1
          OBVIOUS
        <5>2. q + 1 \in Nat
          BY <2>6
        <5> QED BY <1>1, <2>3, <5>1, <5>2
      <4> QED BY <4>3, <4>4
    <3>3. (q * B) * W \in Int /\ ((q + 1) * B) * W \in Int /\ q * B \in Int /\ (q + 1) * B \in Int /\ M \in Int
          /\ (N + S) * B \in Int
      <4>1. q * B \in Int /\ (q + 1) * B \in Int
        BY <2>3, <2>6
      <4>2. M \in Int /\ (N + S) * B \in Int
        BY <1>1, <1>2, <1>8, <2>3
      <4> QED BY <1>1, <4>1, <4>2
    <3>4. (q * B) * W <= mag * W /\ mag * W < ((q + 1) * B) * W /\ (lo # 0 => (q * B) * W < mag * W)
      <4> DEFINE a == (q * B) * W
                 d == ((q + 1) * B) * W
                 f == lo * B
                 g == N * B
                 h == (N + S) * B
      <4>1. a \in Int /\ d \in Int /\ f \in Int /\ M \in Int /\ h \in Int /\ g = a + f /\ f >= 0 /\ (lo # 0 => f > 0)
            /\ g <= M /\ M < h /\ h <= d
        BY <2>5, <3>1, <3>2, <3>3
      <4> HIDE DEF a, d, f, g, h, M
      <4>2. a <= M /\ M < d /\ (lo # 0 => a < M)
        BY <4>1
      <4> QED BY <4>2 DEF a, d, M
    <3> QED BY <1>1, <1>2, <3>3, <3>4, TimesMono
  <2>9. FloorOf(p, mag, Pow2[u])
    BY <1>8, <2>8 DEF FloorOf, q, lo, B
  <2>10. exp = u + EMIN /\ ~(exp < EMIN)
    BY <1>1, <1>10, <2>2 DEF u
  <2>11. Neighbour(Finished(b.s, p, u + EMIN, mode), b.s, mag, 1)
    BY <1>2, <1>3, <2>2, <2>9, FloorNeighbour DEF mag
  <2> QED BY <1>11, <1>15, <2>10, <2>11 DEF y, mag
<1> QED BY <1>14, <1>15

(* What the instructions promise of a result: num / den is the exact one.   *)
Sign(num) == IF num < 0 THEN 1 ELSE 0
Correct(y, num, den, mode) == Rounded(y, Sign(num), Abs(num), den, mode)
Beside(y, num, den) == Neighbour(y, Sign(num), Abs(num), den)
Loses(x, y) ==
    /\ ~IsZero(x) /\ ~IsZero(y)
    /\ LET diff == Abs(Exp(x) - Exp(y)) - (NSIG + 1)
           small == IF Exp(x) < Exp(y) THEN x ELSE y
       IN  diff > 0 /\ Sig(small) % Pow2[diff] # 0

(* A finite float by its sign and its magnitude.                            *)
LEMMA ValueFacts ==
    ASSUME NEW x \in Floats, Finite(x)
    PROVE  /\ Magnitude(Rank(x)) \in Nat /\ Rank(x) \in Nat /\ Rank(x) < InfRank /\ ~IsNaN(x) /\ ~IsInf(x)
           /\ x.s \in {0, 1} /\ Value(x) = IF x.s = 1 THEN -Magnitude(Rank(x)) ELSE Magnitude(Rank(x))
           /\ IsZero(x) => Value(x) = 0 /\ Magnitude(Rank(x)) = 0 /\ Rank(x) = 0
           /\ ~IsZero(x) => Class(x) \in {"NORM", "SUB"} /\ Magnitude(Rank(x)) > 0 /\ Rank(x) > 0
<1>1. Class(x) \in {"ZERO", "SUB", "NORM"} /\ x.s \in {0, 1}
  BY ClassFacts
<1>2. ~IsNaN(x) /\ ~IsInf(x) /\ (IsZero(x) <=> Class(x) = "ZERO")
  BY <1>1 DEF IsNaN, IsInf, IsZero
<1>3. /\ Rank(x) \in Nat /\ Magnitude(Rank(x)) \in Nat
      /\ IsZero(x) => Rank(x) = 0 /\ Magnitude(Rank(x)) = 0
      /\ ~IsZero(x) => Class(x) \in {"NORM", "SUB"} /\ Rank(x) > 0 /\ Rank(x) < InfRank /\ Magnitude(Rank(x)) > 0
  BY <1>1, <1>2, RankBelow
<1>4. 0 < InfRank
  BY FormatFacts
<1> DEFINE m == Magnitude(Rank(x))
<1>5. Value(x) = IF x.s = 1 THEN -m ELSE m
  BY DEF Value
<1>7. m \in Nat
  BY <1>3
<1> HIDE DEF m
<1>6. m = 0 => Value(x) = 0
  <2>1. Value(x) \in Int /\ (m < 1 => Value(x) < 1 /\ Value(x) > -1)
    BY <1>5, <1>7
  <2>2. \A n \in Int : n < 1 /\ n > -1 => n = 0
    OBVIOUS
  <2>3. m = 0 => m < 1
    BY <1>7
  <2> QED BY <2>1, <2>2, <2>3
<1> QED BY <1>1, <1>2, <1>3, <1>4, <1>5, <1>6 DEF m

(* FADDd adds the smaller operand to the larger one.                        *)
LEMMA AddFiniteIsAddTo ==
    ASSUME NEW x \in Floats, NEW y \in Floats, NEW mode,
           Class(x) \in {"NORM", "SUB"}, Class(y) \in {"NORM", "SUB"}
    PROVE  \/ Aligns(x, y) /\ FAddFinite(x, y, mode) = AddTo(x, y, mode)
           \/ Aligns(y, x) /\ FAddFinite(x, y, mode) = AddTo(y, x, mode)
<1> DEFINE xLarger == Exp(y) < Exp(x) \/ (Exp(x) = Exp(y) /\ Sig(y) < Sig(x))
<1>1. Exp(x) \in Int /\ Exp(y) \in Int /\ Sig(x) \in Int /\ Sig(y) \in Int
  BY Significand, FormatFacts
<1>2. DiffSigns(x, y) <=> DiffSigns(y, x)
  BY DEF DiffSigns
<1>3. ASSUME NEW b, NEW c PROVE
        WideSum(<<Sig(b), 0>>, WideShiftRight(IF DiffSigns(b, c) THEN <<-Sig(c), 0>> ELSE <<Sig(c), 0>>, Exp(b) - Exp(c)))
          = AddedSum(b, c)
  BY DEF AddedSum, Aligned, AddedSig
<1>4. CASE xLarger
  <2>1. Aligns(x, y)
    BY <1>1, <1>4 DEF Aligns
  <2>2. FAddFinite(x, y, mode) = AddTo(x, y, mode)
    <3> DEFINE w == AddedSum(x, y)
    <3>1. w = WideSum(<<Sig(x), 0>>, WideShiftRight(IF DiffSigns(x, y) THEN <<-Sig(y), 0>> ELSE <<Sig(y), 0>>, Exp(x) - Exp(y)))
      BY <1>3
    <3> QED BY <1>4, <3>1 DEF FAddFinite, AddTo, AddedExp, Finished, Normal
  <2> QED BY <2>1, <2>2
<1>5. CASE ~xLarger
  <2>1. Aligns(y, x)
    BY <1>1, <1>5 DEF Aligns
  <2>2. FAddFinite(x, y, mode) = AddTo(y, x, mode)
    <3> DEFINE w == AddedSum(y, x)
    <3>1. w = WideSum(<<Sig(y), 0>>, WideShiftRight(IF DiffSigns(x, y) THEN <<-Sig(x), 0>> ELSE <<Sig(x), 0>>, Exp(y) - Exp(x)))
      BY <1>2, <1>3
    <3> QED BY <1>5, <3>1 DEF FAddFinite, AddTo, AddedExp, Finished, Normal
  <2> QED BY <2>1, <2>2
<1> QED BY <1>4, <1>5

(* The same with the signs of the operands.                                 *)
LEMMA AddsTo ==
    ASSUME NEW b, NEW c, Aligns(b, c), NEW mode \in RoundingModes, Representable(Abs(Value(b) + Value(c)), 1, mode)
    PROVE  LET z == Value(b) + Value(c)
           IN  Beside(AddTo(b, c, mode), z, 1) /\ (~LosesBits(b, c) => Correct(AddTo(b, c, mode), z, 1, mode))
<1> DEFINE mb == Magnitude(Rank(b))
           mc == Magnitude(Rank(c))
           m == Combined(b, c)
           z == Value(b) + Value(c)
<1>1. b \in Floats /\ c \in Floats /\ b.s \in {0, 1} /\ c.s \in {0, 1} /\ mb \in Nat /\ mc \in Nat /\ m \in Nat
  <2>1. m \in Nat
    BY AddedScale
  <2>2. b \in Floats /\ c \in Floats /\ Rank(b) \in Nat /\ Rank(c) \in Nat
    BY Significand DEF Aligns
  <2> QED BY <2>1, <2>2, ClassFacts, MagnitudeStep
<1>2. m = (IF b.s # c.s THEN mb - mc ELSE mb + mc) /\ z = (IF b.s = 1 THEN -mb ELSE mb) + (IF c.s = 1 THEN -mc ELSE mc)
  BY DEF Combined, DiffSigns, Value
<1> HIDE DEF mb, mc, m, z
<1>3. z = IF b.s = 1 THEN -m ELSE m
  BY <1>1, <1>2
<1>4. Abs(z) = m
  BY <1>1, <1>3 DEF Abs
<1>5. m > 0
  <2>1. Magnitude(One) * 1 <= m /\ Magnitude(One) = One /\ One \in Nat /\ One >= 2
    BY <1>4, InfFacts, FormatFacts DEF Representable, z
  <2> QED BY <1>1, <2>1
<1>6. Sign(z) = b.s
  BY <1>1, <1>3, <1>5 DEF Sign
<1>7. Representable(m, 1, mode)
  BY <1>4 DEF z
<1>8. Neighbour(AddTo(b, c, mode), b.s, m, 1) /\ (~LosesBits(b, c) => Rounded(AddTo(b, c, mode), b.s, m, 1, mode))
  BY <1>7, AddToRounds DEF m
<1> QED BY <1>4, <1>6, <1>8 DEF Beside, Correct, z

(* An operand that is returned as it is, is the exact sum.                  *)
LEMMA KeepsOperand ==
    ASSUME NEW x \in Floats, Finite(x), NEW mode \in RoundingModes, Representable(Abs(Value(x)), 1, mode)
    PROVE  Correct(x, Value(x), 1, mode)
<1> DEFINE m == Magnitude(Rank(x))
           k == Rank(x)
<1>1. /\ m \in Nat /\ k \in Nat /\ k < InfRank /\ ~IsNaN(x) /\ x.s \in {0, 1}
      /\ Value(x) = (IF x.s = 1 THEN -m ELSE m) /\ (m > 0 => k > 0)
  BY ValueFacts
<1> HIDE DEF m
<1>2. Abs(Value(x)) = m
  BY <1>1 DEF Abs
<1>3. m > 0
  <2>1. Magnitude(One) * 1 <= m /\ Magnitude(One) = One /\ One \in Nat /\ One >= 2
    BY <1>2, InfFacts, FormatFacts DEF Representable
  <2> QED BY <1>1, <2>1
<1>4. Sign(Value(x)) = x.s
  BY <1>1, <1>3 DEF Sign
<1> HIDE DEF k
<1>5. RoundsTo(k, x.s, 1 * Magnitude(k), 1, mode)
  BY <1>1, <1>3, RoundsExact
<1>6. 1 * Magnitude(k) = m
  BY <1>1 DEF m, k
<1> QED BY <1>1, <1>2, <1>4, <1>5, <1>6 DEF Correct, Rounded, k

(* A result in the normal range is not zero.                                *)
LEMMA ZeroIsSmall ==
    ASSUME NEW mag \in Int, NEW den \in Nat \ {0}, NEW mode, Representable(mag, den, mode)
    PROVE  mag > 0 /\ One * den <= mag
<1>1. Magnitude(One) = One /\ One \in Nat /\ One >= 2 /\ Magnitude(One) * den <= mag
  BY InfFacts, FormatFacts DEF Representable
<1>2. One * den > 0 /\ One * den \in Nat
  BY <1>1
<1> QED BY <1>1, <1>2

(* FADDd of finite floats.                                                  *)
LEMMA AddRounds ==
    ASSUME NEW x \in Floats, NEW y \in Floats, Finite(x), Finite(y), NEW mode \in RoundingModes,
           Representable(Abs(Value(x) + Value(y)), 1, mode)
    PROVE  LET z == Value(x) + Value(y)
           IN  /\ Beside(FADDd(x, y, mode), z, 1)
               /\ ~Loses(x, y) => Correct(FADDd(x, y, mode), z, 1, mode)
<1> DEFINE z == Value(x) + Value(y)
<1>1. Value(x) \in Int /\ Value(y) \in Int /\ Abs(z) \in Nat
  <2>1. Value(x) \in Int /\ Value(y) \in Int
    BY ValueFacts
  <2> QED BY <2>1 DEF Abs
<1>2. /\ Class(x) \in {"ZERO", "SUB", "NORM"} /\ Class(y) \in {"ZERO", "SUB", "NORM"}
  BY ClassFacts
<1>3. CASE Class(x) \in {"NORM", "SUB"} /\ Class(y) \in {"NORM", "SUB"}
  <2>1. FADDd(x, y, mode) = FAddFinite(x, y, mode)
    BY <1>3 DEF FADDd
  <2>2. Exp(x) \in Int /\ Exp(y) \in Int /\ NSIG \in Nat /\ ~IsZero(x) /\ ~IsZero(y)
    BY <1>3, Significand, FormatFacts DEF IsZero
  <2>3. CASE Aligns(x, y) /\ FAddFinite(x, y, mode) = AddTo(x, y, mode)
    <3>1. LosesBits(x, y) => Loses(x, y)
      <4>1. ASSUME Exp(x) - Exp(y) > NSIG + 1 PROVE ~(Exp(x) < Exp(y)) /\ Abs(Exp(x) - Exp(y)) = Exp(x) - Exp(y)
              /\ Exp(x) - Exp(y) - (NSIG + 1) > 0
        BY <2>2, <4>1 DEF Abs
      <4> QED BY <2>2, <4>1 DEF LosesBits, Loses
    <3> QED BY <2>1, <2>3, <3>1, AddsTo
  <2>4. CASE Aligns(y, x) /\ FAddFinite(x, y, mode) = AddTo(y, x, mode)
    <3>1. LosesBits(y, x) => Loses(x, y)
      <4>1. ASSUME Exp(y) - Exp(x) > NSIG + 1 PROVE Exp(x) < Exp(y) /\ Abs(Exp(x) - Exp(y)) = Exp(y) - Exp(x)
              /\ Exp(y) - Exp(x) - (NSIG + 1) > 0
        BY <2>2, <4>1 DEF Abs
      <4> QED BY <2>2, <4>1 DEF LosesBits, Loses
    <3>2. Value(y) + Value(x) = Value(x) + Value(y)
      BY <1>1
    <3>3. Representable(Abs(Value(y) + Value(x)), 1, mode)
      BY <3>2
    <3>4. LET a == Value(y) + Value(x)
          IN  Beside(AddTo(y, x, mode), a, 1) /\ (~LosesBits(y, x) => Correct(AddTo(y, x, mode), a, 1, mode))
      BY <2>4, <3>3, AddsTo
    <3> QED BY <2>1, <2>4, <3>1, <3>2, <3>4
  <2> QED BY <1>3, <2>3, <2>4, AddFiniteIsAddTo
<1>4. ASSUME NEW v \in {x, y}, z = Value(v), FADDd(x, y, mode) = v PROVE Beside(v, z, 1) /\ Correct(v, z, 1, mode)
  <2>1. v \in Floats /\ Finite(v) /\ Representable(Abs(Value(v)), 1, mode)
    BY <1>4
  <2>2. Correct(v, z, 1, mode)
    BY <1>4, <2>1, KeepsOperand
  <2> HIDE DEF z
  <2>3. Beside(v, z, 1)
    BY <1>1, <2>2, RoundedNeighbour DEF Beside, Correct
  <2> QED BY <2>2, <2>3
<1>5. CASE Class(x) = "ZERO"
  <2>1. FADDd(x, y, mode) = y
    BY <1>2, <1>5 DEF FADDd, FAddSpecial, IsZero
  <2>2. z = Value(y)
    <3>1. Value(x) = 0
      BY <1>5, ValueFacts DEF IsZero
    <3> QED BY <1>1, <3>1
  <2> QED BY <1>4, <2>1, <2>2
<1>6. CASE Class(x) # "ZERO" /\ Class(y) = "ZERO"
  <2>1. FADDd(x, y, mode) = x
    BY <1>2, <1>6 DEF FADDd, FAddSpecial, IsZero
  <2>2. z = Value(x)
    <3>1. Value(y) = 0
      BY <1>6, ValueFacts DEF IsZero
    <3> QED BY <1>1, <3>1
  <2> QED BY <1>4, <2>1, <2>2
<1> QED BY <1>2, <1>3, <1>5, <1>6

(* FSUB flips the sign of its second operand and nothing else.              *)
LEMMA NegatedFacts ==
    ASSUME NEW x \in Floats, Finite(x)
    PROVE  /\ Negated(x) \in Floats /\ Finite(Negated(x)) /\ Value(Negated(x)) = -Value(x)
           /\ Exp(Negated(x)) = Exp(x) /\ Sig(Negated(x)) = Sig(x) /\ (IsZero(Negated(x)) <=> IsZero(x))
<1> DEFINE y == Negated(x)
           m == Magnitude(Rank(x))
<1>1. x.s \in {0, 1} /\ x.e \in 0 .. ExpOnes /\ x.f \in 0 .. FracOnes /\ x = Float(x.s, x.e, x.f)
  BY ClassFacts DEF Floats
<1>2. y = [s |-> 1 - x.s, e |-> x.e, f |-> x.f]
  BY <1>1 DEF Negated, Float
<1>3. y \in Floats /\ y.s = 1 - x.s /\ y.e = x.e /\ y.f = x.f
  BY <1>1, <1>2 DEF Floats
<1> HIDE DEF y
<1>4. Class(y) = Class(x) /\ Rank(y) = Rank(x) /\ Finite(y)
  BY <1>3 DEF Class, Rank, Finite
<1>5. Exp(y) = Exp(x) /\ Sig(y) = Sig(x) /\ (IsZero(y) <=> IsZero(x))
  BY <1>3, <1>4 DEF Exp, Sig, IsZero
<1>6. m \in Nat /\ Value(x) = (IF x.s = 1 THEN -m ELSE m) /\ Value(y) = (IF y.s = 1 THEN -m ELSE m)
  BY <1>4, ValueFacts DEF Value
<1> HIDE DEF m
<1>7. Value(y) = -Value(x)
  BY <1>1, <1>3, <1>6
<1> QED BY <1>3, <1>4, <1>5, <1>7 DEF y

(* FSUB of finite floats.                                                   *)
LEMMA SubRounds ==
    ASSUME NEW x \in Floats, NEW y \in Floats, Finite(x), Finite(y), NEW mode \in RoundingModes,
           Representable(Abs(Value(x) - Value(y)), 1, mode)
    PROVE  LET z == Value(x) - Value(y)
           IN  /\ Beside(FSUB(x, y, mode), z, 1)
               /\ ~Loses(x, y) => Correct(FSUB(x, y, mode), z, 1, mode)
<1> DEFINE n == Negated(y)
<1>1. n \in Floats /\ Finite(n) /\ Value(n) = -Value(y) /\ Exp(n) = Exp(y) /\ Sig(n) = Sig(y) /\ (IsZero(n) <=> IsZero(y))
  BY NegatedFacts
<1>2. Value(x) \in Int /\ Value(y) \in Int
  BY ValueFacts
<1>3. Value(x) + Value(n) = Value(x) - Value(y)
  BY <1>1, <1>2
<1>4. FSUB(x, y, mode) = FADDd(x, n, mode)
  BY DEF FSUB
<1> HIDE DEF n
<1>5. Loses(x, n) <=> Loses(x, y)
  <2>1. Sig(IF Exp(x) < Exp(n) THEN x ELSE n) = Sig(IF Exp(x) < Exp(y) THEN x ELSE y)
    BY <1>1
  <2> QED BY <1>1, <2>1 DEF Loses
<1>6. Representable(Abs(Value(x) + Value(n)), 1, mode)
  BY <1>3
<1>7. LET a == Value(x) + Value(n)
      IN  Beside(FADDd(x, n, mode), a, 1) /\ (~Loses(x, n) => Correct(FADDd(x, n, mode), a, 1, mode))
  BY <1>1, <1>6, AddRounds
<1> QED BY <1>3, <1>4, <1>5, <1>7

(* The sign of a product or quotient, and its magnitude.                    *)
LEMMA SignedProduct ==
    ASSUME NEW s \in {0, 1}, NEW t \in {0, 1}, NEW m \in Nat, NEW n \in Nat, m > 0, n > 0,
           NEW z, z = (IF s = 1 THEN -m ELSE m) * (IF t = 1 THEN -n ELSE n)
    PROVE  Abs(z) = m * n /\ m * n \in Nat /\ m * n > 0 /\ Sign(z) = IF s # t THEN 1 ELSE 0
<1>1. \A a, b \in Nat : (-a) * b = -(a * b) /\ a * (-b) = -(a * b) /\ (-a) * (-b) = a * b /\ a * b \in Nat
      /\ (a > 0 /\ b > 0 => a * b > 0)
  OBVIOUS
<1>2. z = IF s # t THEN -(m * n) ELSE m * n
  BY <1>1
<1>3. m * n \in Nat /\ m * n > 0
  BY <1>1
<1> DEFINE p == m * n
<1> HIDE DEF p
<1>4. Abs(z) = p /\ Sign(z) = IF s # t THEN 1 ELSE 0
  BY <1>2, <1>3 DEF Abs, Sign, p
<1> QED BY <1>3, <1>4 DEF p

(* FMUL of finite floats: two subnormals, whose product it drops, have none *)
(* in range.                                                                *)
LEMMA MulCorrect ==
    ASSUME NEW x \in Floats, NEW y \in Floats, Finite(x), Finite(y), NEW mode \in RoundingModes,
           Representable(Abs(Value(x) * Value(y)), PerUnit, mode)
    PROVE  Correct(FMUL(x, y, mode), Value(x) * Value(y), PerUnit, mode)
<1> DEFINE z == Value(x) * Value(y)
           mx == Magnitude(Rank(x))
           my == Magnitude(Rank(y))
<1>1. /\ mx \in Nat /\ my \in Nat /\ x.s \in {0, 1} /\ y.s \in {0, 1}
      /\ Value(x) = (IF x.s = 1 THEN -mx ELSE mx) /\ Value(y) = (IF y.s = 1 THEN -my ELSE my)
  BY ValueFacts
<1>2. One \in Nat /\ One >= 2 /\ PerUnit \in Nat \ {0} /\ One <= PerUnit
  <2>1. One = Pow2[NSIG] /\ PerUnit = Pow2[NSIG + EMAX - 1] /\ NSIG \in Nat /\ EMAX \in Nat /\ EMAX >= 1
    BY FormatFacts
  <2>2. NSIG + EMAX - 1 \in Nat /\ NSIG <= NSIG + EMAX - 1
    BY <2>1
  <2> QED BY <2>1, <2>2, Pow2Mono, FormatFacts
<1>3. z \in Int /\ Abs(z) \in Int
  <2>1. Value(x) \in Int /\ Value(y) \in Int
    BY <1>1
  <2>2. z \in Int
    BY <2>1
  <2> HIDE DEF z
  <2> QED BY <2>2 DEF Abs
<1>4. Abs(z) > 0 /\ One * PerUnit <= Abs(z)
  BY <1>2, <1>3, ZeroIsSmall
<1>5. ~IsZero(x) /\ ~IsZero(y)
  <2>1. \A a, b \in Int : a = 0 \/ b = 0 => a * b = 0
    OBVIOUS
  <2>2. z = 0 => Abs(z) = 0
    BY DEF Abs
  <2>3. Value(x) \in Int /\ Value(y) \in Int
    BY <1>1
  <2> QED BY <1>4, <2>1, <2>2, <2>3, ValueFacts
<1>6. Class(x) \in {"NORM", "SUB"} /\ Class(y) \in {"NORM", "SUB"} /\ mx > 0 /\ my > 0
  BY <1>5, ValueFacts
<1>7. Abs(z) = mx * my /\ Sign(z) = IF x.s # y.s THEN 1 ELSE 0
  BY <1>1, <1>6, SignedProduct
<1>8. ~(Class(x) = "SUB" /\ Class(y) = "SUB")
  <2> SUFFICES ASSUME Class(x) = "SUB", Class(y) = "SUB" PROVE FALSE
    OBVIOUS
  <2>1. mx < One /\ my < One
    <3>1. Rank(x) = x.f /\ Rank(y) = y.f /\ x.f \in Nat /\ x.f < One /\ y.f \in Nat /\ y.f < One
      BY <1>2, ClassFacts DEF Rank
    <3> QED BY <3>1, MagnitudeBelow
  <2> HIDE DEF mx, my
  <2>2. mx * my < One * One /\ One * One <= One * PerUnit /\ mx * my \in Nat /\ One * One \in Nat
    <3>1. \A a, b, c, d \in Nat : a < c /\ b < c /\ c <= d => a * b < c * c /\ c * c <= c * d /\ a * b \in Nat /\ c * c \in Nat
      <4> TAKE a, b, c, d \in Nat
      <4> HAVE a < c /\ b < c /\ c <= d
      <4>1. a * b <= a * c /\ a * c <= c * c - c /\ c * c <= c * d /\ a * b \in Nat /\ a * c \in Nat /\ c * c \in Nat
        <5>1. (a + 1) * c <= c * c /\ (a + 1) * c = a * c + c
          OBVIOUS
        <5>2. a * b <= a * c /\ c * c <= c * d /\ a * b \in Nat /\ a * c \in Nat /\ c * c \in Nat
          OBVIOUS
        <5> QED BY <5>1, <5>2
      <4>2. c > 0
        OBVIOUS
      <4> QED BY <4>1, <4>2
    <3> QED BY <1>1, <1>2, <2>1, <3>1
  <2> QED BY <1>2, <1>4, <1>7, <2>2
<1>9. FMUL(x, y, mode) = FMulFinite(x, y, mode)
  <2>1. {Class(x), Class(y)} # {"SUB"}
    BY <1>6, <1>8
  <2> QED BY <1>6, <2>1 DEF FMUL
<1>10. XorSign(x, y) = Sign(z)
  BY <1>7 DEF XorSign, DiffSigns
<1>11. Representable(mx * my, PerUnit, mode)
  BY <1>7
<1>12. Rounded(FMulFinite(x, y, mode), XorSign(x, y), mx * my, PerUnit, mode)
  BY <1>6, <1>11, MulRounds
<1> HIDE DEF z
<1>13. Correct(FMulFinite(x, y, mode), z, PerUnit, mode)
  BY <1>7, <1>10, <1>12 DEF Correct
<1> QED BY <1>9, <1>13 DEF z

(* The exact quotient in units is DividedBy(x, y) / Magnitude(Rank(y)).     *)
DividedBy(x, y) == PerUnit * Value(x) * (IF y.s = 1 THEN -1 ELSE 1)

(* FDIV of finite floats.                                                   *)
LEMMA DivCorrect ==
    ASSUME NEW x \in Floats, NEW y \in Floats, Finite(x), Finite(y), ~IsZero(y), NEW mode \in RoundingModes,
           Representable(Abs(DividedBy(x, y)), Magnitude(Rank(y)), mode)
    PROVE  Correct(FDIV(x, y, mode), DividedBy(x, y), Magnitude(Rank(y)), mode)
<1> DEFINE z == DividedBy(x, y)
           mx == Magnitude(Rank(x))
           my == Magnitude(Rank(y))
<1>1. /\ mx \in Nat /\ my \in Nat \ {0} /\ x.s \in {0, 1} /\ y.s \in {0, 1}
      /\ Value(x) = (IF x.s = 1 THEN -mx ELSE mx) /\ Class(y) \in {"NORM", "SUB"}
  BY ValueFacts
<1>2. One \in Nat /\ PerUnit \in Nat \ {0}
  BY FormatFacts
<1>3. z = (IF x.s = 1 THEN -(PerUnit * mx) ELSE PerUnit * mx) * (IF y.s = 1 THEN -1 ELSE 1)
  <2>1. \A a, b \in Nat : a * (-b) = -(a * b)
    OBVIOUS
  <2> QED BY <1>1, <1>2, <2>1 DEF DividedBy
<1>4. PerUnit * mx \in Nat /\ (mx > 0 => PerUnit * mx > 0)
  BY <1>1, <1>2
<1>5. z \in Int /\ Abs(z) \in Int
  <2>1. z \in Int
    BY <1>3, <1>4
  <2> HIDE DEF z
  <2> QED BY <2>1 DEF Abs
<1>6. Abs(z) > 0
  BY <1>1, <1>5, ZeroIsSmall
<1>7. ~IsZero(x)
  <2>1. ASSUME IsZero(x) PROVE z = 0
    <3>1. Value(x) = 0
      BY <2>1, ValueFacts
    <3>2. \A a, b \in Int : a * 0 * b = 0
      OBVIOUS
    <3> QED BY <1>2, <3>1, <3>2 DEF DividedBy
  <2>2. z = 0 => Abs(z) = 0
    BY DEF Abs
  <2> QED BY <1>6, <2>1, <2>2
<1>8. Class(x) \in {"NORM", "SUB"} /\ mx > 0
  BY <1>7, ValueFacts
<1>9. Abs(z) = PerUnit * mx /\ Sign(z) = IF x.s # y.s THEN 1 ELSE 0
  <2> DEFINE n == PerUnit * mx
  <2>1. n \in Nat /\ n > 0 /\ n * 1 = n /\ z = (IF x.s = 1 THEN -n ELSE n) * (IF y.s = 1 THEN -1 ELSE 1)
    BY <1>3, <1>4, <1>8
  <2> DEFINE i == 1
  <2>2. i \in Nat /\ i > 0 /\ z = (IF x.s = 1 THEN -n ELSE n) * (IF y.s = 1 THEN -i ELSE i)
    BY <2>1
  <2> HIDE DEF n, z, i
  <2>3. Abs(z) = n * i /\ Sign(z) = IF x.s # y.s THEN 1 ELSE 0
    BY <1>1, <2>1, <2>2, SignedProduct
  <2> QED BY <2>1, <2>3 DEF n, i
<1>10. FDIV(x, y, mode) = FDivFinite(x, y, mode)
  BY <1>1, <1>8 DEF FDIV, IsInf, IsZero
<1>11. XorSign(x, y) = Sign(z)
  BY <1>9 DEF XorSign, DiffSigns
<1>12. Representable(PerUnit * mx, my, mode)
  BY <1>9
<1>13. Rounded(FDivFinite(x, y, mode), XorSign(x, y), PerUnit * mx, my, mode)
  BY <1>1, <1>8, <1>12, DivRounds
<1> HIDE DEF z
<1>14. Correct(FDivFinite(x, y, mode), z, my, mode)
  BY <1>9, <1>11, <1>13 DEF Correct
<1> QED BY <1>10, <1>14 DEF z

(* Two numbers compare as their exponents do and then their significands.   *)
LEMMA SignificandOrder ==
    ASSUME NEW x \in Floats, NEW y \in Floats, Class(x) \in {"NORM", "SUB"}, Class(y) \in {"NORM", "SUB"},
           MagnitudeLess(x, y)
    PROVE  Magnitude(Rank(x)) < Magnitude(Rank(y))
<1> DEFINE mx == Magnitude(Rank(x))
           my == Magnitude(Rank(y))
           sx == Sig(x)
           sy == Sig(y)
           i == Exp(x) - EMIN + NSIG
           j == Exp(y) - EMIN + NSIG
           P == Pow2[i]
           Q == Pow2[j]
<1>1. /\ sx \in One .. 2 * One - 1 /\ sy \in One .. 2 * One - 1 /\ i \in Nat /\ j \in Nat
      /\ Exp(x) \in Int /\ Exp(y) \in Int /\ One * mx = sx * P /\ One * my = sy * Q
  BY Significand
<1>2. One \in Nat /\ One >= 2 /\ mx \in Nat /\ my \in Nat /\ EMIN \in Int /\ NSIG \in Nat
  <2>1. Rank(x) \in Nat /\ Rank(y) \in Nat
    BY Significand
  <2> QED BY <2>1, FormatFacts, MagnitudeStep
<1>3. P \in Nat \ {0} /\ Q \in Nat \ {0} /\ (i < j => 2 * P <= Q)
  <2> HIDE DEF i, j
  <2> QED BY <1>1, Pow2Facts, Pow2Mono
<1>4. i < j \/ (P = Q /\ sx < sy)
  BY <1>1, <1>2 DEF MagnitudeLess
<1> HIDE DEF mx, my, sx, sy, i, j, P, Q
<1>5. sx * P < sy * Q
  <2>1. CASE i < j
    <3>1. sx * P < (2 * One) * P /\ (2 * One) * P = One * (2 * P) /\ One * (2 * P) <= One * Q /\ One * Q <= sy * Q
      BY <1>1, <1>2, <1>3, <2>1
    <3>2. sx * P \in Int /\ One * (2 * P) \in Int /\ One * Q \in Int /\ sy * Q \in Int
      BY <1>1, <1>2, <1>3
    <3> QED BY <3>1, <3>2
  <2>2. CASE P = Q /\ sx < sy
    BY <1>1, <1>2, <1>3, <2>2
  <2> QED BY <1>4, <2>1, <2>2
<1>6. \A a, b, c \in Nat : c * a < c * b => a < b
  OBVIOUS
<1> QED BY <1>1, <1>2, <1>5, <1>6 DEF mx, my

(* The comparison of magnitudes, a zero against a subnormal excepted.       *)
LEMMA MagnitudeOrder ==
    ASSUME NEW x \in Floats, NEW y \in Floats, Finite(x), Finite(y),
           ~(IsZero(x) /\ IsZero(y)), {Class(x), Class(y)} # {"ZERO", "SUB"}
    PROVE  /\ MagnitudeLess(x, y) <=> Magnitude(Rank(x)) < Magnitude(Rank(y))
           /\ (Exp(x) = Exp(y) /\ Sig(x) = Sig(y)) <=> Magnitude(Rank(x)) = Magnitude(Rank(y))
<1>1. /\ Class(x) \in {"ZERO", "SUB", "NORM"} /\ Class(y) \in {"ZERO", "SUB", "NORM"}
      /\ Magnitude(Rank(x)) \in Nat /\ Magnitude(Rank(y)) \in Nat
  BY ClassFacts, ValueFacts
<1>2. CASE Class(x) \in {"NORM", "SUB"} /\ Class(y) \in {"NORM", "SUB"}
  <2>1. Exp(x) \in Int /\ Exp(y) \in Int /\ Sig(x) \in Int /\ Sig(y) \in Int /\ One \in Nat /\ One >= 2
    BY <1>2, Significand, FormatFacts
  <2>2. MagnitudeLess(x, y) \/ MagnitudeLess(y, x) \/ (Exp(x) = Exp(y) /\ Sig(x) = Sig(y))
    BY <2>1 DEF MagnitudeLess
  <2>3. /\ MagnitudeLess(x, y) => Magnitude(Rank(x)) < Magnitude(Rank(y))
        /\ MagnitudeLess(y, x) => Magnitude(Rank(y)) < Magnitude(Rank(x))
    BY <1>2, SignificandOrder
  <2>4. Exp(x) = Exp(y) /\ Sig(x) = Sig(y) => Magnitude(Rank(x)) = Magnitude(Rank(y))
    <3> SUFFICES ASSUME Exp(x) = Exp(y), Sig(x) = Sig(y) PROVE Magnitude(Rank(x)) = Magnitude(Rank(y))
      OBVIOUS
    <3>1. One * Magnitude(Rank(x)) = One * Magnitude(Rank(y))
      BY <1>2, Significand
    <3>2. \A a, b, c \in Nat : c >= 2 /\ c * a = c * b => a = b
      OBVIOUS
    <3> QED BY <1>1, <2>1, <3>1, <3>2
  <2> QED BY <1>1, <2>2, <2>3, <2>4
<1>3. ASSUME NEW a \in Floats, NEW b \in Floats, Class(a) = "ZERO", Class(b) = "NORM"
      PROVE  Exp(a) < Exp(b) /\ Exp(a) \in Int /\ Exp(b) \in Int /\ Magnitude(Rank(a)) < Magnitude(Rank(b))
  <2>1. Exp(a) = 0 - BIAS /\ BIAS \in Int /\ EMIN = 1 - BIAS
    BY <1>3, ClassFacts, FormatFacts DEF Exp
  <2>2. Exp(b) \in Int /\ Exp(b) >= EMIN
    BY <1>3, Significand
  <2>3. Magnitude(Rank(a)) = 0 /\ Magnitude(Rank(b)) > 0
    BY <1>3, RankBelow DEF IsNaN
  <2> QED BY <2>1, <2>2, <2>3
<1>4. CASE Class(x) = "ZERO" /\ Class(y) = "NORM"
  BY <1>1, <1>3, <1>4 DEF MagnitudeLess
<1>5. CASE Class(x) = "NORM" /\ Class(y) = "ZERO"
  BY <1>1, <1>3, <1>5 DEF MagnitudeLess
<1> QED BY <1>1, <1>2, <1>4, <1>5 DEF IsZero

(* A number by its sign and magnitude.                                      *)
LEMMA NumberFacts ==
    ASSUME NEW x \in Floats, ~IsNaN(x)
    PROVE  LET m == Magnitude(Rank(x))
               top == Magnitude(InfRank)
           IN  /\ x.s \in {0, 1} /\ m \in Nat /\ top \in Nat /\ top > 0 /\ m <= top
               /\ IsInf(x) <=> m = top
               /\ IsZero(x) <=> m = 0
               /\ Value(x) = IF x.s = 1 THEN -m ELSE m
               /\ IsInf(x) => x = Inf(x.s)
               /\ ~IsInf(x) => Finite(x)
<1>1. Class(x) \in {"INF", "ZERO", "SUB", "NORM"} /\ x.s \in {0, 1}
  BY ClassFacts DEF IsNaN
<1>2. /\ Rank(x) \in Nat /\ Rank(x) <= InfRank
      /\ Class(x) = "ZERO" => Rank(x) = 0 /\ Magnitude(Rank(x)) = 0
      /\ Class(x) = "INF" => Rank(x) = InfRank
      /\ Class(x) \in {"NORM", "SUB"} => Rank(x) > 0 /\ Rank(x) < InfRank /\ Magnitude(Rank(x)) > 0
  BY RankBelow
<1>3. InfRank \in Nat /\ InfRank > 0
  BY FormatFacts
<1>4. /\ Magnitude(0) = 0 /\ Magnitude(InfRank) \in Nat /\ Magnitude(Rank(x)) \in Nat
      /\ Magnitude(0) < Magnitude(InfRank)
      /\ Rank(x) < InfRank => Magnitude(Rank(x)) < Magnitude(InfRank)
  <2>1. Magnitude(0) = 0
    BY MagnitudeBelow, FormatFacts
  <2>2. Magnitude(InfRank) \in Nat /\ Magnitude(Rank(x)) \in Nat
    BY <1>2, <1>3, MagnitudeStep
  <2> QED BY <1>2, <1>3, <2>1, <2>2, MagnitudeMono
<1>5. IsInf(x) => x = Inf(x.s)
  BY ClassFacts DEF IsInf, Inf
<1>6. ~IsInf(x) => Finite(x)
  BY <1>1, ClassFacts DEF IsInf
<1>7. Value(x) = IF x.s = 1 THEN -Magnitude(Rank(x)) ELSE Magnitude(Rank(x))
  BY DEF Value
<1>8. /\ Magnitude(Rank(x)) <= Magnitude(InfRank)
      /\ IsInf(x) <=> Magnitude(Rank(x)) = Magnitude(InfRank)
      /\ IsZero(x) <=> Magnitude(Rank(x)) = 0
  BY <1>1, <1>2, <1>3, <1>4 DEF IsInf, IsZero
<1> QED BY <1>1, <1>4, <1>5, <1>6, <1>7, <1>8

(* FLT and FEQ, for all classes of operands.                                *)
LEMMA ComparesAsValues ==
    ASSUME NEW x \in Floats, NEW y \in Floats, {Class(x), Class(y)} # {"ZERO", "SUB"}
    PROVE  LET ordered == ~IsNaN(x) /\ ~IsNaN(y)
           IN  /\ FLT(x, y) = (ordered /\ Value(x) < Value(y))
               /\ FEQ(x, y) = (ordered /\ Value(x) = Value(y))
<1>1. CASE IsNaN(x) \/ IsNaN(y)
  BY <1>1 DEF FLT, FEQ
<1>2. CASE ~IsNaN(x) /\ ~IsNaN(y)
  <2> DEFINE mx == Magnitude(Rank(x))
             my == Magnitude(Rank(y))
             top == Magnitude(InfRank)
  <2>1. /\ x.s \in {0, 1} /\ mx \in Nat /\ top \in Nat /\ top > 0 /\ mx <= top
        /\ (IsInf(x) <=> mx = top) /\ (IsZero(x) <=> mx = 0)
        /\ Value(x) = (IF x.s = 1 THEN -mx ELSE mx)
        /\ (IsInf(x) => x = Inf(x.s)) /\ (~IsInf(x) => Finite(x))
    BY <1>2, NumberFacts
  <2>2. /\ y.s \in {0, 1} /\ my \in Nat /\ my <= top
        /\ (IsInf(y) <=> my = top) /\ (IsZero(y) <=> my = 0)
        /\ Value(y) = (IF y.s = 1 THEN -my ELSE my)
        /\ (IsInf(y) => y = Inf(y.s)) /\ (~IsInf(y) => Finite(y))
    BY <1>2, NumberFacts
  <2>3. CASE IsInf(x) \/ IsInf(y)
    <3>1. IsInf(x) => ((y = x) <=> (my = mx /\ y.s = x.s))
      BY <2>1, <2>2
    <3>2. IsInf(y) => ((y = x) <=> (my = mx /\ y.s = x.s))
      BY <2>1, <2>2
    <3> HIDE DEF mx, my, top
    <3>3. FLT(x, y) = IF IsInf(x) THEN x.s = 1 /\ y # x ELSE y.s = 0
      BY <1>2, <2>3 DEF FLT
    <3>4. FEQ(x, y) = (x = y)
      BY <1>2, <2>3 DEF FEQ
    <3>5. (IF IsInf(x) THEN x.s = 1 /\ y # x ELSE y.s = 0) <=> Value(x) < Value(y)
      BY <2>1, <2>2, <2>3, <3>1, <3>2
    <3>6. (x = y) <=> Value(x) = Value(y)
      BY <2>1, <2>2, <2>3, <3>1, <3>2
    <3> QED BY <1>2, <3>3, <3>4, <3>5, <3>6
  <2>4. CASE ~IsInf(x) /\ ~IsInf(y) /\ IsZero(x) /\ IsZero(y)
    <3>1. FLT(x, y) = FALSE /\ FEQ(x, y) = TRUE
      BY <1>2, <2>4 DEF FLT, FEQ
    <3>2. Value(x) = 0 /\ Value(y) = 0
      BY <2>1, <2>2, <2>4, ValueFacts
    <3>3. (Value(x) < Value(y)) = FALSE /\ (Value(x) = Value(y)) = TRUE
      BY <3>2
    <3> HIDE DEF mx, my, top
    <3>4. (~IsNaN(x) /\ ~IsNaN(y) /\ Value(x) < Value(y)) = FALSE
      BY <3>3
    <3>5. (~IsNaN(x) /\ ~IsNaN(y) /\ Value(x) = Value(y)) = TRUE
      BY <1>2, <3>3
    <3> QED BY <3>1, <3>4, <3>5
  <2>5. CASE ~IsInf(x) /\ ~IsInf(y) /\ ~(IsZero(x) /\ IsZero(y))
    <3>1. /\ MagnitudeLess(x, y) <=> mx < my
          /\ (Exp(x) = Exp(y) /\ Sig(x) = Sig(y)) <=> mx = my
      BY <2>1, <2>2, <2>5, MagnitudeOrder
    <3>2. MagnitudeLess(y, x) <=> my < mx
      <4>1. {Class(y), Class(x)} # {"ZERO", "SUB"}
        OBVIOUS
      <4> QED BY <2>1, <2>2, <2>5, <4>1, MagnitudeOrder
    <3>3. FLT(x, y) = IF x.s # y.s THEN x.s = 1
                      ELSE IF x.s = 1 THEN MagnitudeLess(y, x) ELSE MagnitudeLess(x, y)
      BY <1>2, <2>5 DEF FLT, DiffSigns
    <3>4. FEQ(x, y) = (x.s = y.s /\ Exp(x) = Exp(y) /\ Sig(x) = Sig(y))
      BY <1>2, <2>5 DEF FEQ
    <3>5. MagnitudeLess(x, y) \in BOOLEAN /\ MagnitudeLess(y, x) \in BOOLEAN
      BY DEF MagnitudeLess
    <3> HIDE DEF mx, my, top
    <3>6. (IF x.s # y.s THEN x.s = 1 ELSE IF x.s = 1 THEN MagnitudeLess(y, x) ELSE MagnitudeLess(x, y))
            <=> Value(x) < Value(y)
      BY <2>1, <2>2, <2>5, <3>1, <3>2
    <3>7. (x.s = y.s /\ Exp(x) = Exp(y) /\ Sig(x) = Sig(y)) <=> Value(x) = Value(y)
      BY <2>1, <2>2, <2>5, <3>1
    <3> QED BY <1>2, <3>3, <3>4, <3>5, <3>6, <3>7
  <2> QED BY <2>3, <2>4, <2>5
<1> QED BY <1>1, <1>2

(* The values of the format in order, those of the negative floats first.   *)
Ranks == (1 - InfRank) .. (InfRank - 1)
RankValue(k) == IF k < 0 THEN 0 - Magnitude(0 - k) ELSE Magnitude(k)
FiniteValues == {Value(x) : x \in {y \in Floats : Finite(y)}}

(* Values grow with signed ranks.                                           *)
LEMMA RankValueFacts ==
    /\ \A k \in Ranks : k \in Int /\ RankValue(k) \in Int
    /\ \A j, k \in Ranks : RankValue(j) < RankValue(k) <=> j < k
<1>1. InfRank \in Nat /\ InfRank > 0
  BY FormatFacts
<1>2. \A k \in Nat : Magnitude(k) \in Nat
  BY MagnitudeStep
<1>3. \A j, k \in Nat : Magnitude(j) < Magnitude(k) <=> j < k
  BY MagnitudeMono
<1>4. Magnitude(0) = 0
  BY MagnitudeBelow, FormatFacts
<1>5. \A k \in Nat : k > 0 => Magnitude(k) > 0
  BY <1>2, <1>3, <1>4
<1>6. ASSUME NEW k \in Ranks
      PROVE  /\ k \in Int /\ RankValue(k) \in Int
             /\ k < 0 => 0 - k \in Nat /\ RankValue(k) = 0 - Magnitude(0 - k) /\ RankValue(k) < 0
             /\ k >= 0 => k \in Nat /\ RankValue(k) = Magnitude(k) /\ RankValue(k) >= 0
  <2>1. k \in Int
    BY <1>1 DEF Ranks
  <2>2. CASE k < 0
    <3>1. 0 - k \in Nat /\ 0 - k > 0
      BY <2>1, <2>2
    <3>2. Magnitude(0 - k) \in Nat /\ Magnitude(0 - k) > 0
      BY <1>2, <1>5, <3>1
    <3> QED BY <2>1, <2>2, <3>1, <3>2 DEF RankValue
  <2>3. CASE k >= 0
    <3>1. k \in Nat /\ ~(k < 0)
      BY <2>1, <2>3
    <3> QED BY <1>2, <2>1, <3>1 DEF RankValue
  <2> QED BY <2>1, <2>2, <2>3
<1>7. ASSUME NEW j \in Ranks, NEW k \in Ranks
      PROVE  RankValue(j) < RankValue(k) <=> j < k
  <2>1. CASE j < 0 /\ k < 0
    <3>1. Magnitude(0 - j) \in Nat /\ Magnitude(0 - k) \in Nat /\ (Magnitude(0 - k) < Magnitude(0 - j) <=> 0 - k < 0 - j)
      BY <1>2, <1>3, <1>6, <2>1
    <3> QED BY <1>6, <2>1, <3>1
  <2>2. CASE j < 0 /\ k >= 0
    BY <1>6, <2>2
  <2>3. CASE j >= 0 /\ k < 0
    BY <1>6, <2>3
  <2>4. CASE j >= 0 /\ k >= 0
    BY <1>3, <1>6, <2>4
  <2> QED BY <1>6, <2>1, <2>2, <2>3, <2>4
<1> QED BY <1>6, <1>7

(* A float has the value of its signed rank ...                             *)
LEMMA SignedRankFacts ==
    ASSUME NEW x \in Floats, Finite(x)
    PROVE  SignedRank(x) \in Ranks /\ Value(x) = RankValue(SignedRank(x))
<1> DEFINE k == Rank(x)
           n == SignedRank(x)
<1>1. /\ Magnitude(k) \in Nat /\ k \in Nat /\ k < InfRank /\ x.s \in {0, 1}
      /\ Value(x) = (IF x.s = 1 THEN -Magnitude(k) ELSE Magnitude(k)) /\ (IsZero(x) => Value(x) = 0 /\ k = 0)
      /\ (~IsZero(x) => k > 0)
  BY ValueFacts
<1>2. InfRank \in Nat /\ Magnitude(0) = 0
  BY MagnitudeBelow, FormatFacts
<1>3. n = IF x.s = 1 THEN -k ELSE k
  BY DEF SignedRank
<1> HIDE DEF k, n
<1>4. n \in Int /\ n < InfRank /\ n > 0 - InfRank /\ (k = 0 => n = 0)
  <2>1. n \in Int /\ n < InfRank /\ n > 0 - InfRank /\ (k < 1 => n < 1 /\ n > 0 - 1)
    BY <1>1, <1>2, <1>3
  <2>2. \A i \in Int : i < 1 /\ i > 0 - 1 => i = 0
    OBVIOUS
  <2>3. k = 0 => k < 1
    BY <1>1
  <2> QED BY <2>1, <2>2, <2>3
<1>5. n \in Ranks
  BY <1>2, <1>4 DEF Ranks
<1>6. CASE IsZero(x)
  BY <1>1, <1>2, <1>4, <1>5, <1>6 DEF RankValue, n
<1>7. CASE ~IsZero(x) /\ x.s = 1
  <2>1. n < 0 /\ 0 - n = k /\ Value(x) = 0 - Magnitude(k)
    BY <1>1, <1>3, <1>7
  <2> QED BY <1>5, <2>1 DEF RankValue, n
<1>8. CASE x.s = 0
  <2>1. n = k /\ ~(n < 0) /\ Value(x) = Magnitude(k)
    BY <1>1, <1>3, <1>8
  <2> QED BY <1>5, <2>1 DEF RankValue, n
<1>9. Value(x) = RankValue(n)
  BY <1>1, <1>6, <1>7, <1>8 DEF n
<1> QED BY <1>5, <1>9 DEF n

(* ... and every signed rank is that of a float.                            *)
LEMMA FloatOfRank ==
    ASSUME NEW k \in Ranks
    PROVE  \E x \in Floats : Finite(x) /\ SignedRank(x) = k
<1> DEFINE a == IF k < 0 THEN 0 - k ELSE k
           q == a \div One
           r == a % One
           s == IF k < 0 THEN 1 ELSE 0
           x == Float(s, q, r)
<1>1. InfRank = ExpOnes * One /\ InfRank \in Nat /\ One \in Nat \ {0} /\ ExpOnes \in Nat /\ FracOnes = One - 1
  BY FormatFacts
<1>2. k \in Int /\ a \in Nat /\ a < InfRank
  BY <1>1 DEF Ranks
<1>3. s \in {0, 1} /\ k = IF s = 1 THEN 0 - a ELSE a
  BY <1>2
<1> HIDE DEF a, s
<1>4. a = q * One + r /\ q \in Nat /\ r \in 0 .. One - 1
  BY <1>1, <1>2
<1>5. x.s = s /\ x.e = q /\ x.f = r
  BY DEF Float
<1> HIDE DEF q, r
<1>6. q < ExpOnes
  <2>1. q >= ExpOnes => q * One >= ExpOnes * One
    BY <1>1, <1>4
  <2>2. q * One \in Nat /\ ExpOnes * One \in Nat
    BY <1>1, <1>4
  <2> QED BY <1>1, <1>2, <1>4, <2>1, <2>2
<1>7. x \in Floats /\ Finite(x)
  BY <1>1, <1>3, <1>4, <1>5, <1>6 DEF Floats, Finite, Float
<1>8. Rank(x) = a
  BY <1>4, <1>5 DEF Rank
<1>9. SignedRank(x) = k
  <2>1. SignedRank(x) = IF s = 1 THEN -a ELSE a
    BY <1>5, <1>8 DEF SignedRank
  <2>2. -a = 0 - a
    BY <1>2
  <2> QED BY <1>3, <2>1, <2>2
<1> QED BY <1>7, <1>9

(* Above one value up to another lie as many as their ranks are apart.      *)
LEMMA CountBetween ==
    ASSUME NEW m \in Ranks, NEW n \in Ranks, m <= n
    PROVE  Cardinality({v \in FiniteValues : \/ RankValue(m) < v /\ v <= RankValue(n)
                                             \/ RankValue(n) < v /\ v <= RankValue(m)}) = n - m
<1> DEFINE I == (m + 1) .. n
           V == {v \in FiniteValues : \/ RankValue(m) < v /\ v <= RankValue(n)
                                      \/ RankValue(n) < v /\ v <= RankValue(m)}
           f == [k \in I |-> RankValue(k)]
<1>1. m \in Int /\ n \in Int /\ InfRank \in Nat /\ m >= 1 - InfRank /\ n <= InfRank - 1
  BY FormatFacts, RankValueFacts DEF Ranks
<1>2. \A k \in I : k \in Ranks /\ m < k /\ k <= n
  BY <1>1 DEF Ranks
<1>3. \A j, k \in Ranks : RankValue(k) \in Int /\ (RankValue(j) < RankValue(k) <=> j < k)
  BY RankValueFacts
<1>4. \A v \in FiniteValues : \E k \in Ranks : v = RankValue(k)
  BY SignedRankFacts DEF FiniteValues
<1>5. \A k \in Ranks : RankValue(k) \in FiniteValues
  <2> SUFFICES ASSUME NEW k \in Ranks PROVE RankValue(k) \in FiniteValues
    OBVIOUS
  <2>1. PICK x \in Floats : Finite(x) /\ SignedRank(x) = k
    BY FloatOfRank
  <2>2. Value(x) = RankValue(k)
    BY <2>1, SignedRankFacts
  <2> QED BY <2>1, <2>2 DEF FiniteValues
<1>6. \A k \in Ranks : k \in Int
  BY RankValueFacts
<1>7. ASSUME NEW k \in Ranks
      PROVE  (RankValue(m) < RankValue(k) /\ RankValue(k) <= RankValue(n)) <=> (m < k /\ k <= n)
  <2>1. RankValue(k) <= RankValue(n) <=> k <= n
    BY <1>1, <1>3, <1>6
  <2> QED BY <1>3, <2>1
<1>8. ASSUME NEW k \in Ranks
      PROVE  ~(RankValue(n) < RankValue(k) /\ RankValue(k) <= RankValue(m))
  <2>1. RankValue(n) < RankValue(k) => n < k
    BY <1>3
  <2>2. RankValue(k) <= RankValue(m) => ~(m < k)
    BY <1>3
  <2> QED BY <1>1, <1>6, <2>1, <2>2
<1>9. f \in [I -> V]
  BY <1>2, <1>5, <1>7
<1>10. ASSUME NEW j \in I, NEW k \in I, f[j] = f[k] PROVE j = k
  <2>1. j \in Ranks /\ k \in Ranks /\ RankValue(j) = RankValue(k)
    BY <1>2, <1>10
  <2>2. ~(j < k) /\ ~(k < j)
    BY <1>3, <2>1
  <2> QED BY <1>6, <2>1, <2>2
<1>11. ASSUME NEW v \in V PROVE \E k \in I : f[k] = v
  <2>1. PICK k \in Ranks : v = RankValue(k)
    BY <1>4
  <2>2. m < k /\ k <= n
    BY <1>7, <1>8, <2>1
  <2>3. k \in I
    BY <1>1, <1>6, <2>2
  <2> QED BY <2>1, <2>3
<1> HIDE DEF I, V, f
<1>12. f \in Bijection(I, V)
  BY <1>9, <1>10, <1>11 DEF Bijection, Injection, Surjection, IsInjective
<1>13. ExistsBijection(I, V)
  BY <1>12 DEF ExistsBijection
<1>14. IsFiniteSet(I) /\ Cardinality(I) = n - m
  <2>1. m + 1 \in Int /\ (IF m + 1 > n THEN 0 ELSE n - (m + 1) + 1) = n - m
    BY <1>1
  <2> QED BY <1>1, <2>1, FS_Interval DEF I
<1>15. Cardinality(V) = n - m
  BY <1>13, <1>14, FS_Bijection
<1> QED BY <1>15 DEF V

(* The same whatever the order of the two.                                  *)
LEMMA CountApart ==
    ASSUME NEW m \in Ranks, NEW n \in Ranks
    PROVE  Cardinality({v \in FiniteValues : \/ RankValue(m) < v /\ v <= RankValue(n)
                                             \/ RankValue(n) < v /\ v <= RankValue(m)})
             = IF m <= n THEN n - m ELSE m - n
<1>1. CASE m <= n
  BY <1>1, CountBetween
<1>2. CASE ~(m <= n)
  <2>1. n <= m
    BY <1>2, RankValueFacts
  <2>2. {v \in FiniteValues : \/ RankValue(m) < v /\ v <= RankValue(n)
                              \/ RankValue(n) < v /\ v <= RankValue(m)}
          = {v \in FiniteValues : \/ RankValue(n) < v /\ v <= RankValue(m)
                                  \/ RankValue(m) < v /\ v <= RankValue(n)}
    OBVIOUS
  <2> QED BY <1>2, <2>1, <2>2, CountBetween
<1> QED BY <1>1, <1>2

(* The difference as int32_t: it wraps around only for floats far apart,    *)
(* and stays far from zero then.                                            *)
LEMMA WrappedApart ==
    ASSUME NEW m \in Ranks, NEW n \in Ranks, NEW limit \in 0 .. 4
    PROVE  LET d == WrappedDiff(m, n)
           IN  ((IF d < 0 THEN -d ELSE d) <= limit) <=> ((IF m <= n THEN n - m ELSE m - n) <= limit)
<1> DEFINE P == Pow2[NEXP + NSIG]
           d == WrappedDiff(m, n)
<1>1. One \in Nat /\ One >= 2 /\ NEXP \in Nat /\ NSIG \in Nat /\ NEXP >= 2 /\ NSIG >= 1 /\ One = Pow2[NSIG]
  BY FormatFacts
<1>2. P >= 8 /\ P \in Nat /\ P = Pow2[NEXP] * One /\ Pow2[NEXP] \in Nat /\ MaxInt = P - 1 /\ MinInt = 0 - P
  <2>1. P = Pow2[NEXP] * Pow2[NSIG] /\ Pow2[NEXP] \in Nat
    BY <1>1, Pow2Sum, Pow2Facts
  <2>2. P = 2 * Pow2[NEXP + NSIG - 1] /\ Pow2[NEXP + NSIG - 1] \in Nat
    <3>1. NEXP + NSIG - 1 \in Nat /\ (NEXP + NSIG - 1) + 1 = NEXP + NSIG
      BY <1>1
    <3> QED BY <3>1, Pow2Facts
  <2>3. Pow2[0] = 1 /\ Pow2[0 + 1] = 2 * Pow2[0] /\ Pow2[1 + 1] = 2 * Pow2[1] /\ Pow2[2 + 1] = 2 * Pow2[2]
    BY Pow2Facts
  <2>4. Pow2[3] = 8
    BY <2>3
  <2>5. Pow2[3] <= P
    <3>1. NEXP + NSIG \in Nat /\ 3 <= NEXP + NSIG
      BY <1>1
    <3> QED BY <3>1, Pow2Mono
  <2>6. INTLEN - 2 = NEXP + NSIG - 1
    BY <1>1 DEF INTLEN
  <2>7. MaxInt = P - 1
    BY <2>2, <2>6 DEF MaxInt
  <2>8. MinInt = 0 - P
    BY <2>2, <2>7 DEF MinInt
  <2> QED BY <1>1, <2>1, <2>2, <2>4, <2>5, <2>7, <2>8
<1>3. InfRank = P - One
  <2>1. InfRank = ExpOnes * One /\ ExpOnes = Pow2[NEXP] - 1
    BY FormatFacts DEF ExpOnes
  <2>2. \A a, b \in Nat : (a - 1) * b = a * b - b
    OBVIOUS
  <2>3. InfRank = Pow2[NEXP] * One - One
    BY <1>1, <1>2, <2>1, <2>2
  <2> QED BY <1>2, <2>3
<1> HIDE DEF P
<1>4. m \in Int /\ n \in Int /\ m > One - P /\ m < P - One /\ n > One - P /\ n < P - One
  BY <1>1, <1>2, <1>3 DEF Ranks
<1>5. CASE n < 0 /\ m > MaxInt + n
  <2>1. d = (m - MaxInt - 1) - (n + MaxInt + 1)
    BY <1>4, <1>5 DEF WrappedDiff
  <2> HIDE DEF d
  <2>2. d < 0 - 4 /\ d \in Int /\ m - n > 4 /\ ~(m <= n)
    BY <1>1, <1>2, <1>4, <1>5, <2>1
  <2> QED BY <1>4, <2>2 DEF d
<1>6. CASE n > 0 /\ m < MinInt + n
  <2>1. d = (m - MinInt) + (MaxInt - n) + 1
    BY <1>4, <1>6 DEF WrappedDiff
  <2> HIDE DEF d
  <2>2. d > 4 /\ d \in Int /\ n - m > 4 /\ m <= n
    BY <1>1, <1>2, <1>4, <1>6, <2>1
  <2> QED BY <1>4, <2>2 DEF d
<1>7. CASE ~(n < 0 /\ m > MaxInt + n) /\ ~(n > 0 /\ m < MinInt + n)
  <2>1. d = m - n
    BY <1>7 DEF WrappedDiff
  <2> HIDE DEF d
  <2>2. (IF d < 0 THEN -d ELSE d) = IF m <= n THEN n - m ELSE m - n
    BY <1>4, <2>1
  <2> QED BY <2>2 DEF d
<1> QED BY <1>5, <1>6, <1>7

(* The comparison of almost_equal_ulps is of that count.                    *)
LEMMA UlpsCount ==
    ASSUME NEW x \in Floats, NEW y \in Floats, Finite(x), Finite(y), NEW limit \in 0 .. 4
    PROVE  almost_equal_ulps(x, y, limit)
             = (Cardinality({v \in FiniteValues : \/ Value(x) < v /\ v <= Value(y)
                                                  \/ Value(y) < v /\ v <= Value(x)}) <= limit)
<1> DEFINE m == SignedRank(x)
           n == SignedRank(y)
           d == WrappedDiff(m, n)
<1>1. m \in Ranks /\ n \in Ranks /\ Value(x) = RankValue(m) /\ Value(y) = RankValue(n)
  BY SignedRankFacts
<1>2. ~IsNaN(x) /\ ~IsInf(x) /\ ~IsNaN(y) /\ ~IsInf(y)
  BY ValueFacts
<1>3. almost_equal_ulps(x, y, limit) = ((IF d < 0 THEN -d ELSE d) <= limit)
  BY <1>2 DEF almost_equal_ulps
<1> HIDE DEF m, n
<1>4. ((IF d < 0 THEN -d ELSE d) <= limit) <=> ((IF m <= n THEN n - m ELSE m - n) <= limit)
  BY <1>1, WrappedApart
<1>5. Cardinality({v \in FiniteValues : \/ RankValue(m) < v /\ v <= RankValue(n)
                                        \/ RankValue(n) < v /\ v <= RankValue(m)})
        = IF m <= n THEN n - m ELSE m - n
  BY <1>1, CountApart
<1> HIDE DEF d
<1> QED BY <1>1, <1>3, <1>4, <1>5

(***************************************************************************)
(* The specification: while an instruction is in the unit its operands are *)
(* floats and the result register holds what the datapath makes of them.   *)
(***************************************************************************)
Operands == rs1 \in Floats /\ rs2 \in Floats
(* The inductive invariant.                                                 *)
Computes ==
    /\ instr = "FADD" => Operands /\ rm \in RoundingModes /\ out = FADDd(rs1, rs2, rm)
    /\ instr = "FSUB" => Operands /\ rm \in RoundingModes /\ out = FSUB(rs1, rs2, rm)
    /\ instr = "FMUL" => Operands /\ rm \in RoundingModes /\ out = FMUL(rs1, rs2, rm)
    /\ instr = "FDIV" => Operands /\ rm \in RoundingModes /\ out = FDIV(rs1, rs2, rm)
    /\ instr = "FSQRT" => rs1 \in Floats /\ rm \in RoundingModes /\ out = FSQRT(rs1, rm)
    /\ instr = "FLT" => Operands /\ out = FLT(rs1, rs2)
    /\ instr = "FEQ" => Operands /\ out = FEQ(rs1, rs2)
    /\ instr = "almost_equal_ulps" => Operands /\ rm \in {0, 1, 4} /\ out = almost_equal_ulps(rs1, rs2, rm)

(* It is an invariant.                                                      *)
LEMMA ComputesAlways == Spec => []Computes
<1>1. Init => Computes
  BY IdleAssumption DEF Init, Computes
<1>2. ASSUME Computes, [Next]_vars PROVE Computes'
  <2>1. CASE Issue
    <3>1. CASE Add
      BY <3>1 DEF Add, Enter, Computes, Operands
    <3>2. CASE Sub
      BY <3>2 DEF Sub, Enter, Computes, Operands
    <3>3. CASE Mul
      BY <3>3 DEF Mul, Enter, Computes, Operands
    <3>4. CASE Div
      BY <3>4 DEF Div, Enter, Computes, Operands
    <3>5. CASE Sqrt
      BY <3>5 DEF Sqrt, Enter, Computes
    <3>6. CASE Less
      BY <3>6 DEF Less, Enter, Computes, Operands
    <3>7. CASE Equal
      BY <3>7 DEF Equal, Enter, Computes, Operands
    <3>8. CASE Near
      BY <3>8 DEF Near, Enter, Computes, Operands
    <3> QED BY <2>1, <3>1, <3>2, <3>3, <3>4, <3>5, <3>6, <3>7, <3>8 DEF Issue
  <2>2. CASE Retire
    BY <2>2, IdleAssumption DEF Retire, Enter, Computes
  <2>3. CASE UNCHANGED vars
    BY <1>2, <2>3 DEF vars, Computes, Operands
  <2> QED BY <1>2, <2>1, <2>2, <2>3 DEF Next
<1> QED BY <1>1, <1>2, PTL DEF Spec

(* The four operations, by instruction.                                     *)
LEMMA ArithmeticRounds ==
    ASSUME Computes, NormalResult
    PROVE  /\ Beside(out, Exact.num, Exact.den)
           /\ ~AlignmentLosesBits => Correct(out, Exact.num, Exact.den, rm)
<1>1. /\ instr \in {"FADD", "FSUB", "FMUL", "FDIV"} /\ Finite(rs1) /\ Finite(rs2)
      /\ Representable(Abs(Exact.num), Exact.den, rm)
  BY DEF NormalResult, Arithmetic, Representable
<1>2. Operands /\ rm \in RoundingModes
  BY <1>1 DEF Computes
<1>3. rs1 \in Floats /\ rs2 \in Floats /\ Value(rs1) \in Int /\ Value(rs2) \in Int
  <2>1. rs1 \in Floats /\ rs2 \in Floats
    BY <1>2 DEF Operands
  <2> QED BY <1>1, <2>1, ValueFacts
<1>4. ASSUME NEW num \in Int, NEW den \in Nat \ {0}, Correct(out, num, den, rm) PROVE Beside(out, num, den)
  <2>1. Abs(num) \in Nat
    BY DEF Abs
  <2> QED BY <1>2, <1>4, <2>1, RoundedNeighbour DEF Correct, Beside
<1>5. CASE instr = "FADD"
  <2>1. Exact.num = Value(rs1) + Value(rs2) /\ Exact.den = 1 /\ out = FADDd(rs1, rs2, rm)
    BY <1>5 DEF Exact, Computes
  <2>2. Loses(rs1, rs2) => AlignmentLosesBits
    BY <1>5 DEF Loses, AlignmentLosesBits
  <2> QED BY <1>1, <1>2, <1>3, <2>1, <2>2, AddRounds
<1>6. CASE instr = "FSUB"
  <2>1. Exact.num = Value(rs1) - Value(rs2) /\ Exact.den = 1 /\ out = FSUB(rs1, rs2, rm)
    BY <1>6 DEF Exact, Computes
  <2>2. Loses(rs1, rs2) => AlignmentLosesBits
    BY <1>6 DEF Loses, AlignmentLosesBits
  <2> QED BY <1>1, <1>2, <1>3, <2>1, <2>2, SubRounds
<1>7. CASE instr = "FMUL"
  <2>1. Exact.num = Value(rs1) * Value(rs2) /\ Exact.den = PerUnit /\ out = FMUL(rs1, rs2, rm)
    BY <1>7 DEF Exact, Computes
  <2>2. Correct(out, Exact.num, Exact.den, rm)
    BY <1>1, <1>2, <1>3, <2>1, MulCorrect
  <2>3. Exact.num \in Int /\ Exact.den \in Nat \ {0}
    BY <1>3, <2>1, FormatFacts
  <2> QED BY <1>4, <2>2, <2>3
<1>8. CASE instr = "FDIV"
  <2>1. Exact.num = DividedBy(rs1, rs2) /\ Exact.den = Magnitude(Rank(rs2)) /\ out = FDIV(rs1, rs2, rm) /\ ~IsZero(rs2)
    BY <1>8 DEF Exact, Computes, DividedBy, NormalResult
  <2>2. Correct(out, Exact.num, Exact.den, rm)
    BY <1>1, <1>2, <1>3, <2>1, DivCorrect
  <2>3. Exact.num \in Int
    BY <1>3, <2>1, FormatFacts DEF DividedBy
  <2>4. Exact.den \in Nat \ {0}
    BY <1>1, <1>3, <2>1, ValueFacts
  <2> QED BY <1>4, <2>2, <2>3, <2>4
<1> QED BY <1>1, <1>5, <1>6, <1>7, <1>8

(* IEEE rounding: in every format, a result of FADDd, FSUB, FMUL and FDIV   *)
(* in the normal range is the float the rounding mode selects for the exact *)
(* one, unless an alignment shift of FADDd loses bits.                      *)
THEOREM ArithmeticRoundsCorrectly == Spec => []RoundsCorrectly
<1>1. Computes => RoundsCorrectly
  <2> SUFFICES ASSUME Computes, NormalResult, ~AlignmentLosesBits
               PROVE  /\ ~IsNaN(out)
                      /\ out.s = IF Exact.num < 0 THEN 1 ELSE 0
                      /\ RoundsTo(Rank(out), out.s, Abs(Exact.num), Exact.den, rm)
    BY DEF RoundsCorrectly
  <2>1. Correct(out, Exact.num, Exact.den, rm)
    BY ArithmeticRounds
  <2> QED BY <2>1 DEF Correct, Rounded, Sign
<1> QED BY <1>1, ComputesAlways, PTL

(* Also where the alignment shift loses bits, the result of FADDd is one of *)
(* the two floats around the exact one.                                     *)
THEOREM ArithmeticRoundsToANeighbour == Spec => []RoundsToANeighbour
<1>1. Computes => RoundsToANeighbour
  <2> SUFFICES ASSUME Computes, NormalResult
               PROVE  LET k == Rank(out)
                      IN  /\ ~IsNaN(out)
                          /\ out.s = IF Exact.num < 0 THEN 1 ELSE 0
                          /\ Exact.den * Magnitude(k - 1) < Abs(Exact.num)
                          /\ k = InfRank \/ Abs(Exact.num) < Exact.den * Magnitude(k + 1)
    BY DEF RoundsToANeighbour
  <2>1. Beside(out, Exact.num, Exact.den)
    BY ArithmeticRounds
  <2> QED BY <2>1 DEF Beside, Neighbour, Sign
<1> QED BY <1>1, ComputesAlways, PTL

(* FSQRT delivers one of the two floats around the exact root, and the      *)
(* exact root when there is one, although the rounding bits it hands to     *)
(* FRound are those of the remainder.                                       *)
THEOREM RootIsAlwaysANeighbour == Spec => []RootIsANeighbour
<1>1. Computes => RootIsANeighbour
  <2> SUFFICES ASSUME Computes, RootOperand
               PROVE  LET k == Rank(out)
                      IN  /\ Finite(out) /\ out.s = 0
                          /\ Magnitude(k - 1) * Magnitude(k - 1) < Square
                          /\ Square < Magnitude(k + 1) * Magnitude(k + 1)
    BY DEF RootIsANeighbour
  <2>1. /\ rs1 \in Floats /\ rm \in RoundingModes /\ out = FSQRT(rs1, rm)
        /\ Finite(rs1) /\ rs1.s = 0 /\ ~IsZero(rs1) /\ Exp(rs1) >= 2 * EMIN
    BY DEF Computes, RootOperand
  <2>2. Class(rs1) \in {"NORM", "SUB"} /\ ~IsNaN(rs1) /\ ~IsInf(rs1) /\ Value(rs1) = Magnitude(Rank(rs1))
    BY <2>1, ValueFacts
  <2>3. out = FSqrtFinite(rs1, rm)
    BY <2>1, <2>2 DEF FSQRT
  <2>4. Square = PerUnit * Magnitude(Rank(rs1))
    BY <2>2 DEF Square
  <2> QED BY <2>1, <2>2, <2>3, <2>4, SqrtIsANeighbour
<1> QED BY <1>1, ComputesAlways, PTL

(* FLT and FEQ order floats as their values, a zero against a subnormal     *)
(* excepted.                                                                *)
THEOREM AlwaysComparesValues == Spec => []ComparesValues
<1>1. Computes => ComparesValues
  <2> SUFFICES ASSUME Computes, Comparison, {Class(rs1), Class(rs2)} # {"ZERO", "SUB"}
               PROVE  LET vx == Value(rs1)   vy == Value(rs2)
                          ordered == ~IsNaN(rs1) /\ ~IsNaN(rs2)
                      IN  out = (ordered /\ IF instr = "FLT" THEN vx < vy ELSE vx = vy)
    BY DEF ComparesValues
  <2>1. rs1 \in Floats /\ rs2 \in Floats
    BY DEF Computes, Comparison, Operands
  <2>2. LET ordered == ~IsNaN(rs1) /\ ~IsNaN(rs2)
        IN  /\ FLT(rs1, rs2) = (ordered /\ Value(rs1) < Value(rs2))
            /\ FEQ(rs1, rs2) = (ordered /\ Value(rs1) = Value(rs2))
    BY <2>1, ComparesAsValues
  <2>3. CASE instr = "FLT"
    <3>1. out = FLT(rs1, rs2)
      BY <2>3 DEF Computes
    <3> QED BY <2>2, <2>3, <3>1
  <2>4. CASE instr = "FEQ"
    <3>1. out = FEQ(rs1, rs2) /\ instr # "FLT"
      BY <2>4 DEF Computes
    <3> QED BY <2>2, <3>1
  <2> QED BY <2>3, <2>4 DEF Comparison
<1> QED BY <1>1, ComputesAlways, PTL

(* almost_equal_ulps counts the floats between its operands, whatever their *)
(* signs and although the int32_t difference of two far ones wraps around.  *)
THEOREM UlpsAlwaysCountFloats == Spec => []UlpsCountFloats
<1>1. Computes => UlpsCountFloats
  <2> SUFFICES ASSUME Computes, instr = "almost_equal_ulps", Finite(rs1), Finite(rs2) PROVE UlpsCountFloats
    BY DEF UlpsCountFloats
  <2>1. rs1 \in Floats /\ rs2 \in Floats /\ rm \in 0 .. 4 /\ out = almost_equal_ulps(rs1, rs2, rm)
    BY DEF Computes, Operands
  <2>2. out = (Cardinality({v \in FiniteValues : \/ Value(rs1) < v /\ v <= Value(rs2)
                                                 \/ Value(rs2) < v /\ v <= Value(rs1)}) <= rm)
    BY <2>1, UlpsCount
  <2> QED BY <2>2 DEF UlpsCountFloats, FiniteValues
<1> QED BY <1>1, ComputesAlways, PTL
=============================================================================
