------------------------------- MODULE CFormat -------------------------------
(***************************************************************************)
(* What a printf directive prints according to the C standard, for the     *)
(* integer, character, string and floating conversions.  It is written     *)
(* from left to right and knows nothing of the code in printf.c, which     *)
(* builds its numbers backwards in a buffer of fixed size.                 *)
(*                                                                         *)
(* A directive is a record: flags (a set), width and prec (numbers, or     *)
(* None), star (the fields that are taken from the arguments), size (the   *)
(* length modifier), conv (the conversion) and arg: [int], [str] or a      *)
(* double, the rational [neg, num, den] (den = 0: an infinity, or with     *)
(* num = 0 not a number).                                                  *)
(***************************************************************************)
EXTENDS Integers, SequencesExt

None == -1

DigitChars == <<"0", "1", "2", "3", "4", "5", "6", "7", "8", "9",
                "a", "b", "c", "d", "e", "f">>
UpperChars == <<"0", "1", "2", "3", "4", "5", "6", "7", "8", "9",
                "A", "B", "C", "D", "E", "F">>

Copies(c, n) == [i \in 1..n |-> c]     \* empty for n <= 0

\* The digits of n >= 0, most significant first, none for 0.
Numeral(n, base, chars) ==
  LET digits[m \in 0..n] == IF m = 0 THEN <<>>
                            ELSE Append(digits[m \div base], chars[(m % base) + 1])
  IN  digits[n]

(***************************************************************************)
(* Layout: a sign or prefix, then the body; zeros go between them, spaces  *)
(* around both.                                                            *)
(***************************************************************************)
Layout(d, prefix, body, zeros) ==
  LET missing == d.width - Len(prefix) - Len(body)
  IN  IF "-" \in d.flags THEN prefix \o body \o Copies(" ", missing)
      ELSE IF zeros THEN prefix \o Copies("0", missing) \o body
      ELSE Copies(" ", missing) \o prefix \o body

SignOf(d, negative) == IF negative THEN <<"-">>
                       ELSE IF "+" \in d.flags THEN <<"+">>
                       ELSE IF " " \in d.flags THEN <<" ">>
                       ELSE <<>>

BaseOf(conv) == CASE conv \in {"x", "X"} -> 16
                  [] conv = "o" -> 8
                  [] conv = "b" -> 2
                  [] OTHER -> 10

\* value: the argument after the conversion that size and conv ask for.
IntegerText(d, value) ==
  LET mag    == IF value < 0 THEN -value ELSE value
      digits == Numeral(mag, BaseOf(d.conv), IF d.conv = "X" THEN UpperChars ELSE DigitChars)
      least  == IF d.prec = None THEN 1 ELSE d.prec
      padded == Copies("0", least - Len(digits)) \o digits
      hash   == "#" \in d.flags /\ mag # 0
      body   == IF "#" \in d.flags /\ d.conv = "o" /\ (padded = <<>> \/ Head(padded) # "0")
                THEN <<"0">> \o padded ELSE padded
      prefix == CASE d.conv \in {"d", "i"} -> SignOf(d, value < 0)
                  [] hash /\ d.conv \in {"x", "X", "b"} -> <<"0", d.conv>>
                  [] OTHER -> <<>>
  IN  Layout(d, prefix, body, "0" \in d.flags /\ d.prec = None)

StringText(d) ==
  Layout(d, <<>>, IF d.prec = None \/ d.prec > Len(d.arg.str) THEN d.arg.str
                   ELSE SubSeq(d.arg.str, 1, d.prec), FALSE)

CharText(d) == Layout(d, <<>>, d.arg.str, FALSE)

IsSpecial(value) == value.den = 0

(***************************************************************************)
(* Fixed notation: num/den rounded to prec decimals, halves to even.       *)
(***************************************************************************)
\* num * 10^prec / den: quotient and remainder, a decimal at a time.
Scaled(num, den, prec) ==
  LET at[n \in 0..prec] ==
        IF n = 0 THEN [q |-> num \div den, r |-> num % den]
        ELSE [q |-> 10 * at[n - 1].q + (10 * at[n - 1].r) \div den,
              r |-> (10 * at[n - 1].r) % den]
  IN  at[prec]

Rounded(num, den, prec) ==
  LET s == Scaled(num, den, prec)
  IN  IF 2 * s.r > den \/ (2 * s.r = den /\ s.q % 2 = 1) THEN s.q + 1 ELSE s.q

\* A decimal with prec places, from the integer n = value * 10^prec.
Decimal(n, prec) ==
  LET digits == Numeral(n, 10, DigitChars)
      padded == Copies("0", prec + 1 - Len(digits)) \o digits
      whole  == Len(padded) - prec
  IN  IF prec = 0 THEN padded
      ELSE SubSeq(padded, 1, whole) \o <<".">> \o SubSeq(padded, whole + 1, Len(padded))

Precision(d) == IF d.prec = None THEN 6 ELSE d.prec

FixedText(d) ==
  Layout(d, SignOf(d, d.arg.neg),
         Decimal(Rounded(d.arg.num, d.arg.den, Precision(d)), Precision(d)),
         "0" \in d.flags)

(***************************************************************************)
(* Exponential notation: one digit before the point.                       *)
(***************************************************************************)
\* The exponent x with 10^x <= num/den < 10^(x+1), for num/den >= 1e-5.
DecimalExponent(num, den) ==
  IF num >= den THEN CHOOSE x \in 0..9 : num \div den >= 10^x /\ (x = 9 \/ num \div den < 10^(x + 1))
                ELSE CHOOSE x \in -5..-1 : num * 10^(-x) >= den /\ num * 10^(-x - 1) < den

Mantissa(num, den) ==
  LET x == DecimalExponent(num, den)
  IN  IF x >= 0 THEN [num |-> num, den |-> den * 10^x] ELSE [num |-> num * 10^(-x), den |-> den]

ExponentText(x, letter) ==
  LET mag == IF x < 0 THEN -x ELSE x
      digits == Numeral(mag, 10, DigitChars)
  IN  <<letter, IF x < 0 THEN "-" ELSE "+">> \o Copies("0", 2 - Len(digits)) \o digits

ExponentialText(d) ==
  LET m == Mantissa(d.arg.num, d.arg.den)
  IN  Layout(d, SignOf(d, d.arg.neg),
             Decimal(Rounded(m.num, m.den, Precision(d)), Precision(d))
               \o ExponentText(DecimalExponent(d.arg.num, d.arg.den), d.conv),
             "0" \in d.flags)
=============================================================================
