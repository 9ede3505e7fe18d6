------------------------------- MODULE Printf -------------------------------
(***************************************************************************)
(* firmware/libs/printf.c (and its copy in firmware/OS/libs): one call of  *)
(* a printf function, from the first character of the format to the        *)
(* return.  The format is read one character at a time, as _vsnprintf      *)
(* does; a conversion hands its text to the output function in one step.   *)
(* Words are narrower than on the processor, in the same proportions, and  *)
(* the buffer sizes and the largest number for %f are the macros that the  *)
(* file lets the user define.  Doubles are rationals and their products    *)
(* exact: 19/20 is the double next to 0.95, which times 10 is 9.5.         *)
(***************************************************************************)
EXTENDS CFormat, FiniteSets

CONSTANTS Calls,          \* the calls: [fn, count, items], see below
          IntBits,        \* width of int, long and unsigned; the other
                          \* widths are 1/4 (char), 1/2 (short), 2 (long long)
          NtoaSize,       \* PRINTF_NTOA_BUFFER_SIZE
          FtoaSize,       \* PRINTF_FTOA_BUFFER_SIZE
          MaxFloat,       \* PRINTF_MAX_FLOAT
          HighPowers,     \* the x for which _etoa's power 10^x exceeds 10^x
          Memory          \* cells after the start of the caller's buffer

ASSUME PrintfAssumption == /\ IntBits % 4 = 0 /\ IntBits > 0
                           /\ NtoaSize \in Nat \ {0} /\ FtoaSize \in Nat \ {0}
                           /\ MaxFloat >= 10^6     \* so %g never meets it in _ftoa

(***************************************************************************)
(* The C text of a call.  Its items are literal characters and directives  *)
(* (the records of CFormat); fn is the function, count its bound (snprintf *)
(* only) and a null buffer is fn = "null".                                 *)
(***************************************************************************)
IsDirective(x) == "conv" \in DOMAIN x     \* a literal character is [char |-> c]
DirectiveSource(d) ==
  LET number(n) == IF n = 0 THEN <<"0">> ELSE Numeral(n, 10, DigitChars)
  IN  <<"%">> \o SelectSeq(<<"0", "-", "+", " ", "#">>, LAMBDA c : c \in d.flags)
        \o (IF "width" \in d.star THEN <<"*">>
            ELSE IF d.width = 0 THEN <<>>
            ELSE number(d.width))
        \o (IF "prec" \in d.star THEN <<".", "*">>
            ELSE IF d.prec = None THEN <<>>
            ELSE <<".">> \o number(d.prec))
        \o d.size \o <<d.conv>>
Source(items) ==
  FlattenSeq([i \in DOMAIN items |->
                IF IsDirective(items[i]) THEN DirectiveSource(items[i]) ELSE <<items[i].char>>])
DirectiveArgs(d) ==
  (IF "width" \in d.star THEN <<[int |-> d.width]>> ELSE <<>>)
    \o (IF "prec" \in d.star THEN <<[int |-> d.prec]>> ELSE <<>>)
    \o (IF d.conv = "%" THEN <<>> ELSE <<d.arg>>)
Arguments(items) ==
  FlattenSeq([i \in DOMAIN items |-> IF IsDirective(items[i]) THEN DirectiveArgs(items[i]) ELSE <<>>])

NUL == "NUL"
Minimum(m, n) == IF m < n THEN m ELSE n

(***************************************************************************)
(* Numbers are built backwards in a scratch buffer of limited size.        *)
(***************************************************************************)
\* As much of s as fits behind buf.
Fill(buf, s, size) == SubSeq(buf \o s, 1, Minimum(size, Len(buf) + Len(s)))
PadTo(buf, n, size) == Fill(buf, Copies("0", n - Len(buf)), size)

_out_rev(buf, width, flags) ==
  LET pad == Copies(" ", width - Len(buf))
  IN  (IF flags \cap {"-", "0"} = {} THEN pad ELSE <<>>)
        \o Reverse(buf) \o (IF "-" \in flags THEN pad ELSE <<>>)

SignChar(negative, flags) == IF negative THEN <<"-">>
                             ELSE IF "+" \in flags THEN <<"+">>
                             ELSE IF " " \in flags THEN <<" ">>
                             ELSE <<>>

(* Mistake: zeros are written in the place of the sign. *)
WidthAnySign(width, negative, flags) == width

\* The zero-padded width leaves room for the sign.
WidthBeforeSign(width, negative, flags) ==
  IF width > 0 /\ (negative \/ flags \cap {"+", " "} # {}) THEN width - 1 ELSE width

_ntoa_format(digits, negative, base, prec, width, flags) ==
  LET left   == "-" \in flags
      w      == IF "0" \in flags /\ ~left THEN WidthBeforeSign(width, negative, flags) ELSE width
      precd  == IF left THEN digits ELSE PadTo(digits, prec, NtoaSize)
      padded == IF ~left /\ "0" \in flags THEN PadTo(precd, w, NtoaSize) ELSE precd
      n      == Len(padded)
      strip  == IF "PRECISION" \notin flags /\ n > 0 /\ n \in {prec, w}
                THEN (IF base = 16 THEN Minimum(2, n) ELSE 1) ELSE 0
      letter == CASE base = 16 -> IF "UPPERCASE" \in flags THEN <<"X">> ELSE <<"x">>
                  [] base = 2  -> <<"b">>
                  [] OTHER     -> <<>>
      hashed == IF "#" \in flags
                THEN Fill(SubSeq(padded, 1, n - strip), letter \o <<"0">>, NtoaSize) ELSE padded
  IN  _out_rev(Fill(hashed, SignChar(negative, flags), NtoaSize), w, flags)

\* _ntoa_long and _ntoa_long_long.
_ntoa_long(value, negative, base, prec, width, flags) ==
  LET numeral == Numeral(value, base, IF "UPPERCASE" \in flags THEN UpperChars ELSE DigitChars)
      digits  == IF value > 0 THEN Fill(<<>>, Reverse(numeral), NtoaSize)
                 ELSE IF "PRECISION" \in flags THEN <<>>
                 ELSE <<"0">>
  IN  _ntoa_format(digits, negative, base, prec, width,
                   IF value = 0 THEN flags \ {"#"} ELSE flags)

(***************************************************************************)
(* _ftoa and _etoa call each other: _ftoa leaves the large numbers to      *)
(* _etoa, which gives it the mantissa, always below 10, and the infinities.*)
(***************************************************************************)
FtoaSpecial(value, width, flags) ==
  _out_rev(IF value.num = 0 THEN <<"n", "a", "n">>
           ELSE IF value.neg THEN <<"f", "n", "i", "-">>
           ELSE <<"f", "n", "i">> \o (IF "+" \in flags THEN <<"+">> ELSE <<>>),
           width, flags)

FtoaFinite(value, precision, width, flags) ==
  LET asked   == IF "PRECISION" \in flags THEN precision ELSE 6
      extra   == IF asked > 9 THEN asked - 9 ELSE 0
      prec    == asked - extra
      tmp     == Scaled(value.num % value.den, value.den, prec)
      up      == 2 * tmp.r > value.den \/ (2 * tmp.r = value.den /\ (tmp.q = 0 \/ tmp.q % 2 = 1))
      carry   == 2 * tmp.r > value.den /\ tmp.q + 1 >= 10^prec
      frac    == IF carry THEN 0 ELSE IF up THEN tmp.q + 1 ELSE tmp.q
      whole0  == value.num \div value.den + (IF carry THEN 1 ELSE 0)
      whole   == IF prec = 0 /\ 2 * (value.num - whole0 * value.den) >= value.den /\ whole0 % 2 = 1
                 THEN whole0 + 1 ELSE whole0
      reversed(n) == IF n = 0 THEN <<"0">> ELSE Reverse(Numeral(n, 10, DigitChars))
      \* one digit too many makes the count of zeros to add wrap around
      zeros    == IF Len(reversed(frac)) > prec THEN Copies("0", FtoaSize)
                  ELSE Copies("0", prec - Len(reversed(frac))) \o <<".">>
      decimals == IF prec = 0 THEN <<>> ELSE reversed(frac) \o zeros
      number   == Fill(Copies("0", Minimum(extra, FtoaSize)), decimals \o reversed(whole), FtoaSize)
      zeropad  == "0" \in flags /\ "-" \notin flags
      w        == IF zeropad THEN WidthBeforeSign(width, value.neg, flags) ELSE width
      padded   == IF zeropad THEN PadTo(number, w, FtoaSize) ELSE number
  IN  _out_rev(Fill(padded, SignChar(value.neg, flags), FtoaSize), w, flags)

\* expval, from an approximate logarithm corrected by comparing with an
\* approximate power of ten: one low where value is that power and the
\* approximation is above it.  Of zero it is far below.
Expval(value) ==
  IF value.num = 0 THEN -308
  ELSE LET x == DecimalExponent(value.num, value.den)
       IN  IF x \in HighPowers /\ value.num = value.den * 10^x THEN x - 1 ELSE x

\* value / 10^x; the code's quotient is 2e-8 off at most (not modelled).
DividedByPower(value, x) ==
  IF x >= 0 THEN [value EXCEPT !.den = @ * 10^x] ELSE [value EXCEPT !.num = @ * 10^(-x)]

\* %g keeps to fixed notation between 1e-4 and 1e6.
IsModerate(value) == /\ value.num >= value.den \/ value.den <= 10000 * value.num
                     /\ value.num \div value.den < 10^6

EtoaFinite(value, precision, width, flags) ==
  LET asked    == IF "PRECISION" \in flags THEN precision ELSE 6
      adapt    == "ADAPT_EXP" \in flags
      fixed    == adapt /\ IsModerate(value)
      x        == Expval(value)
      expval   == IF fixed THEN 0 ELSE x
      prec     == IF fixed THEN (IF asked > x THEN asked - x - 1 ELSE 0)
                  ELSE IF adapt /\ asked > 0 /\ "PRECISION" \in flags THEN asked - 1
                  ELSE asked
      minwidth == IF fixed THEN 0 ELSE IF x < 100 /\ x > -100 THEN 4 ELSE 5
      left     == "-" \in flags
      fwidth   == IF width > minwidth /\ ~(left /\ minwidth > 0) THEN width - minwidth ELSE 0
      scaled   == IF expval = 0 \/ value.num = 0 THEN value ELSE DividedByPower(value, expval)
      float    == FtoaFinite(scaled, prec, fwidth,
                             (flags \ {"ADAPT_EXP"}) \cup (IF fixed THEN {"PRECISION"} ELSE {}))
      exponent == _ntoa_long(IF expval < 0 THEN -expval ELSE expval, expval < 0, 10, 0,
                             minwidth - 1, {"0", "+"})
      both     == float \o <<IF "UPPERCASE" \in flags THEN "E" ELSE "e">> \o exponent
  IN  IF fixed THEN float ELSE both \o (IF left THEN Copies(" ", width - Len(both)) ELSE <<>>)

Exceeds(value, limit) ==
  LET whole == value.num \div value.den
  IN  whole > limit \/ (whole = limit /\ value.num % value.den > 0)

_ftoa(value, prec, width, flags) ==
  IF IsSpecial(value) THEN FtoaSpecial(value, width, flags)
  ELSE IF Exceeds(value, MaxFloat) THEN EtoaFinite(value, prec, width, flags)
  ELSE FtoaFinite(value, prec, width, flags)

_etoa(value, prec, width, flags) ==
  IF IsSpecial(value) THEN FtoaSpecial(value, width, flags)
                      ELSE EtoaFinite(value, prec, width, flags)

(***************************************************************************)
(* The call.                                                               *)
(***************************************************************************)
VARIABLES call,      \* one of Calls
          phase,     \* what _vsnprintf looks for next
          format,    \* the characters of the format not yet read
          va,        \* the arguments not yet taken
          dir,       \* flags, width and precision of the directive being read
          idx,       \* characters produced so far
          mem,       \* the caller's buffer and what lies behind it
          log,       \* every character given to the output function (history)
          ret        \* what the call returned

printfVars == <<call, phase, format, va, dir, idx, mem, log, ret>>
reading == <<call, ret>>

NoDirective == [flags |-> {}, width |-> 0, prec |-> 0]
Unbounded == Memory + 1000     \* (size_t)-1
maxlen == IF call.fn = "snprintf" THEN call.count ELSE Unbounded
Buffered == call.fn \in {"snprintf", "sprintf"}    \* out is _out_buffer

PrintfInit ==
  /\ call \in Calls
  /\ phase = IF call.fn = "puts" THEN "puts" ELSE "text"
  /\ format = Source(call.items) /\ va = Arguments(call.items)
  /\ dir = NoDirective
  /\ idx = 0 /\ mem = [a \in 0..(Memory - 1) |-> "?"]
  /\ log = <<>> /\ ret = None

(* Mistake: the character at the bound of the buffer is stored as well. *)
StoredAtBound(text, i) ==
  [a \in DOMAIN mem |-> IF Buffered /\ a \in i..(i + Len(text) - 1) /\ a <= maxlen
                        THEN text[a - i + 1] ELSE mem[a]]

\* _out_buffer at index i; the other output functions do not touch the buffer.
Stored(text, i) ==
  [a \in DOMAIN mem |-> IF Buffered /\ a \in i..(i + Len(text) - 1) /\ a < maxlen
                        THEN text[a - i + 1] ELSE mem[a]]

\* _out_char and _out_fct pass no null character on, and count it.
Out(text) == /\ mem' = Stored(text, idx)
             /\ idx' = idx + Len(text)
             /\ log' = log \o (IF call.fn \in {"printf", "fctprintf"}
                               THEN SelectSeq(text, LAMBDA c : c # NUL) ELSE text)

At(ph, chars) == phase = ph /\ format # <<>> /\ Head(format) \in chars
IsDigit(c) == c \in {DigitChars[i] : i \in 1..10}

Text == /\ phase = "text" /\ format # <<>> /\ Head(format) # "%"
        /\ Out(<<Head(format)>>)
        /\ format' = Tail(format)
        /\ UNCHANGED <<reading, phase, va, dir>>

BeginDirective == /\ At("text", {"%"})
                  /\ phase' = "flags" /\ format' = Tail(format) /\ dir' = NoDirective
                  /\ UNCHANGED <<reading, va, idx, mem, log>>

Flag == /\ At("flags", {"0", "-", "+", " ", "#"})
        /\ dir' = [dir EXCEPT !.flags = @ \cup {Head(format)}]
        /\ format' = Tail(format)
        /\ UNCHANGED <<reading, phase, va, idx, mem, log>>

\* _atoi: the number at the front of chars, and what follows it.
DigitValue(c) == CHOOSE v \in 0..9 : DigitChars[v + 1] = c
_atoi(chars) ==
  LET n == CHOOSE k \in 0..Len(chars) :
             /\ \A i \in 1..k : IsDigit(chars[i])
             /\ k = Len(chars) \/ ~IsDigit(chars[k + 1])
  IN  [value |-> FoldLeft(LAMBDA v, c : 10 * v + DigitValue(c), 0, SubSeq(chars, 1, n)),
       rest  |-> SubSeq(chars, n + 1, Len(chars))]

\* The width field: a number, an argument, or nothing.
Width ==
  /\ phase = "flags" /\ ~At("flags", {"0", "-", "+", " ", "#"})
  /\ phase' = "precision"
  /\ IF Head(format) = "*"
     THEN /\ dir' = IF va[1].int < 0 THEN [dir EXCEPT !.flags = @ \cup {"-"}, !.width = -va[1].int]
                                 ELSE [dir EXCEPT !.width = va[1].int]
          /\ va' = Tail(va) /\ format' = Tail(format)
     ELSE /\ dir' = [dir EXCEPT !.width = _atoi(format).value]
          /\ format' = _atoi(format).rest /\ UNCHANGED va
  /\ UNCHANGED <<reading, idx, mem, log>>

\* The precision field; a negative argument counts as 0.
PrecisionField ==
  /\ At("precision", {"."})
  /\ phase' = "length"
  /\ LET rest == Tail(format)
         given(n) == [dir EXCEPT !.flags = @ \cup {"PRECISION"}, !.prec = n]
     IN  IF Head(rest) = "*"
         THEN /\ dir' = given(IF va[1].int > 0 THEN va[1].int ELSE 0)
              /\ va' = Tail(va) /\ format' = Tail(rest)
         ELSE /\ dir' = given(_atoi(rest).value)
              /\ format' = _atoi(rest).rest /\ UNCHANGED va
  /\ UNCHANGED <<reading, idx, mem, log>>

NoPrecisionField ==
  /\ phase = "precision" /\ ~At("precision", {"."})
  /\ phase' = "length"
  /\ UNCHANGED <<reading, format, va, dir, idx, mem, log>>

\* The length field: z and t are a long here, j is a long long.
LengthField ==
  /\ phase = "length"
  /\ phase' = "convert"
  /\ LET c == Head(format)
         twice == Len(format) > 1 /\ format[2] = c
         take(n, flags) == /\ format' = SubSeq(format, n + 1, Len(format))
                           /\ dir' = [dir EXCEPT !.flags = @ \cup flags]
     IN  IF c = "l" /\ twice THEN take(2, {"LONG", "LONG_LONG"})
         ELSE IF c = "h" /\ twice THEN take(2, {"SHORT", "CHAR"})
         ELSE IF c = "h" THEN take(1, {"SHORT"})
         ELSE IF c = "j" THEN take(1, {"LONG_LONG"})
         ELSE IF c \in {"l", "t", "z"} THEN take(1, {"LONG"})
         ELSE take(0, {})
  /\ UNCHANGED <<reading, va, idx, mem, log>>

\* A conversion prints its text and reading goes on behind the specifier.
Produce(text) ==
  /\ Out(text)
  /\ phase' = "text" /\ format' = Tail(format)
  /\ UNCHANGED <<call, dir, ret>>

CharBits == IntBits \div 4
ShortBits == IntBits \div 2
LongLongBits == IntBits * 2
AsUnsigned(v, bits) == v % 2^bits
AsSigned(v, bits) == LET u == v % 2^bits IN IF u >= 2^(bits - 1) THEN u - 2^bits ELSE u

ConvertInteger ==
  /\ At("convert", {"d", "i", "u", "x", "X", "o", "b"})
  /\ LET c       == Head(format)
         signed  == c \in {"d", "i"}
         base    == BaseOf(c)
         flags   == (dir.flags \cup (IF c = "X" THEN {"UPPERCASE"} ELSE {}))
                      \ ((IF base = 10 THEN {"#"} ELSE {})
                           \cup (IF signed THEN {} ELSE {"+", " "})
                           \cup (IF "PRECISION" \in dir.flags THEN {"0"} ELSE {}))
         bits    == IF "LONG_LONG" \in flags THEN LongLongBits
                    ELSE IF "LONG" \in flags THEN IntBits
                    ELSE IF "CHAR" \in flags THEN CharBits
                    ELSE IF "SHORT" \in flags THEN ShortBits
                    ELSE IntBits
         value   == IF signed /\ "CHAR" \notin flags      \* char is unsigned on RISC-V
                    THEN AsSigned(va[1].int, bits) ELSE AsUnsigned(va[1].int, bits)
     IN  Produce(_ntoa_long(IF value > 0 THEN value ELSE -value, value < 0, base,
                          dir.prec, dir.width, flags))
  /\ va' = Tail(va)

ConvertFloat ==
  /\ At("convert", {"f", "F", "e", "E", "g", "G"})
  /\ LET c     == Head(format)
         flags == dir.flags \cup (IF c \in {"F", "E", "G"} THEN {"UPPERCASE"} ELSE {})
                            \cup (IF c \in {"g", "G"} THEN {"ADAPT_EXP"} ELSE {})
     IN  Produce(IF c \in {"f", "F"} THEN _ftoa(va[1], dir.prec, dir.width, flags)
                                   ELSE _etoa(va[1], dir.prec, dir.width, flags))
  /\ va' = Tail(va)

\* Spaces up to the width, on the side the flag says.
Justified(text, len) ==
  LET pad == Copies(" ", dir.width - len)
  IN  IF "-" \in dir.flags THEN text \o pad ELSE pad \o text

(* Mistake: the argument of %c is read and not taken. *)
ConvertCharKeepsArg ==
  /\ At("convert", {"c"})
  /\ Produce(Justified(va[1].str, 1))
  /\ UNCHANGED va

ConvertChar ==
  /\ At("convert", {"c"})
  /\ Produce(Justified(va[1].str, 1))
  /\ va' = Tail(va)

ConvertString ==
  /\ At("convert", {"s"})
  /\ LET p == va[1].str
         n == IF "PRECISION" \in dir.flags THEN Minimum(Len(p), dir.prec) ELSE Len(p)
     IN  Produce(Justified(SubSeq(p, 1, n), n))
  /\ va' = Tail(va)

ConvertPointer ==
  /\ At("convert", {"p"})
  /\ Produce(_ntoa_long(AsUnsigned(va[1].int, IntBits), FALSE, 16, dir.prec, IntBits \div 4,
                      dir.flags \cup {"0", "UPPERCASE"}))
  /\ va' = Tail(va)

\* %% and any character that is no conversion stand for themselves.
ConvertOther ==
  /\ phase = "convert"
  /\ Head(format) \notin {"d", "i", "u", "x", "X", "o", "b", "f", "F", "e", "E", "g", "G", "c", "s", "p"}
  /\ Produce(<<Head(format)>>)
  /\ UNCHANGED va

\* The terminator goes behind the text or into the last cell of the buffer.
Terminate ==
  /\ phase = "text" /\ format = <<>>
  /\ mem' = Stored(<<NUL>>, IF idx < maxlen THEN idx ELSE maxlen - 1)
  /\ phase' = "returned" /\ ret' = idx
  /\ UNCHANGED <<call, format, va, dir, idx, log>>

\* _puts: the string and a newline; nothing is terminated.
Puts ==
  /\ phase = "puts"
  /\ Out(format \o <<"\n">>)
  /\ phase' = "returned" /\ ret' = Len(format) + 1 /\ format' = <<>>
  /\ UNCHANGED <<call, va, dir>>

PrintfNext ==
  \/ Text \/ BeginDirective \/ Flag \/ Width \/ PrecisionField \/ NoPrecisionField
  \/ LengthField \/ ConvertInteger \/ ConvertFloat \/ ConvertChar \/ ConvertString
  \/ ConvertPointer \/ ConvertOther \/ Terminate \/ Puts

PrintfSpec == PrintfInit /\ [][PrintfNext]_printfVars

(***************************************************************************)
(* What the C standard wants the call to print.  A negative width given as *)
(* an argument is a minus flag and a width.                                *)
(***************************************************************************)
Normal(d) == IF d.width < 0 THEN [d EXCEPT !.flags = @ \cup {"-"}, !.width = -@] ELSE d

SizeBits(d) == CASE d.size = <<"h", "h">> -> CharBits
                 [] d.size = <<"h">>      -> ShortBits
                 [] d.size \in {<<"l", "l">>, <<"j">>} -> LongLongBits
                 [] OTHER                 -> IntBits

IntegerConvs == {"d", "i", "u", "x", "X", "o", "b"}
ArgumentOf(d) == IF d.conv \in {"d", "i"} THEN AsSigned(d.arg.int, SizeBits(d))
                                          ELSE AsUnsigned(d.arg.int, SizeBits(d))
DirectiveText(d) ==
  CASE d.conv \in IntegerConvs -> IntegerText(d, ArgumentOf(d))
    [] d.conv = "c" -> CharText(d)
    [] d.conv = "s" -> StringText(d)
    [] d.conv \in {"f", "F"} -> FixedText(d)
    [] d.conv \in {"e", "E"} -> ExponentialText(d)
    [] d.conv = "%" -> <<"%">>

(***************************************************************************)
(* Where printf.c prints something else, by its own account (buffer sizes, *)
(* large numbers) or not (the others).                                     *)
(***************************************************************************)
\* A number must fit in the scratch buffer, its padding zeros included.
NumberFits(d, text, size) ==
  Len(SelectSeq(text, LAMBDA c : c # " ")) + (IF " " \in d.flags THEN 1 ELSE 0) <= size

\* '#' takes as many digits as the width, or zeros, for ones it put there.
HashDropsDigits(d) ==
  LET v == ArgumentOf(d)
      n == Len(Numeral(IF v < 0 THEN -v ELSE v, BaseOf(d.conv), DigitChars))
  IN  "#" \in d.flags /\ d.conv \notin {"d", "i", "u"} /\
        IF d.prec # None THEN d.conv = "o"
        ELSE IF "0" \in d.flags /\ "-" \notin d.flags THEN
               IF BaseOf(d.conv) = 2 THEN n <= d.width ELSE n \in {d.width, d.width - 1}
        ELSE n = d.width

\* A tie that is rounded up to a whole number has a digit too many.
TieRollsOver(num, den, prec) ==
  LET s == Scaled(num % den, den, prec)
  IN  prec > 0 /\ 2 * s.r = den /\ s.q + 1 = 10^prec

PrintsLikeC(d) ==
  CASE d.conv \in IntegerConvs ->
         /\ NumberFits(d, IntegerText(d, ArgumentOf(d)), NtoaSize)
         /\ ~HashDropsDigits(d)
         /\ "-" \in d.flags => d.prec <= 1        \* '-' turns the precision off
         /\ d.size = <<"h", "h">> => ArgumentOf(d) >= 0   \* char is not signed here
         /\ d.prec >= 0 \/ "prec" \notin d.star   \* a negative argument
    [] d.conv \in {"f", "F"} ->
         /\ ~IsSpecial(d.arg)
         /\ Precision(d) <= 9                     \* further decimals are zeros
         /\ ~Exceeds(d.arg, MaxFloat)
         /\ ~TieRollsOver(d.arg.num, d.arg.den, Precision(d))
         /\ NumberFits(d, FixedText(d), FtoaSize)
    [] d.conv \in {"e", "E"} ->
         /\ ~IsSpecial(d.arg)
         /\ Precision(d) <= 9
         /\ d.arg.num > 0                         \* zero prints e-308
         /\ LET x == DecimalExponent(d.arg.num, d.arg.den)   \* 100 prints 10.0e+01
            IN  x \in HighPowers => d.arg.num # d.arg.den * 10^x
         /\ LET m == Mantissa(d.arg.num, d.arg.den)   \* 9.99.. prints 10.0e0
            IN  /\ Rounded(m.num, m.den, Precision(d)) < 10^(Precision(d) + 1)
                /\ ~TieRollsOver(m.num, m.den, Precision(d))
         /\ NumberFits(d, ExponentialText(d), FtoaSize)
    [] d.conv = "c" -> d.arg.str # <<NUL>> \/ call.fn \notin {"printf", "fctprintf"}
    [] OTHER -> d.conv \in {"s", "%"}

Expected ==
  FlattenSeq([i \in DOMAIN call.items |->
                IF IsDirective(call.items[i]) THEN DirectiveText(Normal(call.items[i]))
                                              ELSE <<call.items[i].char>>])
LikeC == \A i \in DOMAIN call.items :
           IsDirective(call.items[i]) => PrintsLikeC(Normal(call.items[i]))

(***************************************************************************)
(* A call prints what the C standard says, character by character, except  *)
(* for the directives named in PrintsLikeC.                                *)
(***************************************************************************)
Returned == phase = "returned"
PrintsAsInC == Returned /\ call.fn # "puts" /\ LikeC => log = Expected

(***************************************************************************)
(* Whatever the directives, a buffer of the caller receives the longest    *)
(* prefix that leaves room for the terminator, is terminated, and keeps    *)
(* every cell behind its bound; the call returns the untruncated length.   *)
(***************************************************************************)
BufferHoldsPrefix ==
  /\ \A a \in DOMAIN mem : ~Buffered \/ a >= maxlen => mem[a] = "?"
  /\ Returned /\ Buffered => ret = Len(log)
  /\ Returned /\ Buffered =>
       LET kept == IF Len(log) < maxlen THEN Len(log) ELSE maxlen - 1
       IN  /\ \A a \in 0..(kept - 1) : mem[a] = log[a + 1]
           /\ maxlen > 0 => mem[kept] = NUL

(***************************************************************************)
(* A call takes exactly the arguments that its directives name: whatever   *)
(* stars, lengths and precisions a directive has, the next one finds its   *)
(* own argument (the va_list of _vsnprintf keeps in step).                 *)
(***************************************************************************)
ArgumentsInStep == Returned => va = <<>>

(***************************************************************************)
(* "Handle rollover, e.g. case 0.99 with prec 1 is 1.0" (_ftoa): a number  *)
(* printed by a plain %.Nf is one of the two decimals around it with N     *)
(* places, also when its fraction rounds up to a whole number.             *)
(***************************************************************************)
PrintsNearbyDecimal ==
  Returned /\ call.fn # "puts" =>
    \A i \in DOMAIN call.items :
      LET d == call.items[i]
      IN  IsDirective(d) /\ Len(call.items) = 1 /\ d.conv = "f" /\ d.flags = {} /\ d.width = 0
          => LET below == Scaled(d.arg.num, d.arg.den, d.prec).q
             IN  log \in {Decimal(below, d.prec), Decimal(below + 1, d.prec)}
=============================================================================
