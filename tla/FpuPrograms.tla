----------------------------- MODULE FpuPrograms -----------------------------
(***************************************************************************)
(* The two programs that test the FPU on the board, executed by the model  *)
(* of its single precision datapath: testFPU.c divides a table of numbers  *)
(* and compares the bits, fpuTest.c runs six test functions.  Every float  *)
(* operation of the programs is one instruction of the FPU, in the         *)
(* rounding mode the FPU starts with; ldexpf is of the C library.          *)
(***************************************************************************)
EXTENDS FpuArith, Sequences

\* A float constant of the programs, from the bits of a number >= 0.
FloatOf(bits) == Float(0, bits \div One, bits % One)
BitsOf(x) == Rank(x)       \* of a number >= 0

(***************************************************************************)
(* testFPU.c: the dividends, the divisors and the bits of the quotients.   *)
(***************************************************************************)
nums1 == <<
  \h42157b8b, \h427f680f, \h422581b8, \h42b0de99, \h41aa94cc, \h4160281f, \h4237bf6c, \h42ac876c,
  \h4218ebe9, \h428cafdd, \h414116f7, \h425db85e, \h425d7b8b, \h4297d2a4, \h4296ac6f, \h42967246,
  \h42a56768, \h42c7d3af, \h41583142, \h41285bc3, \h42b43888, \h425aeb4d, \h4277a417, \h4248e563,
  \h4199528a, \h42af392f, \h429a82d5, \h428a52a5, \h428d5654, \h41db983b, \h4229ea32, \h41a688d4,
  \h41e3aa3b, \h4299c51f, \h4298265b, \h42b9c543, \h429266dc, \h42af9433, \h4204aa07, \h400b1235,
  \h42bb56fb, \h418da0c3, \h42b77ada, \h4299e6d2, \h42b47909, \h42c2faf9, \h42370c70, \h41f8355e,
  \h422f26b9, \h41ed7538, \h41febe65, \h41908957, \h4258b8e8, \h4102a212, \h428e3114, \h428c4c82,
  \h42bf4735, \h41b924ee, \h429f749a, \h42aec357, \h41f04d92, \h42479df0, \h42b01db4, \h4206ebee,
  \h42134e37, \h42bd9f8e, \h41d8c00f, \h40e0c2ff, \h41a102f1, \h42b1618d, \h41ff2d89, \h4258bb78,
  \h421eedae, \h423bbd53, \h42031f0c, \h410f15d6, \h41efdea1, \h42b88d43, \h4282e173, \h42134f26,
  \h429183df, \h425f8512, \h429fe878, \h42bf07e6, \h4298ac8d, \h4271e2cc, \h4252e476, \h42bb6a7f,
  \h420611d4, \h4297ad4f, \h418cb082, \h42aeefe9, \h41e7a906, \h41c80141, \h42ae02cf, \h421bbc48,
  \h40d0eb18, \h42aa931b, \h4285c1da, \h4220b0aa>>

nums2 == <<
  \h42128cd0, \h421d956f, \h429cfaa1, \h41e84fe1, \h42053ab9, \h41deb958, \h420d6c1d, \h42b49b48,
  \h411975cc, \h42a32d45, \h41a419ce, \h423a37d9, \h42854ee4, \h427ab9e0, \h4287b4e4, \h428df41a,
  \h4251de99, \h419e86a0, \h410076d1, \h41a52081, \h42ace234, \h42861b0f, \h42755b63, \h41c5187b,
  \h4185899a, \h42433030, \h42392170, \h419effd2, \h4286c6d1, \h41d4945e, \h41c17f34, \h40d6b2db,
  \h409f4a02, \h42457be8, \h41da4ed3, \h427f8849, \h40ea0f25, \h42293744, \h427f7321, \h42b58591,
  \h410e879e, \h4265cff6, \h4151c17f, \h42a50ab6, \h420230ac, \h423b8529, \h42a2a690, \h41b1b0fd,
  \h41e5f522, \h421f696f, \h42c6b6ae, \h4249a5b8, \h41ec4374, \h41a15601, \h409173b0, \h4292aa83,
  \h41981475, \h42921e85, \h42bd352e, \h41d947a9, \h41063bb3, \h4276b40d, \h4294501f, \h423c3a79,
  \h423e0df1, \h41256501, \h4262d243, \h428afd88, \h42a33290, \h41f05b03, \h4227729e, \h428495b2,
  \h429e92ba, \h424f4667, \h4289bdbd, \h424dfe67, \h42064f6a, \h4209493e, \h4112f6c5, \h423fc603,
  \h42a867e2, \h429f990e, \h42953077, \h4271ff68, \h428f3289, \h421f0ff7, \h4265f284, \h4257b20d,
  \h420a8b39, \h422f6e7f, \h419ee1bd, \h423f30c8, \h427b5cc6, \h42ae92a3, \h413a6827, \h409abba5,
  \h4233aa61, \h424c3511, \h42055118, \h42381209>>

ans == <<
  \h3f828fb4, \h3fcf754a, \h3f06f415, \h4042e77c, \h3f23e2c1, \h3f00d2ca, \h3fa64eef, \h3f748cec,
  \h407f19fb, \h3f5cb77e, \h3f169c91, \h3f986723, \h3f54a9d6, \h3f9b042f, \h3f8e1df4, \h3f87a875,
  \h3fc9c2b8, \h40a1591a, \h3fd7694d, \h3f028142, \h3f856eae, \h3f50f3b5, \h3f813108, \h400277d6,
  \h3f92f6e8, \h3fe5d0a4, \h3fd5a8b8, \h405eb59e, \h3f863b11, \h3f843957, \h3fe0cced, \h4046920f,
  \h40b6f1e0, \h3fc7554d, \h40326b5b, \h3fba1c4b, \h41202026, \h4004d02d, \h3f04f330, \h3cc421c5,
  \h41283df3, \h3e9dc44e, \h40dfee5b, \h3f6eb85f, \h40316fd1, \h400517a0, \h3f100d6c, \h3fb2cc09,
  \h3fc2fca9, \h3f3eaacd, \h3ea41768, \h3eb77ecc, \h3fead38f, \h3ecf483e, \h417a4310, \h3f74e2e4,
  \h40a0fde0, \h3ea22f92, \h3f57beb1, \h404de80e, \h406524f7, \h3f4f23a5, \h3f97fec2, \h3f378006,
  \h3f466afe, \h4112c033, \h3ef4a222, \h3dcefd3a, \h3e7c9226, \h403ced36, \h3f430ffe, \h3f513cdd,
  \h3f00496b, \h3f67df4c, \h3ef3b251, \h3e31d1f4, \h3f64999a, \h402c1191, \h40e3fbf1, \h3f44a4ec,
  \h3f5d33fa, \h3f334433, \h3f893246, \h3fca158c, \h3f88788b, \h3fc2a641, \h3f6ac945, \h3fde6fad,
  \h3f77bb8d, \h3fdd55fb, \h3f62affd, \h3fea3caf, \h3eebef32, \h3e92a5b4, \h40eef9eb, \h4100d44c,
  \h3e14d739, \h3fd5d650, \h40006c43, \h3f5f7bb7>>

(***************************************************************************)
(* fpuTest.c.  Each test function is the sequence of its checks, in the    *)
(* order in which it would report the first that fails: an operation, its  *)
(* operands, and what the program asks of the result.                      *)
(***************************************************************************)
ldexpf1(n) == CASE n > EMAX -> Inf(0)
                [] n < EMIN -> Float(0, 0, Pow2[n - EMIN + NSIG])
                [] OTHER    -> Float(0, n + BIAS, 0)

RM == RNE                            \* CSR_fcsr after a reset
Pos0 == Zero(0)
Neg0 == Zero(1)
One_f == ldexpf1(0)
NaN == QNaN(0)
Huge == FloatOf(\h7f7fc99e)          \* 3.4e38
OnePlus(tiny) == FADDd(One_f, tiny, RM)

Gives(op, x, y, want) == [op |-> op, x |-> x, y |-> y, ask |-> "equal", want |-> want]
Has(op, x, y, ask)    == [op |-> op, x |-> x, y |-> y, ask |-> ask, want |-> Pos0]

test_addition == <<
  Gives("add", FloatOf(\h3fc00000), FloatOf(\h40100000), FloatOf(\h40700000)),
  Gives("add", One_f, ldexpf1(-25), One_f),
  Has("add", Huge, Huge, "+inf")>>

test_subtraction == <<
  Gives("sub", FloatOf(\h40a00000), FloatOf(\h40200000), FloatOf(\h40200000)),
  Gives("sub", One_f, ldexpf1(-25), One_f),
  Has("sub", ldexpf1(-126), ldexpf1(-126), "zero")>>

test_multiplication == <<
  Gives("mul", FloatOf(\h3fa00000), FloatOf(\h3f4ccccd), One_f),
  Gives("mul", One_f, OnePlus(ldexpf1(-24)), One_f),
  Has("mul", Huge, ldexpf1(1), "+inf")>>

test_division ==
  LET five == FloatOf(\h40a00000)   a == FloatOf(\h42f60000)   pi == FloatOf(\h4048f5c3)
  IN <<
  Gives("div", FloatOf(\h41100000), FloatOf(\h40400000), FloatOf(\h40400000)),
  Gives("div", One_f, OnePlus(ldexpf1(-23)), FloatOf(\h3f7ffffe)),
  Has("div", Huge, ldexpf1(-126), "+inf"),
  Has("div", ldexpf1(-126), ldexpf1(150), "zero"),
  Has("div", five, Pos0, "+inf"),
  Has("div", Negated(five), Pos0, "-inf"),
  Has("div", Pos0, Pos0, "nan"),
  Has("div", Neg0, Pos0, "nan"),
  Has("div", Inf(0), a, "+inf"),
  Has("div", Inf(0), Negated(a), "-inf"),
  Has("div", Negated(a), Inf(0), "zero"),
  Has("div", pi, NaN, "nan"),
  Has("div", NaN, pi, "nan"),
  Has("div", NaN, NaN, "nan")>>

sqrt_cases == <<
  <<Pos0, Pos0>>, <<One_f, One_f>>, <<ldexpf1(2), ldexpf1(1)>>,
  <<FloatOf(\h41100000), FloatOf(\h40400000)>>,
  <<FloatOf(\h40100000), FloatOf(\h3fc00000)>>, <<ldexpf1(16), ldexpf1(8)>>>>

test_sqrt ==
  [i \in 1..Len(sqrt_cases) |-> Gives("sqrt", sqrt_cases[i][1], Pos0, sqrt_cases[i][2])] \o <<
  Gives("sqrt", ldexpf1(-1), Pos0, FloatOf(\h3f3504f3)),
  Gives("sqrt", ldexpf1(-146), Pos0, FloatOf(\h1b000000)),
  Has("sqrt", ldexpf1(128), Pos0, "+inf"),
  Has("sqrt", Pos0, Pos0, "plus"),
  Has("sqrt", Neg0, Pos0, "minus"),
  Has("sqrt", Inf(0), Pos0, "+inf"),
  Has("sqrt", Inf(1), Pos0, "nan"),
  Has("sqrt", NaN, Pos0, "nan"),
  Has("sqrt", Negated(ldexpf1(2)), Pos0, "nan")>>

ints == <<-123456789, -1, 0, 1, 123456789, MaxInt, MinInt>>
conv == <<<<FloatOf(\h3ff33333), 1>>, <<Negated(FloatOf(\h3ff33333)), -1>>,
          <<ldexpf1(1), 2>>, <<Negated(ldexpf1(1)), -2>>, <<Pos0, 0>>,
          <<FloatOf(\h4b64e1c0), 15000000>>, <<FloatOf(\h4d0f0d18), 150000000>>>>

test_conversion_int_float ==
  [n \in 1..Len(ints) |-> [op |-> "itof", x |-> ints[n], ask |-> "roundtrip"]] \o
  [n \in 1..Len(conv) |-> [op |-> "ftoi", x |-> conv[n][1], ask |-> "int", want |-> conv[n][2]]]

tests == <<test_addition, test_subtraction, test_multiplication, test_division,
           test_sqrt, test_conversion_int_float>>

\* The operation, and the question of the program about its result r.
Result(c) == CASE c.op = "add"  -> FADDd(c.x, c.y, RM)
               [] c.op = "sub"  -> FSUB(c.x, c.y, RM)
               [] c.op = "mul"  -> FMUL(c.x, c.y, RM)
               [] c.op = "div"  -> FDIV(c.x, c.y, RM)
               [] c.op = "sqrt" -> FSQRT(c.x, RM)
               [] c.op = "itof" -> FCVTSW(c.x)
               [] c.op = "ftoi" -> FCVTWS(c.x)

RoundTrips(i, f) ==
  LET back == FCVTWS(f)
  IN  IF FLE([f EXCEPT !.s = 0], ldexpf1(24))
      THEN back = i
      ELSE almost_equal_ulps(f, FCVTSW(back), 1)

Passes(c, r) == CASE c.ask = "equal" -> almost_equal_ulps(r, c.want, 0)
                  [] c.ask = "+inf"  -> IsInf(r) /\ ~FLT(r, Pos0)
                  [] c.ask = "-inf"  -> IsInf(r) /\ ~FLT(Pos0, r)
                  [] c.ask = "nan"   -> IsNaN(r)
                  [] c.ask = "zero"  -> FEQ(r, Pos0)
                  [] c.ask = "plus"  -> r.s = 0
                  [] c.ask = "minus" -> r.s = 1
                  [] c.ask = "int"   -> r = c.want
                  [] c.ask = "roundtrip" -> RoundTrips(c.x, r)

(***************************************************************************)
(* The programs.                                                           *)
(***************************************************************************)
VARIABLES program,    \* "testFPU", "fpuTest" or "exit"
          i,          \* loop counter of its main
          check,      \* next check of tests[i]
          errors,     \* indices whose division mismatched
          passed      \* test functions that returned true

vars == <<program, i, check, errors, passed>>

Init == /\ program \in {"testFPU", "fpuTest"}
        /\ i = 1 /\ check = 1 /\ errors = {} /\ passed = 0

Divide ==
  /\ program = "testFPU" /\ i <= Len(ans)
  /\ LET ansf == FDIV(FloatOf(nums1[i]), FloatOf(nums2[i]), RM)
     IN  errors' = IF ansf.s = 0 /\ BitsOf(ansf) = ans[i] THEN errors ELSE errors \cup {i}
  /\ i' = i + 1
  /\ UNCHANGED <<program, check, passed>>

\* The next check of the running test; the test returns at the first failure.
Check ==
  /\ program = "fpuTest" /\ i <= Len(tests)
  /\ LET last == check = Len(tests[i])
     IN  IF Passes(tests[i][check], Result(tests[i][check]))
         THEN /\ check' = IF last THEN 1 ELSE check + 1
              /\ i' = IF last THEN i + 1 ELSE i
              /\ passed' = IF last THEN passed + 1 ELSE passed
         ELSE check' = 1 /\ i' = i + 1 /\ UNCHANGED passed
  /\ UNCHANGED <<program, errors>>

Exit ==
  /\ \/ program = "testFPU" /\ i > Len(ans)
     \/ program = "fpuTest" /\ i > Len(tests)
  /\ program' = "exit"
  /\ UNCHANGED <<i, check, errors, passed>>

Next == Divide \/ Check \/ Exit

Spec == Init /\ [][Next]_vars

(***************************************************************************)
(* The divisions agree bit by bit with the table the program carries, and  *)
(* no test function returns before its last check: the program prints      *)
(* "6/6 tests passed" and exits with 0.                                    *)
(***************************************************************************)
DivisionsMatchTable == errors = {}
EveryTestPasses == program = "fpuTest" => passed = i - 1
=============================================================================
