------------------------------ MODULE MCPrintf ------------------------------
(***************************************************************************)
(* Calls for the model of printf: one directive between two literals, over *)
(* all pairs of flags, and a few calls with several directives.            *)
(***************************************************************************)
EXTENDS Printf

FlagSets == {F \in SUBSET {"0", "-", "+", " ", "#"} : Cardinality(F) <= 2}

Directive(flags, width, prec, star, size, conv, arg) ==
  [flags |-> flags, width |-> width, prec |-> prec, star |-> star,
   size |-> size, conv |-> conv, arg |-> arg]
Between(d) == <<[char |-> "a"], d, [char |-> "z"]>>
Call(fn, count, items) == [fn |-> fn, count |-> count, items |-> items]

Num(n) == [int |-> n]
Str(s) == [str |-> s]

Integers1 == {Directive(F, w, p, {}, <<>>, c, Num(v)) :
               F \in FlagSets, w \in {0, 3, 10}, p \in {None, 0, 2},
               c \in {"d", "x", "o", "b"}, v \in {-7, 0, 5, 171}}
Sizes == {Directive({}, 4, p, {}, s, c, Num(v)) :
            p \in {None, 3}, s \in {<<"l">>, <<"l", "l">>, <<"h">>, <<"h", "h">>, <<"j">>, <<"z">>, <<"t">>},
            c \in {"d", "i", "u", "X"}, v \in {-128, -1, 2, 9, 300}}
Stars == {Directive(F, w, p, S, <<>>, "d", Num(v)) :
            F \in {{}, {"0"}, {"-"}}, w \in {-5, 4}, p \in {-1, 2}, S \in {{"width", "prec"}},
            v \in {-3, 12}}
Limits == {Directive(F, w, p, {}, s, c, Num(v)) :
             F \in {{}, {"0"}, {"#"}, {"0", "+"}}, w \in {0, 8, 9, 12}, p \in {None, 8, 9},
             s \in {<<>>, <<"l", "l">>}, c \in {"b", "d"}, v \in {-128, 255, 256}}

Double(neg, num, den) == [neg |-> neg, num |-> num, den |-> den]
Doubles == {Double(FALSE, 0, 1), Double(FALSE, 1, 2), Double(TRUE, 5, 2), Double(FALSE, 7, 2),
            Double(FALSE, 31, 32), Double(FALSE, 9, 16), Double(TRUE, 1, 16), Double(FALSE, 19, 2),
            Double(FALSE, 1999, 2), Double(TRUE, 39, 20), Double(FALSE, 100, 1), Double(TRUE, 1234, 1)}
Floats1 == {Directive(F, w, p, {}, <<>>, c, v) :
              F \in FlagSets, w \in {0, 12}, p \in {None, 0, 1, 3},
              c \in {"f", "e", "g"}, v \in Doubles}
Floats2 == {Directive(F, w, p[2], {}, <<>>, p[1], v) :
              F \in {{}, {"-"}, {"+"}, {"0"}}, w \in {0, 9},
              p \in ({"F", "E", "G"} \X {0, 2}) \cup {<<"F", 11>>},
              v \in {Double(FALSE, 0, 0), Double(FALSE, 1, 0), Double(TRUE, 1, 0),
                     Double(FALSE, 3000000, 1), Double(FALSE, 1, 16384),
                     Double(FALSE, 1000000, 1), Double(TRUE, 100001, 2)}}

Texts == {Directive(F, w, p, {}, <<>>, "s", Str(v)) :
            F \in {{}, {"-"}}, w \in {0, 2, 4}, p \in {None, 0, 1, 5},
            v \in {<<>>, <<"b">>, <<"b", "c", "d">>}}
         \cup {Directive(F, w, None, {}, <<>>, "c", Str(v)) :
                 F \in {{}, {"-"}}, w \in {0, 1, 3}, v \in {<<"b">>, <<NUL>>}}
         \cup {Directive(F, 0, p, {}, <<>>, "p", Num(v)) : F \in {{}, {"-"}, {"#"}}, p \in {None, 3}, v \in {0, 9, 255}}
         \cup {Directive({}, 0, None, {}, <<>>, c, Str(<<>>)) : c \in {"%"}}

Several == {<<Directive({"0"}, 3, None, {}, <<>>, "d", Num(-1)), d, [char |-> ","],
              Directive({}, -3, None, {"width"}, <<>>, "s", Str(<<"b">>)), [char |-> "%"]>> :
              d \in Texts}

Printed == Integers1 \cup Sizes \cup Stars \cup Limits \cup Floats1 \cup Floats2 \cup Texts
Bounded == Texts \cup Stars \cup {d \in Floats1 : d.flags = {} /\ d.prec = 1}
Plain(items) == SelectSeq(items, LAMBDA x : ~IsDirective(x) => x.char # "%")

MCCalls ==
  {Call("printf", 0, Between(d)) : d \in Printed}
  \cup {Call(fn, 0, Plain(items)) : fn \in {"fctprintf", "sprintf", "null"}, items \in Several}
  \cup {Call("snprintf", n, Between(d)) : n \in {0, 1, 2, 5}, d \in Bounded}
  \cup {Call("snprintf", n, Plain(items)) : n \in 0..12, items \in Several}
  \cup {Call("puts", 0, <<>>), Call("puts", 0, <<[char |-> "a"], [char |-> "z"]>>)}

(***************************************************************************)
(* Halves of the last place, that the rounding to even decides.            *)
(***************************************************************************)
HalfwayCalls == {Call("printf", 0, <<Directive({}, 0, p, {}, <<>>, "f", Double(FALSE, n, 2 * 10^p))>>) :
                   p \in {1, 2}, n \in 1..400}
=============================================================================
