------------------------------- MODULE MCTwins -------------------------------
(***************************************************************************)
(* Twins for TLC: the programs that are written.                           *)
(***************************************************************************)
EXTENDS Twins

CONSTANTS
    empty, word,
    Family      \* which family of programs is written: "sound" or "nested"

MCText == {empty, word}
MCConcat == [ab \in MCText \X MCText |-> IF ab = <<empty, empty>> THEN empty ELSE word]
MCReply == Num(4)

N(n) == [form |-> "num", num |-> 2 * n]
S(t) == [form |-> "str", str |-> t]
V(x) == [form |-> "var", name |-> x]
Elem(x, i) == [form |-> "elem", name |-> x, args |-> <<i>>]
ListOf(es) == [form |-> "list", args |-> es]
P(e) == [form |-> "paren", args |-> <<e>>]
F(f, es) == [form |-> "call", name |-> f, args |-> es]
In(role, l, r) == [form |-> "infix", role |-> role, args |-> <<l, r>>]
Pre(role, e) == [form |-> "prefix", role |-> role, args |-> <<e>>]
Sets(x, e) == In("assign", V(x), e)

Puts(e) == [form |-> "print", value |-> e]
LetBe(target, e) == [form |-> "let", target |-> target, value |-> e]
Just(e) == [form |-> "eval", value |-> e]
If(c, b, alt) == [form |-> "if", value |-> c, body |-> b, alt |-> alt]
While(c, b) == [form |-> "while", value |-> c, body |-> b]
Def(f, ps, b) == [form |-> "define", name |-> f, params |-> ps, body |-> b]
Ret(e) == [form |-> "return", value |-> e]

Written(body, both, runs) == [body |-> body, both |-> both, runs |-> runs, blanks |-> 0]
Shared(body) == Written(body, TRUE, TRUE)
OnlyC(body) == Written(body, FALSE, TRUE)

\* Operands with and without parentheses, of every kind that leaves its value
\* elsewhere: a constant, a variable, a call, an operation, a short circuit.
Calls == {F("f", <<V("a")>>), F("g", <<N(1), In("add", V("a"), N(1))>>)}
Simple == {N(1), V("a"), S(word)} \cup Calls
Strict == {"add", "sub", "lt", "eq"}
Lazy == {"or_else", "and_then"}
Two == {In(role, l, r) : role \in Strict, l \in {N(3), V("a")} \cup Calls, r \in {N(2), V("b")} \cup Calls}
        \cup {In(role, l, r) : role \in Lazy, l \in {N(0), V("a")}, r \in {N(2)} \cup Calls}
\* As the precedences have it, with no parentheses.
Loose ==
    {In("or_else", In("and_then", V("a"), In("lt", In("add", V("b"), N(1)), N(2))), Pre("not", V("a"))),
     In("sub", In("sub", N(5), N(2)), V("a")), In("sub", N(5), P(In("sub", N(2), V("a")))),
     In("add", Pre("neg", V("a")), Pre("await", V("b"))), Pre("neg", P(In("add", V("a"), N(1)))),
     Pre("not", P(In("and_then", V("a"), V("b")))), Pre("not", Pre("neg", N(0))),
     In("ne", S(empty), In("add", V("a"), S(word))), In("le", Pre("neg", S(word)), N(1)),
     F("g", <<F("g", <<N(1), N(2)>>), Pre("await", N(7))>>), F("g", <<N(1), F("f", <<N(2)>>)>>),
     F("f", <<N(1), N(2)>>), F("h", <<>>), F("g", <<V("b"), P(In("and_then", V("a"), N(5)))>>),
     In("add", F("g", <<N(1), N(2)>>), F("g", <<N(3), N(4)>>))}
Exprs == Simple \cup Two \cup Loose

\* f is recursive and prints on its way, g has two parameters and comes back
\* from the middle of a loop, or runs off its end.
Base(e) == If(In("lt", V("n"), N(1)), <<Ret(e)>>, <<>>)
FunctionF ==
    Def("f", <<"n">>, <<Base(N(0)), Puts(V("n")),
                        Ret(In("add", V("n"), F("f", <<In("sub", V("n"), N(1))>>)))>>)
FunctionG ==
    Def("g", <<"m", "n">>, <<While(In("lt", V("m"), V("n")),
                                   <<If(V("b"), <<Ret(In("sub", V("n"), V("m")))>>, <<>>), Puts(V("a")),
                                     Ret(V("a"))>>)>>)
Functions == <<FunctionF, FunctionG>>

Begin(x) == LetBe(V("a"), x)
Body(e) ==
    {<<Puts(e)>>, <<LetBe(V("b"), e), Puts(V("b"))>>, <<If(e, <<Puts(N(1))>>, << <<Puts(V("a"))>> >>)>>,
     <<If(e, <<Puts(V("a"))>>, <<>>), Puts(N(9))>>}
Loop(e) == <<LetBe(V("b"), N(0)),
             While(In("lt", V("b"), N(2)), <<LetBe(V("b"), In("add", V("b"), N(1))), Puts(e)>>),
             Puts(V("b"))>>

SharedTexts ==
    UNION {{Shared(Functions \o <<Begin(x)>> \o b) : b \in Body(e)} : e \in Exprs, x \in {N(0), N(2)}}
    \cup {Shared(<<Begin(N(1))>> \o Loop(e) \o Functions) : e \in Exprs}
    \cup {[Shared(<<Puts(N(1))>>) EXCEPT !.blanks = 2]}

\* Assignments as expressions, and functions with variables of their own.
Locals ==
    {<<LetBe(V("t"), In("add", V("n"), N(1))), Just(F("p", <<In("sub", V("n"), N(1))>>)), Puts(V("t"))>>,
     <<Just(Sets("t", Sets("a", N(5)))), If(V("n"), <<LetBe(V("n"), N(0)), Just(F("p", <<N(0)>>))>>, <<>>),
       Puts(V("t")), Puts(V("a"))>>,
     <<LetBe(V("n"), In("add", V("n"), N(1))), LetBe(V("u"), V("n")), LetBe(V("n"), N(7)),
       Ret(In("add", V("u"), V("a")))>>}
OnlyTexts ==
    {OnlyC(<<Begin(N(3)), Def("p", <<"n">>, <<Base(N(8))>> \o b), Puts(F("p", <<N(2)>>)), Puts(V("a")),
             Puts(V("t"))>>) : b \in Locals}
    \cup {OnlyC(<<Just(Sets("a", Sets("b", e))), Puts(In("add", V("a"), V("b")))>>) :
            e \in {N(1), Pre("await", N(1)), In("add", V("a"), N(2))}}
    \cup {OnlyC(<<Puts(In("add", N(1), P(Sets("a", N(2))))), Puts(V("a"))>>)}

\* What the machine's model has no values for: compiled, and not run.
Heavy ==
    {In(role, V("a"), In("mul", V("b"), N(2))) : role \in {"bit_or", "bit_xor", "bit_and", "div", "gt", "ge"}}
    \cup {In("bit_or", V("a"), In("bit_xor", V("b"), In("bit_and", N(1), In("ge", V("a"), N(2))))),
          In("mul", P(In("add", V("a"), N(1))), Pre("neg", N(2))), Elem("a", In("div", N(2), V("b"))),
          Pre("len", ListOf(<<N(1), V("a"), F("f", <<N(1)>>)>>)), In("add", Elem("a", N(1)), Elem("b", V("a"))),
          ListOf(<<Elem("a", N(0)), ListOf(<<N(1)>>)>>)}
HeavyTexts ==
    {Written(<<Puts(e), LetBe(Elem("a", e), In("sub", e, N(1))), Def("f", <<"n">>, <<Puts(e), Ret(V("n"))>>)>>,
             TRUE, FALSE) : e \in Heavy}
    \cup {Written(<<LetBe(target, N(1))>>, FALSE, FALSE) :
            target \in {N(1), P(V("a")), F("f", <<>>), P(In("add", V("a"), N(1)))}}

\* A call with two arguments as the second argument of another.
Nested ==
    {Shared(<<Def("f", <<"n", "m">>, <<Ret(In("add", V("n"), V("m")))>>), Puts(F("f", <<l, r>>))>>) :
        l \in {N(1), F("f", <<N(2), N(3)>>)}, r \in {N(1), F("f", <<N(2), N(3)>>)}}

MCTexts == IF Family = "nested" THEN Nested ELSE SharedTexts \cup OnlyTexts \cup HeavyTexts
=============================================================================
