------------------------------- MODULE MCPebble -------------------------------
(***************************************************************************)
(* Pebble for TLC: the texts of a session.                                 *)
(***************************************************************************)
EXTENDS PebbleMeaning

N(n) == [form |-> "number", num |-> n]
T(t) == [form |-> "text", text |-> t]
V(x) == [form |-> "name", name |-> x]
P(x, y) == [form |-> "point", args |-> <<x, y>>]
Paren(e) == [form |-> "paren", args |-> <<e>>]
CallTo(f, args) == [form |-> "call", name |-> f, args |-> args]
In(op, l, r) == [form |-> "infix", op |-> op, args |-> <<l, r>>]
Pre(op, e) == [form |-> "prefix", op |-> op, args |-> <<e>>]
Plus(l, r) == In("nh_op_plus", l, r)
Times(l, r) == In("nh_op_star", l, r)
Less(l, r) == In("nh_op_lt", l, r)
Becomes(l, r) == In("nh_op_eq", l, r)
Both(l, r) == In("nh_op_amp_amp", l, r)
Either(l, r) == In("nh_op_pipe_pipe", l, r)

Let(x, e) == [form |-> "let", name |-> x, value |-> e]
ShowIt(e) == [form |-> "show", value |-> e]
If(c, b, o) == [form |-> "if", value |-> c, body |-> b, otherwise |-> o]
While(c, b) == [form |-> "while", value |-> c, body |-> b]
Fn(f, ps, b) == [form |-> "fn", name |-> f, params |-> ps, body |-> b]
Ret(o) == [form |-> "return", value |-> o]
FrameOf(b) == [form |-> "frame", body |-> b]
Ev(e) == [form |-> "eval", value |-> e]
Damaged == [form |-> "damaged"]

\* Expressions: every operator group, both associativities, places; calls.
Exprs ==
    {Plus(N(1), Times(N(2), V("n"))), Plus(Times(N(2), V("n")), T("a")),
     Plus(P(N(1), V("n")), P(N(1), N(2))), P(T("a"), N(1)),
     Becomes(V("n"), Becomes(Paren(V("m")), Plus(V("n"), N(1)))),
     Pre("nh_op_minus", Paren(Plus(V("n"), N(1)))), In("nh_op_slash", V("n"), V("m"))}
Calls ==
    {Becomes(N(1), CallTo("f", <<N(1)>>)), CallTo("f", <<>>), CallTo("f", <<Becomes(V("n"), N(2))>>),
     Both(V("n"), CallTo("f", <<V("n")>>)), Either(Less(V("n"), N(2)), CallTo("f", <<N(2)>>)),
     Pre("nh_op_bang", In("nh_op_eq_eq", CallTo("f", <<N(0)>>), V("m")))}

\* Functions: recursion to the limit, a return from a loop in a frame, a failure
\* and a damaged statement inside, a name of its own, a parameter given twice.
Bodies ==
    {<<Ret(Some(Plus(V("n"), CallTo("f", <<Plus(V("n"), N(1))>>))))>>,
     <<If(Less(V("n"), N(1)), <<Ret(Some(N(1)))>>, None),
       Ret(Some(Times(CallTo("f", <<Plus(V("n"), N(-1))>>), V("n"))))>>,
     <<FrameOf(<<While(N(1), <<ShowIt(V("n")), Ret(Some(V("m")))>>)>>)>>,
     <<Damaged, Let("m", V("n")), ShowIt(V("m")), Damaged>>,
     <<Ev(Becomes(V("n"), N(3))), ShowIt(V("z"))>>}

Definitions == {Fn("f", <<"n">>, b) : b \in Bodies}
Unfitting == {Fn("f", <<"n", "n">>, <<>>), Fn("f", <<>>, <<ShowIt(V("n")), Ret(None)>>)}

Simple == {Let("n", N(0)), Damaged, Ret(None)} \cup {ShowIt(e) : e \in Calls}
Inner == {ShowIt(V("n")), Damaged, Ret(Some(V("n"))), Ev(CallTo("f", <<V("n")>>))}
Count(s) == While(Less(V("n"), N(2)), <<Ev(Becomes(V("n"), Plus(V("n"), N(1)))), s>>)
Nested ==
    {If(V("n"), <<s>>, None) : s \in Inner}
    \cup {If(V("n"), <<ShowIt(V("n"))>>, Some(<<s>>)) : s \in {ShowIt(T("e")), Damaged}}
    \cup {Count(s) : s \in Inner}
    \cup {FrameOf(<<ShowIt(N(1)), Count(s)>>) : s \in Inner \ {Damaged}}

Source(body) == [garbled |-> FALSE, body |-> body]
Garbled == [garbled |-> TRUE, body |-> <<>>]

\* Programs whose `else` has one statement, and whose frames have none damaged.
MCTexts ==
    {Garbled} \cup {Source(<<s>>) : s \in UNION {Simple, Nested, {ShowIt(e) : e \in Exprs}}}
    \cup {Source(<<d, s>>) : d \in Definitions, s \in Simple \cup Nested}
    \cup {Source(<<d, s>>) : d \in Unfitting, s \in Simple}
=============================================================================
