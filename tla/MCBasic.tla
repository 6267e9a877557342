------------------------------- MODULE MCBasic -------------------------------
(***************************************************************************)
(* Small BASIC programs.  Those of `Control` have a function, a            *)
(* subroutine and a line that runs them; the others print one expression,  *)
(* of BASIC's operators or of a table with a right-associative and a       *)
(* postfix tier.                                                           *)
(***************************************************************************)
EXTENDS Basic

\* A statement has every field a statement may have.
Statement(kind, exprs, lines) ==
    [kind |-> kind, label |-> "none", exprs |-> exprs, lines |-> lines, name |-> "none",
     closing |-> "none", params |-> <<>>, signal |-> "none", target |-> "none"]
ExitTo(signal) == [Statement("exit", <<>>, <<>>) EXCEPT !.signal = signal]
LetBe(name, e) == [Statement("let", <<e>>, <<>>) EXCEPT !.name = name]
PrintOf(exprs) == Statement("print", exprs, <<>>)
ReturnOf(e) == Statement("return", <<e>>, <<>>)
GotoLine(target) == [Statement("goto", <<>>, <<>>) EXCEPT !.target = target]
CallSub(name) == [Statement("call", <<>>, <<>>) EXCEPT !.name = name]
IfThen(e, s) == Statement("if", <<e>>, <<s>>)
WhileDo(e, body) == Statement("while", <<e>>, body)
ForDo(name, exprs, body, closing) ==
    [Statement("for", exprs, body) EXCEPT !.name = name, !.closing = closing]
SubOf(name, body) == [Statement("sub", <<>>, body) EXCEPT !.name = name]
FunctionOf(name, params, body) ==
    [Statement("function", <<>>, body) EXCEPT !.name = name, !.params = params]
ProgramOf(lines) == Statement("program", <<>>, lines)
Labelled10(s) == [s EXCEPT !.label = "10"]

NumAtom(n) == [kind |-> "num", num |-> n, exprs |-> <<>>]
StrAtom(s) == [kind |-> "str", str |-> s, exprs |-> <<>>]
VarAtom(x) == [kind |-> "var", name |-> x, exprs |-> <<>>]
CallAtom(f, args) == [kind |-> "call_fn", name |-> f, exprs |-> args]
ParenAtom(e) == [kind |-> "paren", exprs |-> <<e>>]

\* BASIC's own tiers, and others.  A token is named for its role: sub is -.
BasicTable ==
    [info |-> [or |-> Op(1, "infix", "left"), and |-> Op(2, "infix", "left"),
               eq |-> Op(4, "infix", "left"), lt |-> Op(4, "infix", "left"),
               add |-> Op(5, "infix", "left"), sub |-> Op(5, "infix", "left"),
               rem |-> Op(6, "infix", "left"), mul |-> Op(7, "infix", "left")],
     prefix |-> [not |-> Op(3, "prefix", "right"), sub |-> Op(8, "prefix", "right")]]
OtherTable ==
    [info |-> [eq |-> Op(2, "infix", "left"), sub |-> Op(5, "infix", "right"),
               mul |-> Op(7, "infix", "left"), bang |-> Op(9, "postfix", "left")],
     prefix |-> [not |-> Op(3, "prefix", "right"), sub |-> Op(6, "prefix", "right")]]

---------------------------------------------------------------------------
(* Control                                                                 *)

Streams ==
    [one |-> <<NumAtom(1)>>, two |-> <<NumAtom(2)>>, n |-> <<VarAtom("n")>>,
     minus |-> <<OpToken("sub"), NumAtom(1)>>,
     less |-> <<VarAtom("n"), OpToken("sub"), NumAtom(1)>>,
     positive |-> <<NumAtom(0), OpToken("lt"), VarAtom("n")>>,
     again |-> <<CallAtom("f", <<"less">>)>>,
     other |-> <<CallAtom("g", <<"one">>)>>,
     f1 |-> <<CallAtom("f", <<"one">>)>>]

Jumps ==
    {ExitTo(s) : s \in ForControl \cup WhileControl \cup {"EXIT SUB"}}
        \cup {ReturnOf("n"), GotoLine("10")}
Simple == Jumps \cup {LetBe("n", "less"), LetBe("i", "one"), LetBe("n", "again"), LetBe("i", "other"),
                    CallSub("s")}
Wrapped ==
    Simple
        \cup {IfThen("n", s) : s \in {ReturnOf("again"), ExitTo("EXIT WHILE"), SubOf("s", <<>>)}}
        \cup {ForDo("i", <<"one", "two">>, <<s>>, "i") : s \in Simple}
        \cup {WhileDo("positive", <<s, LetBe("n", "less")>>) : s \in Simple}
Plain == {ReturnOf("n"), ExitTo("CONTINUE WHILE")}
Mains ==
    {ForDo("i", <<"one", "two">>, <<CallSub("s")>>, "none"),
     ForDo("n", <<"two", "one", "minus">>, <<PrintOf(<<"f1">>)>>, "n"),
     WhileDo("positive", <<CallSub("s"), LetBe("n", "less")>>),
     PrintOf(<<"f1">>)}

Control ==
    {[program |-> ProgramOf(<<FunctionOf("f", <<"n">>, <<b[1], ReturnOf("n")>>),
                              FunctionOf("g", <<"m">>, <<LetBe("n", "two"), ReturnOf("n")>>),
                              SubOf("s", <<LetBe("n", "less"), b[2]>>),
                              LetBe("n", "one"), main,
                              Labelled10(LetBe("n", "less")),
                              IfThen("positive", GotoLine("10"))>>),
      streams |-> Streams, table |-> BasicTable] :
        b \in UNION {Wrapped \X Plain, Plain \X Wrapped}, main \in Mains}

\* What is said when a definition is wrong.
Wrong ==
    {[program |-> ProgramOf(lines), streams |-> Streams, table |-> BasicTable] :
        lines \in {<<SubOf("s", <<>>), SubOf("s", <<>>)>>,
                   <<FunctionOf("f", <<"n", "n">>, <<>>)>>,
                   <<FunctionOf("f", <<>>, <<>>), PrintOf(<<"f1">>)>>,
                   <<CallSub("s")>>, <<PrintOf(<<"f1", "n">>)>>, <<GotoLine("20")>>,
                   <<Labelled10(PrintOf(<<>>)), Labelled10(PrintOf(<<>>))>>,
                   <<ForDo("i", <<"one", "two">>, <<>>, "n")>>,
                   <<ForDo("i", <<"one", "two">>, <<>>, "i"), IfThen("one", PrintOf(<<>>))>>}}

---------------------------------------------------------------------------
(* Expressions: prefix* atom postfix* (infix prefix* atom postfix* )*      *)

PrefixRuns == {<<>>, <<"not">>, <<"sub">>, <<"not", "sub">>, <<"sub", "not">>}
Operators(ops) == [i \in DOMAIN ops |-> OpToken(ops[i])]
Operands(postfixes) ==
    {Operators(pre) \o <<NumAtom(1)>> \o Operators(post) : pre \in PrefixRuns, post \in postfixes}
Chains(firsts, operands, infixes) ==
    UNION {
        {a \o <<OpToken(o)>> \o b : a \in firsts, b \in operands, o \in infixes},
        {a \o <<OpToken(o)>> \o b \o <<OpToken(p), ParenAtom("t")>> :
            a \in firsts, b \in operands, o \in infixes, p \in infixes}}
Printed(stream, table) ==
    [program |-> ProgramOf(<<PrintOf(<<"e">>)>>),
     streams |-> [e |-> stream, t |-> <<StrAtom(<<"t">>)>>],
     table |-> table]
Plainly == Operands({<<>>})
BasicExpressions ==
    {Printed(e, BasicTable) : e \in Chains(Plainly, Plainly, {"or", "eq", "sub"})}
OtherExpressions ==
    {Printed(e, OtherTable) :
        e \in Chains(Plainly, Operands({<<>>, <<"bang">>}), {"eq", "sub", "mul"})}

MCSources == UNION {Control, Wrong, BasicExpressions, OtherExpressions}
=============================================================================
