-------------------------------- MODULE Pebble --------------------------------
(***************************************************************************)
(* Pebble (examples/pebble), the language of the repository's guide, from  *)
(* the text to the diagnostics: the pairs its grammar makes of a program   *)
(* (pebble.pest), the tree built from them (generated/views.rs, ast.rs),   *)
(* its evaluation (generated/dispatch.rs, src/lib.rs, src/handlers) and    *)
(* eval_source, which runs one source and collects what went wrong in it   *)
(* (generated/run.rs).                                                     *)
(*                                                                         *)
(* A program is given as it is written: a record for every statement and   *)
(* expression, and `damaged` for a statement the parse recovers from.      *)
(* Evaluation is sequential, so it is an operator; a step of the           *)
(* specification is a call of eval_source.  One Interp and one Ctx serve   *)
(* all calls, as the comment on `reported_before` says they may.           *)
(***************************************************************************)
EXTENDS Trees, Folding, TLC

CONSTANTS
    Texts,      \* the programs that may be run
    MaxDepth,   \* MAX_DEPTH
    MaxRuns     \* bound on the calls of eval_source

VARIABLES
    host,       \* Interp
    cx,         \* Ctx: its spans and its diagnostics
    texts,      \* the sources given so far; their numbers are their FileIds
    last        \* what the last call returned

vars == <<host, cx, texts, last>>

None == <<>>
Some(x) == <<x>>

---------------------------------------------------------------------------
(* What pest makes of a program.  A place is a path through what is        *)
(* written; a pair has the place of what it matched.                       *)

Keyword(word, at) == Leaf(word, "", at, word)
Token(rule, tag, text, at) == Leaf(rule, tag, at, text)

RECURSIVE Operands(_, _), PairsOfStmt(_, _, _)
PairOfExpr(e, tag, at) == Pair("expr", tag, Operands(e, at), at)
PairsOfExprs(es, at) ==
    Made(Len(es), LAMBDA i : PairOfExpr(es[i], "args", Append(at, i)))
PairOfAtom(e, at) ==
    LET alternative(rule, kids) == <<Pair(rule, "", kids, at)>>
    IN Pair("atom", "",
        CASE e.form = "number" -> alternative("atom_number", <<Token("NUMBER_", "value", e.num, at)>>)
          [] e.form = "text" -> alternative("atom_text", <<Token("TEXT", "text", e.text, at)>>)
          [] e.form = "name" -> alternative("atom_name", <<Token("IDENT", "name", e.name, at)>>)
          [] e.form = "point" ->
                alternative("atom_point", <<PairOfExpr(e.args[1], "x", Append(at, 1)),
                                            PairOfExpr(e.args[2], "y", Append(at, 2))>>)
          [] e.form = "call" ->
                alternative("atom_call",
                    <<Token("IDENT", "name", e.name, at)>>
                      \o IF e.args = <<>> THEN <<>>
                         ELSE <<Pair("exprs", "args", PairsOfExprs(e.args, at), at)>>)
          [] e.form = "paren" -> <<PairOfExpr(e.args[1], "inner", Append(at, 1))>>, at)
\* An expression is a flat stream: `nh_pre_op* atom (nh_bin_op nh_pre_op* atom)*`.
Operands(e, at) ==
    CASE e.form = "infix" ->
            Operands(e.args[1], Append(at, 1)) \o <<Leaf(e.op, "", at, e.op)>>
                \o Operands(e.args[2], Append(at, 2))
      [] e.form = "prefix" -> <<Leaf(e.op, "", at, e.op)>> \o Operands(e.args[1], Append(at, 1))
      [] OTHER -> <<PairOfAtom(e, at)>>

PairsOfBody(body, at) ==
    Made(Len(body), LAMBDA i : PairsOfStmt(body[i], "body", Append(at, i)))
PairOfBlock(body, tag, at) == Pair("block", tag, PairsOfBody(body, at), at)
\* A word of the grammar that is reserved is a rule of its own, and so a pair.
PairsOfElse(otherwise, at) ==
    IF otherwise = None THEN <<>>
    ELSE <<Pair("else_tail", "otherwise",
                <<Keyword("nh_kw_else", at), PairOfBlock(otherwise[1], "body", at)>>, at)>>
PairOfAlternative(s, at) ==
    LET value(e) == PairOfExpr(e, "value", Append(at, 1))
    IN CASE s.form = "let" ->
              Pair("stmt_declare", "",
                  <<Keyword("nh_kw_let", at), Token("IDENT", "name", s.name, at), value(s.value)>>, at)
         [] s.form = "show" -> Pair("stmt_show", "", <<Keyword("nh_kw_show", at), value(s.value)>>, at)
         [] s.form = "if" ->
              Pair("stmt_branch", "",
                  <<Keyword("nh_kw_if", at), PairOfExpr(s.value, "cond", Append(at, 1)),
                    PairOfBlock(s.body, "then", Append(at, 2))>>
                  \o PairsOfElse(s.otherwise, Append(at, 3)), at)
         [] s.form = "while" ->
              Pair("stmt_loop", "",
                  <<Keyword("nh_kw_while", at), PairOfExpr(s.value, "cond", Append(at, 1)),
                    PairOfBlock(s.body, "body", Append(at, 2))>>, at)
         [] s.form = "fn" ->
              Pair("stmt_define", "",
                  <<Keyword("nh_kw_fn", at), Token("IDENT", "name", s.name, at)>>
                  \o [i \in 1..Len(s.params) |-> Token("IDENT", "params", s.params[i], at)]
                  \o <<PairOfBlock(s.body, "body", Append(at, 2))>>, at)
         [] s.form = "return" ->
              Pair("stmt_give", "",
                  <<Keyword("nh_kw_return", at)>>
                  \o IF s.value = None THEN <<>> ELSE <<value(s.value[1])>>, at)
         [] s.form = "frame" ->
              Pair("stmt_frame", "",
                  <<Keyword("nh_kw_begin", at), Keyword("nh_kw_frame", at)>>
                  \o PairsOfBody(s.body, Append(at, 2))
                  \o <<Keyword("nh_kw_end", at), Keyword("nh_kw_frame", at)>>, at)
         [] s.form = "eval" -> Pair("stmt_evaluate", "", <<value(s.value)>>, at)
\* `stmt = { nh_ok_stmt | nh_error_stmt }`.
PairsOfStmt(s, tag, at) ==
    Pair("stmt", tag,
         <<IF s.form = "damaged" THEN Pair("nh_error_stmt", "", <<>>, at)
           ELSE Pair("nh_ok_stmt", "", <<PairOfAlternative(s, at)>>, at)>>, at)
PairOfProgram(text, file) ==
    Pair("program", "", PairsOfBody(text.body, <<file>>) \o <<Leaf("EOI", "", <<file>>, "")>>, <<file>>)

---------------------------------------------------------------------------
(* The views: what each binding of an alternative reads                    *)

ProgramView(p) == [body |-> TaggedAll(p, "body")]
StmtDeclareView(p) == [name |-> Tagged(p, "name"), value |-> Tagged(p, "value")]
StmtShowView(p) == [value |-> Tagged(p, "value")]
StmtBranchView(p) ==
    [cond |-> Tagged(p, "cond"), then |-> Tagged(p, "then"), otherwise |-> TaggedOption(p, "otherwise")]
StmtLoopView(p) == [cond |-> Tagged(p, "cond"), body |-> Tagged(p, "body")]
StmtDefineView(p) ==
    [name |-> Tagged(p, "name"), params |-> TaggedAll(p, "params"), body |-> Tagged(p, "body")]
StmtGiveView(p) == [value |-> TaggedOption(p, "value")]
StmtFrameView(p) == [body |-> TaggedAll(p, "body")]
StmtEvaluateView(p) == [value |-> Tagged(p, "value")]
BlockView(p) == [body |-> TaggedAll(p, "body")]
AtomNumberView(p) == [value |-> Tagged(p, "value")]
AtomTextView(p) == [text |-> Tagged(p, "text")]
AtomCallView(p) == [name |-> Tagged(p, "name"), args |-> TaggedOption(p, "args")]
AtomNameView(p) == [name |-> Tagged(p, "name")]
AtomPointView(p) == [x |-> Tagged(p, "x"), y |-> Tagged(p, "y")]
ExprsView(p) == [args |-> TaggedAll(p, "args")]

---------------------------------------------------------------------------
(* Building the tree.  A node keeps its span, and the places below it that *)
(* could not be built.                                                     *)

Table ==
    [info |->
        [o \in {"nh_op_eq"} |-> Op(1, "infix", "right")]
        @@ [o \in {"nh_op_pipe_pipe"} |-> Op(2, "infix", "left")]
        @@ [o \in {"nh_op_amp_amp"} |-> Op(3, "infix", "left")]
        @@ [o \in {"nh_op_bang_eq", "nh_op_eq_eq", "nh_op_gt", "nh_op_gt_eq", "nh_op_lt",
                   "nh_op_lt_eq"} |-> Op(4, "infix", "left")]
        @@ [o \in {"nh_op_plus", "nh_op_minus"} |-> Op(5, "infix", "left")]
        @@ [o \in {"nh_op_star", "nh_op_slash", "nh_op_percent"} |-> Op(6, "infix", "left")]
        @@ [o \in {"nh_op_bang"} |-> Op(7, "prefix", "right")],
     prefix |-> [o \in {"nh_op_bang", "nh_op_minus"} |-> Op(7, "prefix", "right")]]

RECURSIVE BuildExpr(_), BuildStmt(_), BuildAtom(_), FromOpTree(_, _)
BuildEach(pairs, Build(_)) == Made(Len(pairs), LAMBDA i : Build(pairs[i]))

StreamToken(p) ==
    IF p.rule \in DOMAIN Table.info THEN OpToken(p.rule) ELSE [kind |-> "pair", pair |-> p]
BuildExpr(p) ==
    LET tree == Fold(Table, BuildEach(p.kids, StreamToken))
    IN IF tree = Unfolded THEN Unbuilt(p) ELSE FromOpTree(tree, p.at)
FromOpTree(tree, at) ==
    IF tree.kind = "pair" THEN BuildAtom(tree.pair)
    ELSE [kind |-> tree.kind, op |-> tree.op, span |-> at,
          exprs |-> BuildEach(tree.exprs, LAMBDA t : FromOpTree(t, at))]

BuildBlock(p) ==
    [kind |-> "block", body |-> BuildEach(BlockView(p).body, BuildStmt), span |-> p.at]
BuildProgram(p) ==
    [kind |-> "program", body |-> BuildEach(ProgramView(p).body, BuildStmt), span |-> p.at]

BuildDeclare(p) ==
    LET view == StmtDeclareView(p)
    IN [kind |-> "declare", name |-> view.name.text, value |-> BuildExpr(view.value),
        span |-> p.at]
BuildShow(p) == [kind |-> "show", value |-> BuildExpr(StmtShowView(p).value), span |-> p.at]
\* The rule of `otherwise` delegates to `block`, and is built as one.
BuildBranch(p) ==
    LET view == StmtBranchView(p)
    IN [kind |-> "branch", cond |-> BuildExpr(view.cond), then |-> BuildBlock(view.then),
        otherwise |-> BuildEach(view.otherwise, BuildBlock), span |-> p.at]
BuildLoop(p) ==
    LET view == StmtLoopView(p)
    IN [kind |-> "loop", cond |-> BuildExpr(view.cond), body |-> BuildBlock(view.body),
        span |-> p.at]
BuildDefine(p) ==
    LET view == StmtDefineView(p)
    IN [kind |-> "define", name |-> view.name.text,
        params |-> [i \in 1..Len(view.params) |-> view.params[i].text],
        body |-> BuildBlock(view.body), span |-> p.at]
BuildGive(p) ==
    [kind |-> "give", value |-> BuildEach(StmtGiveView(p).value, BuildExpr), span |-> p.at]
BuildFrame(p) ==
    [kind |-> "frame", body |-> BuildEach(StmtFrameView(p).body, BuildStmt), span |-> p.at]
BuildEvaluate(p) ==
    [kind |-> "evaluate", value |-> BuildExpr(StmtEvaluateView(p).value), span |-> p.at]
\* A rule without a node of its own is gone through, to its only child.
BuildStmt(p) ==
    CASE p.rule = "stmt_declare" -> BuildDeclare(p)
      [] p.rule = "stmt_show" -> BuildShow(p)
      [] p.rule = "stmt_branch" -> BuildBranch(p)
      [] p.rule = "stmt_loop" -> BuildLoop(p)
      [] p.rule = "stmt_define" -> BuildDefine(p)
      [] p.rule = "stmt_give" -> BuildGive(p)
      [] p.rule = "stmt_frame" -> BuildFrame(p)
      [] p.rule = "stmt_evaluate" -> BuildEvaluate(p)
      [] p.rule = "nh_error_stmt" -> [kind |-> "error", span |-> p.at]
      [] OTHER -> IF HasOnlyChild(p) THEN BuildStmt(OnlyChild(p)) ELSE Unbuilt(p)

BuildNumber(p) == [kind |-> "number", value |-> AtomNumberView(p).value.text, span |-> p.at]
BuildText(p) == [kind |-> "text", text |-> AtomTextView(p).text.text, span |-> p.at]
BuildName(p) == [kind |-> "name", name |-> AtomNameView(p).name.text, span |-> p.at]
BuildPoint(p) ==
    LET view == AtomPointView(p)
    IN [kind |-> "point", x |-> BuildExpr(view.x), y |-> BuildExpr(view.y), span |-> p.at]
BuildExprs(p) ==
    [kind |-> "exprs", args |-> BuildEach(ExprsView(p).args, BuildExpr), span |-> p.at]
BuildCall(p) ==
    LET view == AtomCallView(p)
    IN [kind |-> "call", name |-> view.name.text, args |-> BuildEach(view.args, BuildExprs),
        span |-> p.at]
BuildAtom(p) ==
    CASE p.rule = "atom_number" -> BuildNumber(p)
      [] p.rule = "atom_text" -> BuildText(p)
      [] p.rule = "atom_call" -> BuildCall(p)
      [] p.rule = "atom_name" -> BuildName(p)
      [] p.rule = "atom_point" -> BuildPoint(p)
      [] p.rule = "expr" -> BuildExpr(p)
      [] OTHER -> IF HasOnlyChild(p) THEN BuildAtom(OnlyChild(p)) ELSE Unbuilt(p)

\* The nodes a node is built of, in the order they are built.
Built(node) ==
    CASE node.kind \in {"program", "block", "frame"} -> node.body
      [] node.kind \in {"declare", "show", "evaluate"} -> <<node.value>>
      [] node.kind = "branch" -> <<node.cond, node.then>> \o node.otherwise
      [] node.kind = "loop" -> <<node.cond, node.body>>
      [] node.kind = "define" -> <<node.body>>
      [] node.kind = "give" -> node.value
      [] node.kind = "point" -> <<node.x, node.y>>
      [] node.kind \in {"call", "exprs"} -> node.args
      [] node.kind \in {"infix", "prefix", "postfix"} -> node.exprs
      [] OTHER -> <<>>
\* The nodes that could not be built: the first is the error the whole ends with.
RECURSIVE Broken(_)
Broken(node) ==
    IF node.kind = "unbuilt" THEN <<node.span>>
    ELSE FoldLeft(LAMBDA found, n : found \o Broken(n), <<>>, Built(node))

---------------------------------------------------------------------------
(* Values and results                                                      *)

Null == [type |-> "null"]
Num(n) == [type |-> "num", num |-> n]
\* A text is the sequence of the pieces it was put together from.
Text(pieces) == [type |-> "text", pieces |-> pieces]
Bool(b) == [type |-> "bool", bool |-> b]
Point(x, y) == [type |-> "point", x |-> x, y |-> y]
List(items) == [type |-> "list", items |-> items]

Is(v, type) == v.type = type
IsTrue(v) == v \notin {Null, Bool(FALSE), Num(0)}
Display(v) ==
    CASE Is(v, "null") -> <<"null">>
      [] Is(v, "num") -> <<ToString(v.num)>>
      [] Is(v, "text") -> v.pieces
      [] Is(v, "bool") -> <<IF v.bool THEN "true" ELSE "false">>
      [] Is(v, "point") -> <<"(", ToString(v.x), ", ", ToString(v.y), ")">>

\* A Result.  An error made without a context has no place.
Ok(v) == [is |-> "ok", value |-> v]
Error(at) == [is |-> "error", at |-> at]
Signal(label, at) == [is |-> "signal", label |-> label, at |-> at]
AlreadyReported == [is |-> "reported"]
Nowhere == <<>>

\* Operators for Interp.  Numbers are whole, and divided exactly; the remainder by
\* zero, which is no number, and the order of texts are left out.
Abs(n) == IF n < 0 THEN -n ELSE n
Truncated(a, b) == (Abs(a) \div Abs(b)) * (IF (a < 0) = (b < 0) THEN 1 ELSE -1)
Arithmetic(op, a, b) ==
    CASE op = "nh_op_plus" -> Ok(Num(a + b))
      [] op = "nh_op_minus" -> Ok(Num(a - b))
      [] op = "nh_op_star" -> Ok(Num(a * b))
      [] op = "nh_op_slash" /\ b # 0 -> Ok(Num(Truncated(a, b)))
      [] op = "nh_op_percent" -> Ok(Num(a - b * Truncated(a, b)))
      [] OTHER -> Error(Nowhere)
Compare(op, l, r) ==
    LET numbers == Is(l, "num") /\ Is(r, "num")
    IN Ok(Bool(CASE op = "nh_op_eq_eq" -> l = r
                 [] op = "nh_op_bang_eq" -> l # r
                 [] op = "nh_op_lt" -> numbers /\ l.num < r.num
                 [] op = "nh_op_lt_eq" -> numbers /\ l.num <= r.num
                 [] op = "nh_op_gt" -> numbers /\ l.num > r.num
                 [] op = "nh_op_gt_eq" -> numbers /\ l.num >= r.num))
Comparisons == {o \in DOMAIN Table.info : Table.info[o].prec = 4}
Binary(op, l, r) ==
    CASE op \in Comparisons -> Compare(op, l, r)
      [] op = "nh_op_plus" /\ (Is(l, "text") \/ Is(r, "text")) -> Ok(Text(Display(l) \o Display(r)))
      [] op = "nh_op_plus" /\ Is(l, "point") /\ Is(r, "point") -> Ok(Point(l.x + r.x, l.y + r.y))
      [] op \notin Comparisons /\ Is(l, "num") /\ Is(r, "num") -> Arithmetic(op, l.num, r.num)
      [] OTHER -> Error(Nowhere)
Unary(op, v) ==
    CASE op = "nh_op_bang" -> Ok(Bool(~IsTrue(v)))
      [] op = "nh_op_minus" /\ Is(v, "num") -> Ok(Num(-v.num))
      [] OTHER -> Error(Nowhere)

---------------------------------------------------------------------------
(* Evaluation.  The state passed along has the fields of Interp and, as    *)
(* `spans` and `reports`, those of Ctx; a Done is a state and a Result.    *)

Done(st, r) == [st |-> st, r |-> r]
\* The operator `?`: on with the value, or out.
Then(done, Rest(_, _)) == IF done.r.is = "ok" THEN Rest(done.r.value, done.st) ELSE done

\* Ctx::enter and leave, and what they make of errors and signals.
Enter(st, span) == [st EXCEPT !.spans = Append(@, span)]
Leave(st) == [st EXCEPT !.spans = Front(@)]
Here(st) == IF st.spans = <<>> THEN Nowhere ELSE Last(st.spans)
Fail(st) == Done(st, Error(Here(st)))
Report(st, at) == [st EXCEPT !.reports = Append(@, [what |-> "could not parse", at |-> at])]

\* Interp::set, get and define.
Set(st, name, v) ==
    IF st.frames # <<>> THEN [st EXCEPT !.frames[Len(st.frames)] = (name :> v) @@ @]
    ELSE [st EXCEPT !.vars = (name :> v) @@ @]
Get(st, name) ==
    IF st.frames # <<>> /\ name \in DOMAIN Last(st.frames) THEN Some(Last(st.frames)[name])
    ELSE IF name \in DOMAIN st.vars THEN Some(st.vars[name])
    ELSE None
Define(st, name, f) == [st EXCEPT !.funcs = (name :> f) @@ @]

RECURSIVE Eval(_, _)

\* The values of repeated children; one that failed and was reported is left out.
Each(nodes, st) ==
    FoldLeft(LAMBDA done, n :
                 Then(done, LAMBDA values, s :
                     LET one == Eval(n, s)
                     IN CASE one.r.is = "ok" -> Done(one.st, Ok(Append(values, one.r.value)))
                          [] one.r.is = "reported" -> Done(one.st, Ok(values))
                          [] OTHER -> one),
             Done(st, Ok(<<>>)), nodes)
Optional(nodes, st) ==
    IF nodes = None THEN Done(st, Ok(None))
    ELSE Then(Eval(nodes[1], st), LAMBDA v, s : Done(s, Ok(Some(v))))

\* The handlers: src/handlers.
LastOrNull(values) == IF values = <<>> THEN Null ELSE Last(values)
Program(values, st) == Done(st, Ok(LastOrNull(values)))
Block(values, st) == Done(st, Ok(LastOrNull(values)))
Declare(name, value, st) == Done(Set(st, name, value), Ok(value))
Show(value, st) == Done([st EXCEPT !.output = Append(@, Display(value))], Ok(Null))
Branch(node, cond, st) ==
    IF IsTrue(cond) THEN Eval(node.then, st)
    ELSE IF node.otherwise # None THEN Eval(node.otherwise[1], st)
    ELSE Done(st, Ok(Null))
RECURSIVE Loop(_, _, _)
Loop(node, value, st) ==
    Then(Eval(node.cond, st), LAMBDA test, s :
        IF ~IsTrue(test) THEN Done(s, Ok(value))
        ELSE Then(Eval(node.body, s), LAMBDA v, s2 : Loop(node, v, s2)))
DefineFunction(node, st) ==
    IF IsInjective(node.params)
    THEN Done(Define(st, node.name, [params |-> node.params, body |-> node.body]), Ok(Null))
    ELSE Fail(st)
Give(value, st) ==
    Done([st EXCEPT !.returned = Some(IF value = None THEN Null ELSE value[1])],
         Signal("return", Here(st)))
\* What a frame shows is collected apart and boxed, however its body ends.
Boxed(lines) == <<<<"+">>>> \o [i \in 1..Len(lines) |-> <<"|">> \o lines[i]] \o <<<<"+">>>>
Frame(node, st) ==
    LET done == FoldLeft(LAMBDA done, s : Then(done, LAMBDA v, t : Eval(s, t)),
                         Done([st EXCEPT !.output = <<>>], Ok(Null)), node.body)
    IN Done([done.st EXCEPT !.output = st.output \o Boxed(@)], done.r)
PointOf(x, y, st) ==
    IF Is(x, "num") /\ Is(y, "num") THEN Done(st, Ok(Point(x.num, y.num))) ELSE Fail(st)
NameOf(name, st) ==
    LET v == Get(st, name) IN IF v = None THEN Fail(st) ELSE Done(st, Ok(v[1]))
\* The frame of a call is popped, however its body ended.
\* A mutant: not when it failed.
HomeUnlessFailed(done) ==
    IF done.r.is = "error" THEN done.st ELSE [done.st EXCEPT !.frames = Front(@)]
Home(done) == [done.st EXCEPT !.frames = Front(@)]

\* Interp::call: a frame of its own; a `return` inside has left its value.
CallFunction(f, args, st) ==
    IF Len(st.frames) >= MaxDepth THEN Done(st, Error(Nowhere))
    ELSE LET frame == [p \in Range(f.params) |->
                          args[CHOOSE i \in 1..Len(f.params) : f.params[i] = p]]
             done == Eval(f.body, [st EXCEPT !.frames = Append(@, frame)])
             home == Home(done)
         IN CASE done.r.is = "signal" ->
                   Done([home EXCEPT !.returned = None],
                        Ok(IF home.returned = None THEN Null ELSE home.returned[1]))
              [] done.r.is = "ok" -> Done(home, Ok(Null))
              [] OTHER -> Done(home, done.r)
Call(name, args, st) ==
    LET items == IF args = None THEN <<>> ELSE args[1].items
    IN IF name \notin DOMAIN st.funcs THEN Fail(st)
       ELSE IF Len(items) # Len(st.funcs[name].params) THEN Fail(st)
       ELSE CallFunction(st.funcs[name], items, st)

\* eval_expr.  An assignment resolves its target before it evaluates its value;
\* a short circuit evaluates its right operand if it wants it.
RECURSIVE PlaceOf(_)
PlaceOf(node) ==
    CASE node.kind = "name" -> Ok(node.name)
      [] node.kind \in {"infix", "prefix", "postfix"} -> Error(node.span)
      [] OTHER -> Error(Nowhere)
Assign(node, st) ==
    LET place == PlaceOf(node.exprs[1])
    IN IF place.is = "error" THEN Done(st, place)
       ELSE Then(Eval(node.exprs[2], st), LAMBDA v, s : Done(Set(s, place.value, v), Ok(v)))
ShortCircuit(node, st) ==
    Then(Eval(node.exprs[1], st), LAMBDA l, s :
        IF IsTrue(l) = (node.op = "nh_op_pipe_pipe") THEN Done(s, Ok(l))
        ELSE Eval(node.exprs[2], s))
EvalInfix(node, st) ==
    CASE node.op = "nh_op_eq" -> Assign(node, st)
      [] node.op \in {"nh_op_pipe_pipe", "nh_op_amp_amp"} -> ShortCircuit(node, st)
      [] OTHER ->
            Then(Eval(node.exprs[1], st), LAMBDA l, s :
                Then(Eval(node.exprs[2], s), LAMBDA r, s2 : Done(s2, Binary(node.op, l, r))))
EvalPrefix(node, st) ==
    Then(Eval(node.exprs[1], st), LAMBDA v, s : Done(s, Unary(node.op, v)))

EvalProgram(node, st) == Then(Each(node.body, st), Program)
EvalDeclare(node, st) == Then(Eval(node.value, st), LAMBDA v, s : Declare(node.name, v, s))
EvalShow(node, st) == Then(Eval(node.value, st), Show)
EvalBranch(node, st) == Then(Eval(node.cond, st), LAMBDA v, s : Branch(node, v, s))
EvalLoop(node, st) == Loop(node, Null, st)
EvalDefine(node, st) == DefineFunction(node, st)
EvalGive(node, st) == Then(Optional(node.value, st), Give)
EvalFrame(node, st) == Frame(node, st)
EvalEvaluate(node, st) == Eval(node.value, st)
EvalBlock(node, st) == Then(Each(node.body, st), Block)
EvalNumber(node, st) == Done(st, Ok(Num(node.value)))
EvalText(node, st) == Done(st, Ok(Text(<<node.text>>)))
EvalCall(node, st) == Then(Optional(node.args, st), LAMBDA v, s : Call(node.name, v, s))
EvalName(node, st) == NameOf(node.name, st)
EvalPoint(node, st) ==
    Then(Eval(node.x, st), LAMBDA x, s : Then(Eval(node.y, s), LAMBDA y, t : PointOf(x, y, t)))
EvalExprs(node, st) == Then(Each(node.args, st), LAMBDA v, s : Done(s, Ok(List(v))))
Inside(node, st) ==
    CASE node.kind = "program" -> EvalProgram(node, st)
      [] node.kind = "declare" -> EvalDeclare(node, st)
      [] node.kind = "show" -> EvalShow(node, st)
      [] node.kind = "branch" -> EvalBranch(node, st)
      [] node.kind = "loop" -> EvalLoop(node, st)
      [] node.kind = "define" -> EvalDefine(node, st)
      [] node.kind = "give" -> EvalGive(node, st)
      [] node.kind = "frame" -> EvalFrame(node, st)
      [] node.kind = "evaluate" -> EvalEvaluate(node, st)
      [] node.kind = "block" -> EvalBlock(node, st)
      [] node.kind = "number" -> EvalNumber(node, st)
      [] node.kind = "text" -> EvalText(node, st)
      [] node.kind = "call" -> EvalCall(node, st)
      [] node.kind = "name" -> EvalName(node, st)
      [] node.kind = "point" -> EvalPoint(node, st)
      [] node.kind = "exprs" -> EvalExprs(node, st)
\* The span of a node is entered, and left however it ends.
Eval(node, st) ==
    CASE node.kind = "error" -> Done(Report(st, node.span), AlreadyReported)
      [] node.kind = "infix" -> EvalInfix(node, st)
      [] node.kind = "prefix" -> EvalPrefix(node, st)
      [] OTHER ->
            LET done == Inside(node, Enter(st, node.span)) IN Done(Leave(done.st), done.r)

---------------------------------------------------------------------------
(* eval_source                                                             *)

\* Error::diagnostic: none if the failure was reported.
DiagnosticOf(r) ==
    CASE r.is = "error" -> <<[what |-> "failed", at |-> r.at]>>
      [] r.is = "signal" -> <<[what |-> r.label, at |-> r.at]>>
      [] OTHER -> <<>>

\* The diagnostics reported during this run and not found by the parse, each once.
\* A mutant: whatever was found before.
MergedAll(found, reported) == found \o reported
Merged(found, reported) ==
    FoldLeft(LAMBDA all, d : IF Contains(all, d) THEN all ELSE Append(all, d), found, reported)

Start == [vars |-> <<>>, frames |-> <<>>, funcs |-> <<>>, returned |-> None, output |-> <<>>]
State(h, c) == h @@ [spans |-> c.spans, reports |-> c.reports]
Interp(st) == [f \in DOMAIN Start |-> st[f]]

Init ==
    /\ host = Start
    /\ cx = [spans |-> <<>>, reports |-> <<>>]
    /\ texts = <<>>
    /\ last = [is |-> "none"]

\* A run of a source that parses, to `pairs` and from them to `tree`: what it
\* leaves of Interp and Ctx, and what it returns.
Run(pairs, tree, file) ==
    LET errors == ErrorsBelow(pairs, {"nh_error_stmt"})
        found == [i \in 1..Len(errors) |-> [what |-> "could not parse", at |-> errors[i]]]
        broken == Broken(tree)
        entered == Enter(State(host, cx), <<file, 0>>)
        done == IF broken # <<>> THEN Done(entered, Error(Head(broken)))
                ELSE Eval(tree, entered)
        after == Leave(done.st)
        reported == SubSeq(after.reports, Len(cx.reports) + 1, Len(after.reports))
        all == Merged(found, reported)
    IN [host |-> Interp(after),
        cx |-> [spans |-> after.spans, reports |-> after.reports],
        last |-> IF done.r.is = "ok" /\ all = <<>> THEN [is |-> "ok", value |-> done.r.value]
                 ELSE [is |-> "err", found |-> all \o DiagnosticOf(done.r)]]

\* The parse fails and nothing is run, or the tree is built and evaluated.
EvalGarbled(text) ==
    /\ text.garbled
    /\ texts' = Append(texts, text)
    /\ last' = [is |-> "err", found |-> <<[what |-> "syntax", at |-> <<Len(texts')>>]>>]
    /\ UNCHANGED <<host, cx>>
EvalSource(text) ==
    /\ ~text.garbled
    /\ texts' = Append(texts, text)
    /\ \E pairs \in {PairOfProgram(text, Len(texts'))} :
       \E tree \in {BuildProgram(pairs)} :
       \E ran \in {Run(pairs, tree, Len(texts'))} :
          host' = ran.host /\ cx' = ran.cx /\ last' = ran.last

Next ==
    /\ Len(texts) < MaxRuns
    /\ \E text \in Texts : EvalGarbled(text) \/ EvalSource(text)

Spec == Init /\ [][Next]_vars

=============================================================================
