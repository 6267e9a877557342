--------------------------------- MODULE VmC ---------------------------------
(***************************************************************************)
(* vm-c (examples/vm-c), a C-flavoured language compiled to bytecode: the  *)
(* pairs its grammar makes of a program (src/lang.pest), the tree built    *)
(* from them (generated/views.rs, ast.rs, place.rs) and the code emitted   *)
(* for it (generated/dispatch.rs).                                         *)
(*                                                                         *)
(* A program is given as it is written: records for statements and         *)
(* expressions, operators by their roles.  Its grammar recovers from       *)
(* nothing and makes no stream that the folding refuses, so building a     *)
(* tree does not fail, and spans are of no consequence.                    *)
(***************************************************************************)
EXTENDS Emission

NodeOf(rule, tag, kids) == Pair(rule, tag, kids, None)
Token(rule, tag, text) == Leaf(rule, tag, None, text)
Keyword(rule) == Token(rule, "", rule)

\* The table of the grammar: roles, and how they are written.
Spelling ==
    [assign |-> "nh_op_eq", or_else |-> "nh_op_pipe_pipe", and_then |-> "nh_op_amp_amp",
     bit_or |-> "nh_op_pipe", bit_xor |-> "nh_op_caret", bit_and |-> "nh_op_amp",
     eq |-> "nh_op_eq_eq", ne |-> "nh_op_bang_eq", lt |-> "nh_op_lt", le |-> "nh_op_lt_eq",
     gt |-> "nh_op_gt", ge |-> "nh_op_gt_eq", add |-> "nh_op_plus", sub |-> "nh_op_minus",
     mul |-> "nh_op_star", div |-> "nh_op_slash",
     neg |-> "nh_op_minus", not |-> "nh_op_bang", await |-> "nh_op_await", len |-> "nh_op_len"]

RECURSIVE Operands(_), PairOfStmt(_)
PairOfExpr(e, tag) == NodeOf("expr", tag, Operands(e))
PairsOfRest(es) ==
    Made(Len(es) - 1, LAMBDA i : NodeOf("more_elem", "rest", <<PairOfExpr(es[i + 1], "value")>>))
PairOfExprs(es, tag) ==
    NodeOf("exprs", tag, <<PairOfExpr(es[1], "first")>> \o PairsOfRest(es))
PairOfPrimary(e) ==
    NodeOf("primary", "",
        CASE e.form = "num" -> <<NodeOf("primary_num", "", <<Token("NUMBER_", "value", e.num)>>)>>
          [] e.form = "str" -> <<NodeOf("primary_str", "", <<Token("STRING", "text", Quoted(e.str))>>)>>
          [] e.form = "elem" ->
                <<NodeOf("primary_elem", "", <<Token("IDENT", "name", e.name),
                                               PairOfExpr(e.args[1], "index")>>)>>
          [] e.form = "call" ->
                <<NodeOf("primary_call", "",
                    <<Token("IDENT", "name", e.name)>>
                      \o IF e.args = <<>> THEN <<>> ELSE <<PairOfExprs(e.args, "args")>>)>>
          [] e.form = "var" -> <<NodeOf("primary_var", "", <<Token("IDENT", "name", e.name)>>)>>
          [] e.form = "list" ->
                <<NodeOf("primary_list", "",
                         <<PairOfExpr(e.args[1], "first")>> \o PairsOfRest(e.args))>>
          [] e.form = "paren" -> <<PairOfExpr(e.args[1], "inner")>>)
Operands(e) ==
    CASE e.form = "infix" ->
            Operands(e.args[1]) \o <<Keyword(Spelling[e.role])>> \o Operands(e.args[2])
      [] e.form = "prefix" -> <<Keyword(Spelling[e.role])>> \o Operands(e.args[1])
      [] OTHER -> <<NodeOf("atom", "", <<PairOfPrimary(e)>>)>>

\* An assignment is an expression here, and so a statement that is only one.
Assignment(target, value) == [form |-> "infix", role |-> "assign", args |-> <<target, value>>]
PairsOfBody(body) == Made(Len(body), LAMBDA i : PairOfStmt(body[i]))
PairOfBlock(body, tag) == NodeOf("block", tag, PairsOfBody(body))
PairOfAlternative(s) ==
    CASE s.form = "print" ->
            NodeOf("stmt_print", "", <<Keyword("nh_kw_print"), PairOfExpr(s.value, "value")>>)
      [] s.form = "if" /\ s.alt # None ->
            NodeOf("stmt_ifelse", "",
                <<Keyword("nh_kw_if"), PairOfExpr(s.value, "cond"), PairOfBlock(s.body, "body"),
                  Keyword("nh_kw_else"), PairOfBlock(s.alt[1], "alt")>>)
      [] s.form = "if" /\ s.alt = None ->
            NodeOf("stmt_iff", "",
                <<Keyword("nh_kw_if"), PairOfExpr(s.value, "cond"), PairOfBlock(s.body, "body")>>)
      [] s.form = "while" ->
            NodeOf("stmt_whilst", "",
                <<Keyword("nh_kw_while"), PairOfExpr(s.value, "cond"), PairOfBlock(s.body, "body")>>)
      [] s.form = "define" ->
            NodeOf("stmt_define", "",
                <<Keyword("nh_kw_fn"), Token("IDENT", "name", s.name)>>
                \o Made(Len(s.params), LAMBDA i : Token("IDENT", "params", s.params[i]))
                \o <<PairOfBlock(s.body, "body")>>)
      [] s.form = "return" ->
            NodeOf("stmt_ret", "", <<Keyword("nh_kw_return"), PairOfExpr(s.value, "value")>>)
      [] s.form = "let" ->
            NodeOf("stmt_eval", "", <<PairOfExpr(Assignment(s.target, s.value), "value")>>)
      [] s.form = "eval" -> NodeOf("stmt_eval", "", <<PairOfExpr(s.value, "value")>>)
PairOfStmt(s) == NodeOf("stmt", "body", <<PairOfAlternative(s)>>)
PairOfProgram(text) ==
    NodeOf("program", "", PairsOfBody(text.body) \o <<Token("EOI", "", "")>>)

---------------------------------------------------------------------------
(* The views                                                               *)

ProgramView(p) == [body |-> TaggedAll(p, "body")]
StmtPrintView(p) == [value |-> Tagged(p, "value")]
StmtIfelseView(p) ==
    [cond |-> Tagged(p, "cond"), body |-> Tagged(p, "body"), alt |-> Tagged(p, "alt")]
StmtIffView(p) == [cond |-> Tagged(p, "cond"), body |-> Tagged(p, "body")]
StmtWhilstView(p) == [cond |-> Tagged(p, "cond"), body |-> Tagged(p, "body")]
StmtDefineView(p) ==
    [name |-> Tagged(p, "name"), params |-> TaggedAll(p, "params"), body |-> Tagged(p, "body")]
StmtRetView(p) == [value |-> Tagged(p, "value")]
StmtEvalView(p) == [value |-> Tagged(p, "value")]
BlockView(p) == [body |-> TaggedAll(p, "body")]
PrimaryNumView(p) == [value |-> Tagged(p, "value")]
PrimaryStrView(p) == [text |-> Tagged(p, "text")]
PrimaryElemView(p) == [name |-> Tagged(p, "name"), index |-> Tagged(p, "index")]
PrimaryCallView(p) == [name |-> Tagged(p, "name"), args |-> TaggedOption(p, "args")]
PrimaryVarView(p) == [name |-> Tagged(p, "name")]
PrimaryListView(p) == [first |-> Tagged(p, "first"), rest |-> TaggedAll(p, "rest")]
MoreElemView(p) == [value |-> Tagged(p, "value")]
ExprsView(p) == [first |-> Tagged(p, "first"), rest |-> TaggedAll(p, "rest")]

---------------------------------------------------------------------------
(* Building the tree                                                       *)

Infixes(prec, ops) == [o \in ops |-> Op(prec, "infix", "left")]
Table ==
    [info |->
        [o \in {"nh_op_eq"} |-> Op(1, "infix", "right")]
        @@ Infixes(2, {"nh_op_pipe_pipe"}) @@ Infixes(3, {"nh_op_amp_amp"})
        @@ Infixes(4, {"nh_op_pipe"}) @@ Infixes(5, {"nh_op_caret"}) @@ Infixes(6, {"nh_op_amp"})
        @@ Infixes(7, {"nh_op_eq_eq", "nh_op_bang_eq", "nh_op_lt", "nh_op_lt_eq", "nh_op_gt",
                       "nh_op_gt_eq"})
        @@ Infixes(8, {"nh_op_plus", "nh_op_minus"}) @@ Infixes(9, {"nh_op_star", "nh_op_slash"})
        @@ [o \in {"nh_op_bang"} |-> Op(11, "prefix", "right")]
        @@ [o \in {"nh_op_await"} |-> Op(12, "prefix", "right")]
        @@ [o \in {"nh_op_len"} |-> Op(13, "prefix", "right")],
     prefix |->
        [nh_op_minus |-> Op(10, "prefix", "right"), nh_op_bang |-> Op(11, "prefix", "right"),
         nh_op_await |-> Op(12, "prefix", "right"), nh_op_len |-> Op(13, "prefix", "right")]]

RECURSIVE BuildExpr(_), FromOpTree(_), BuildStmt(_), BuildPrimary(_)
BuildEach(pairs, Build(_)) == Made(Len(pairs), LAMBDA i : Build(pairs[i]))
StreamToken(p) ==
    IF p.rule \in DOMAIN Table.info THEN OpToken(p.rule) ELSE [kind |-> "pair", pair |-> p]
BuildExpr(p) == FromOpTree(Fold(Table, BuildEach(p.kids, StreamToken)))
FromOpTree(tree) ==
    IF tree.kind = "pair" THEN BuildPrimary(tree.pair)
    ELSE [kind |-> tree.kind, op |-> tree.op, exprs |-> BuildEach(tree.exprs, FromOpTree)]

BuildProgram(p) == [kind |-> "program", body |-> BuildEach(ProgramView(p).body, BuildStmt)]
BuildBlock(p) == [kind |-> "block", body |-> BuildEach(BlockView(p).body, BuildStmt)]
BuildStmtPrint(p) == [kind |-> "print", value |-> BuildExpr(StmtPrintView(p).value)]
BuildStmtIfelse(p) ==
    LET view == StmtIfelseView(p)
    IN [kind |-> "ifelse", cond |-> BuildExpr(view.cond), body |-> BuildBlock(view.body),
        alt |-> BuildBlock(view.alt)]
BuildStmtIff(p) ==
    LET view == StmtIffView(p)
    IN [kind |-> "iff", cond |-> BuildExpr(view.cond), body |-> BuildBlock(view.body)]
BuildStmtWhilst(p) ==
    LET view == StmtWhilstView(p)
    IN [kind |-> "whilst", cond |-> BuildExpr(view.cond), body |-> BuildBlock(view.body)]
BuildStmtDefine(p) ==
    LET view == StmtDefineView(p)
    IN [kind |-> "define", name |-> view.name.text,
        params |-> BuildEach(view.params, LAMBDA n : n.text), body |-> BuildBlock(view.body)]
BuildStmtRet(p) == [kind |-> "ret", value |-> BuildExpr(StmtRetView(p).value)]
BuildStmtEval(p) == [kind |-> "eval", value |-> BuildExpr(StmtEvalView(p).value)]
BuildStmt(p) ==
    CASE p.rule = "stmt_print" -> BuildStmtPrint(p)
      [] p.rule = "stmt_ifelse" -> BuildStmtIfelse(p)
      [] p.rule = "stmt_iff" -> BuildStmtIff(p)
      [] p.rule = "stmt_whilst" -> BuildStmtWhilst(p)
      [] p.rule = "stmt_define" -> BuildStmtDefine(p)
      [] p.rule = "stmt_ret" -> BuildStmtRet(p)
      [] p.rule = "stmt_eval" -> BuildStmtEval(p)
      [] OTHER -> BuildStmt(OnlyChild(p))

BuildMoreElem(p) == [kind |-> "more_elem", value |-> BuildExpr(MoreElemView(p).value)]
BuildExprs(p) ==
    LET view == ExprsView(p)
    IN [kind |-> "exprs", first |-> BuildExpr(view.first), rest |-> BuildEach(view.rest, BuildMoreElem)]
BuildPrimaryNum(p) == [kind |-> "num", value |-> PrimaryNumView(p).value.text]
BuildPrimaryStr(p) == [kind |-> "str", text |-> PrimaryStrView(p).text.text]
BuildPrimaryElem(p) ==
    LET view == PrimaryElemView(p)
    IN [kind |-> "elem", name |-> view.name.text, index |-> BuildExpr(view.index)]
BuildPrimaryCall(p) ==
    LET view == PrimaryCallView(p)
    IN [kind |-> "call", name |-> view.name.text, args |-> BuildEach(view.args, BuildExprs)]
BuildPrimaryVar(p) == [kind |-> "var", name |-> PrimaryVarView(p).name.text]
BuildPrimaryList(p) ==
    LET view == PrimaryListView(p)
    IN [kind |-> "list", first |-> BuildExpr(view.first), rest |-> BuildEach(view.rest, BuildMoreElem)]
BuildPrimary(p) ==
    CASE p.rule = "primary_num" -> BuildPrimaryNum(p)
      [] p.rule = "primary_str" -> BuildPrimaryStr(p)
      [] p.rule = "primary_elem" -> BuildPrimaryElem(p)
      [] p.rule = "primary_call" -> BuildPrimaryCall(p)
      [] p.rule = "primary_var" -> BuildPrimaryVar(p)
      [] p.rule = "primary_list" -> BuildPrimaryList(p)
      [] p.rule = "expr" -> BuildExpr(p)
      [] OTHER -> BuildPrimary(OnlyChild(p))

---------------------------------------------------------------------------
(* Emitting the code.  Children a grammar calls `lazy` are handed over     *)
(* unemitted.                                                              *)

RECURSIVE Eval(_, _)

\* The registers of repeated children, in order.
Each(nodes, em) ==
    FoldLeft(LAMBDA got, n :
                 Then(got, LAMBDA regs, e :
                     Then(Eval(n, e), LAMBDA r, e2 : Got(e2, Append(regs, r)))),
             Got(em, <<>>), nodes)

\* The handlers and the operators that evaluate a child where they want it.
RunIfelse(cond, body, alt, em) ==
    IfElse(cond, em, LAMBDA e : Eval(body, e), LAMBDA e : Eval(alt, e))
RunIff(cond, body, em) == Iff(cond, em, LAMBDA e : Eval(body, e))
RunWhilst(cond, body, em) ==
    Whilst(em, LAMBDA e : Eval(cond, e), LAMBDA e : Eval(body, e))
RunDefine(name, params, body, em) ==
    DefineStmt(name, params, em, LAMBDA e : Eval(body, e))
RunLazily(role, lhs, rhs, em) == ShortCircuit(em, role, lhs, LAMBDA e : Eval(rhs, e))

EvalProgram(node, em) == Then(Each(node.body, em), Program)
EvalBlock(node, em) == Then(Each(node.body, em), Block)
EvalStmtPrint(node, em) == Then(Eval(node.value, em), PrintStmt)
EvalStmtIfelse(node, em) ==
    Then(Eval(node.cond, em), LAMBDA cond, e : RunIfelse(cond, node.body, node.alt, e))
EvalStmtIff(node, em) == Then(Eval(node.cond, em), LAMBDA cond, e : RunIff(cond, node.body, e))
EvalStmtWhilst(node, em) == RunWhilst(node.cond, node.body, em)
EvalStmtDefine(node, em) == RunDefine(node.name, node.params, node.body, em)
EvalStmtRet(node, em) == Then(Eval(node.value, em), Ret)
EvalStmtEval(node, em) == Then(Eval(node.value, em), LAMBDA r, e : Got(ResetRegs(e), r))

EvalPrimaryNum(node, em) == NumberOf(node.value, em)
EvalPrimaryStr(node, em) == StringOf(node.text, em)
EvalPrimaryElem(node, em) ==
    Then(Eval(node.index, em), LAMBDA index, e : ElemOf(node.name, index, e))
EvalPrimaryCall(node, em) ==
    IF node.args = None THEN CallOf(node.name, None, em)
    ELSE Then(Eval(node.args[1], em), LAMBDA base, e : CallOf(node.name, Some(base), e))
EvalPrimaryVar(node, em) == VarOf(node.name, em)
EvalPrimaryList(node, em) ==
    Then(Eval(node.first, em), LAMBDA first, e :
        Then(Each(node.rest, e), LAMBDA rest, e2 : ListOf(first, rest, e2)))
EvalMoreElem(node, em) == Then(Eval(node.value, em), NextElem)
EvalExprs(node, em) ==
    Then(Eval(node.first, em), LAMBDA first, e :
        Then(Each(node.rest, e), LAMBDA rest, e2 : ExprsOf(first, rest, e2)))

\* The target of an assignment is resolved before the value is evaluated, its
\* index with it.
AssignTo(node, em) ==
    LET target == node.exprs[1]
        value == node.exprs[2]
    IN CASE target.kind = "var" ->
              Then(Eval(value, em), LAMBDA r, e : Got(StoreVar(e, target.name, r), r))
         [] target.kind = "elem" ->
              Then(Eval(target.index, em), LAMBDA index, e :
                  Then(Eval(value, e), LAMBDA r, e2 :
                      LET set == SetElem(target.name, index, r, e2)
                      IN Got(Free(set.em, set.reg), r)))
         [] OTHER -> Refuse(em)
RoleOf(op, roles) == CHOOSE role \in roles : Spelling[role] = op
EvalInfix(node, em) ==
    LET role == RoleOf(node.op, DOMAIN Spelling \ {"neg"})
    IN CASE role = "assign" -> AssignTo(node, em)
         [] role \in {"or_else", "and_then"} ->
              Then(Eval(node.exprs[1], em), LAMBDA l, e :
                  RunLazily(role, l, node.exprs[2], e))
         [] OTHER ->
              Then(Eval(node.exprs[1], em), LAMBDA l, e :
                  Then(Eval(node.exprs[2], e), LAMBDA r, e2 : TwoOperands(e2, role, l, r)))
EvalPrefix(node, em) ==
    Then(Eval(node.exprs[1], em), LAMBDA r, e :
        OneOperand(e, RoleOf(node.op, {"neg", "not", "await", "len"}), r))

Eval(node, em) ==
    CASE node.kind = "infix" -> EvalInfix(node, em)
      [] node.kind = "prefix" -> EvalPrefix(node, em)
      [] node.kind = "program" -> EvalProgram(node, em)
      [] node.kind = "block" -> EvalBlock(node, em)
      [] node.kind = "print" -> EvalStmtPrint(node, em)
      [] node.kind = "ifelse" -> EvalStmtIfelse(node, em)
      [] node.kind = "iff" -> EvalStmtIff(node, em)
      [] node.kind = "whilst" -> EvalStmtWhilst(node, em)
      [] node.kind = "define" -> EvalStmtDefine(node, em)
      [] node.kind = "ret" -> EvalStmtRet(node, em)
      [] node.kind = "eval" -> EvalStmtEval(node, em)
      [] node.kind = "num" -> EvalPrimaryNum(node, em)
      [] node.kind = "str" -> EvalPrimaryStr(node, em)
      [] node.kind = "elem" -> EvalPrimaryElem(node, em)
      [] node.kind = "call" -> EvalPrimaryCall(node, em)
      [] node.kind = "var" -> EvalPrimaryVar(node, em)
      [] node.kind = "list" -> EvalPrimaryList(node, em)
      [] node.kind = "more_elem" -> EvalMoreElem(node, em)
      [] node.kind = "exprs" -> EvalExprs(node, em)

\* compile(): the program, or none if the text is refused.
Compile(text) ==
    LET got == Eval(BuildProgram(PairOfProgram(text)), Start)
    IN IF got.ok THEN Some(Finish(got.em)) ELSE None

=============================================================================
