-------------------------------- MODULE Basic --------------------------------
(***************************************************************************)
(* The BASIC interpreter (examples/basic-interp): what is written by hand  *)
(* (src/lib.rs, src/handlers), what the generator made from its grammar    *)
(* (src/generated) and the part of nh-runtime they rest on (ctx.rs,        *)
(* error.rs).  It is the repository's own example of an evaluator with     *)
(* non-local jumps, deferred bodies and calls.                             *)
(*                                                                         *)
(* Evaluation is recursive in the code.  Here the activations of the       *)
(* recursion are the frames of `stack`, and `back` is the Result that the  *)
(* activation on top has just been given by the one it called.             *)
(*                                                                         *)
(* A node is a statement (with its line, and the line's label) or part of  *)
(* an expression.  `lines` are its deferred statements, `exprs` its        *)
(* operands.  The place of a node is the path to it from the program: i is *)
(* a step to its i-th line, -i to its i-th operand.  An operand of a       *)
(* statement or of a function call is the name of an expression, which     *)
(* `streams` gives as parsed and `ast` as folded.                          *)
(***************************************************************************)
EXTENDS Folding, FiniteSets, TLC

CONSTANTS
    Sources,        \* what may be run: a program, its expressions, its operator table
    MaxCallDepth,   \* MAX_CALL_DEPTH
    MaxOutput       \* bound on the lines printed

ASSUME BasicAssumption == MaxCallDepth \in Nat /\ MaxOutput \in Nat

VARIABLES
    source,     \* the program being run, as parsed
    ast,        \* its expressions, folded
    stack,      \* the activations of eval_*, innermost last
    back,       \* the Result just returned to the one on top, or NoResult
    spans,      \* Ctx::spans
    vars,       \* Interp::vars
    subs,       \* Interp::subs: the body of each SUB defined, by its place
    funcs,      \* Interp::funcs
    depth,      \* Interp::depth
    frames,     \* Interp::frames
    ret,        \* Interp::ret
    jump,       \* Interp::jump
    output,     \* Interp::output
    outcome     \* what eval_source returned

interp == <<vars, subs, funcs, depth, frames, ret, jump, output>>
allvars == <<source, ast, stack, back, spans, interp, outcome>>

---------------------------------------------------------------------------
(* Values and results                                                      *)

Num(n) == [type |-> "num", num |-> n]
\* A text is the sequence of the pieces it was put together from.
Str(pieces) == [type |-> "str", str |-> pieces]
Void == [type |-> "nothing"]
\* An Option is a sequence of at most one element.
None == <<>>
Some(x) == <<x>>

IsNum(v) == v.type = "num"
IsStr(v) == v.type = "str"
Truthy(v) == \/ IsNum(v) /\ v.num # 0
             \/ IsStr(v) /\ v.str # <<>>
Display(v) == IF IsNum(v) THEN <<v.num>> ELSE IF IsStr(v) THEN v.str ELSE <<>>
Flag(b) == Num(IF b THEN -1 ELSE 0)

\* A Result: a value, an error or a signal, the latter two with where they were
\* raised.  Nowhere is the place of an error made without a context.
Ok(v) == [is |-> "ok", value |-> v]
Error(at) == [is |-> "error", at |-> at]
Signal(label, at) == [is |-> "signal", label |-> label, at |-> at]
Nowhere == <<0>>
NoResult == [is |-> "no result"]

Failed(r) == r.is \in {"error", "signal"}
IsSignal(r, labels) == r.is = "signal" /\ r.label \in labels
ForControl == {"EXIT FOR", "CONTINUE FOR"}
WhileControl == {"EXIT WHILE", "CONTINUE WHILE"}

\* Operators for Interp: every operand is evaluated.  What is no value is an
\* error, and one without a place.  Numbers are whole here, so a quotient loses
\* the fraction that the code, dividing f64, keeps.
Abs(n) == IF n < 0 THEN -n ELSE n
Truncated(a, b) == (Abs(a) \div Abs(b)) * (IF (a < 0) = (b < 0) THEN 1 ELSE -1)
Arithmetic(op, a, b) ==
    CASE op = "add" -> Ok(Num(a + b))
      [] op = "sub" -> Ok(Num(a - b))
      [] op = "mul" -> Ok(Num(a * b))
      [] op = "div" /\ b # 0 -> Ok(Num(Truncated(a, b)))
      [] op = "rem" /\ b # 0 -> Ok(Num(a - b * Truncated(a, b)))
      [] op = "le" -> Ok(Flag(a <= b))
      [] op = "ge" -> Ok(Flag(a >= b))
      [] op = "lt" -> Ok(Flag(a < b))
      [] op = "gt" -> Ok(Flag(a > b))
      [] OTHER -> Error(Nowhere)
Binary(op, l, r) ==
    CASE op = "or" -> Ok(Flag(Truthy(l) \/ Truthy(r)))
      [] op = "and" -> Ok(Flag(Truthy(l) /\ Truthy(r)))
      [] op = "eq" -> Ok(Flag(l = r))
      [] op = "ne" -> Ok(Flag(l # r))
      [] op = "add" /\ (IsStr(l) \/ IsStr(r)) -> Ok(Str(Display(l) \o Display(r)))
      [] op \notin {"or", "and", "eq", "ne"} /\ IsNum(l) /\ IsNum(r) -> Arithmetic(op, l.num, r.num)
      [] OTHER -> Error(Nowhere)
Unary(op, v) ==
    CASE op = "not" -> Ok(Flag(~Truthy(v)))
      [] op = "sub" /\ IsNum(v) -> Ok(Num(-v.num))
      [] OTHER -> Error(Nowhere)
Operate(node, vals) ==
    CASE node.kind = "infix" -> Binary(node.op, vals[1], vals[2])
      [] node.kind = "prefix" -> Unary(node.op, vals[1])
      [] node.kind = "postfix" -> Error(Nowhere)

---------------------------------------------------------------------------
(* The tree                                                                *)

\* Nodes of a folded expression that are not rules of the grammar with a handler.
Unlabelled == {"infix", "prefix", "postfix", "paren"}
HasSpan(node) == node.kind \notin Unlabelled

\* One step down a tree with the folded expressions exprs, and the node at a place.
Child(exprs, node, i) ==
    IF i > 0 THEN node.lines[i]
    ELSE IF node.kind \in {"infix", "prefix", "postfix"} THEN node.exprs[-i]
    ELSE exprs[node.exprs[-i]]
NodeOf(program, exprs, place) ==
    FoldLeft(LAMBDA node, i : Child(exprs, node, i), program, place)
Node(place) == NodeOf(source.program, ast, place)

\* The expressions of a source, folded, if they can be.
Exprs(s) == [e \in DOMAIN s.streams |-> Fold(s.table, s.streams[e])]
Built(exprs) == \A e \in DOMAIN exprs : exprs[e] # Unfolded

\* What the grammar builds (basic.nh): a program at the root alone, statements with
\* lines of their own, a WHILE with one condition, and no statement for an operand.
Statements == {"let", "print", "exit", "return", "goto", "call", "if", "for", "while", "sub", "function"}
Bodied == {"program", "if", "for", "while", "sub", "function"}
\* The places of the parts of a node, and of all there are in a tree.
Parts(node, place) ==
    {Append(place, i) : i \in IF node.kind \in Bodied THEN DOMAIN node.lines ELSE {}}
        \cup {Append(place, -i) : i \in DOMAIN node.exprs}
Places(program, exprs) ==
    LET below[ps \in SUBSET Seq(Int)] ==
            IF ps = {} THEN {}
            ELSE ps \cup below[UNION {Parts(NodeOf(program, exprs, p), p) : p \in ps}]
    IN below[{<<>>}]
Grammatical(program, exprs) ==
    /\ <<>> \in Places(program, exprs) /\ NodeOf(program, exprs, <<>>) = program
    /\ \A p \in Places(program, exprs) :
          LET node == NodeOf(program, exprs, p)
          IN /\ p \in Seq(Int)
             /\ node.exprs \in Seq(Range(node.exprs))
             /\ node.kind \in Bodied => node.lines \in Seq(Range(node.lines))
             /\ node.kind = "while" => Len(node.exprs) = 1
             /\ node.kind = "program" <=> p = <<>>
             /\ p # <<>> /\ Last(p) < 0 => node.kind \notin Statements
             /\ Parts(node, p) \subseteq Places(program, exprs)
ASSUME GrammarAssumption ==
    \A s \in Sources :
        LET exprs == Exprs(s) IN Built(exprs) => Grammatical(s.program, exprs)
ASSUME StreamsAssumption ==
    \A s \in Sources :
        IsTable(s.table) /\ \A e \in DOMAIN s.streams : IsStream(s.table, s.streams[e])

\* The operands evaluated before the handler is called: all but a lazy one.
Strict(node) == IF node.kind = "while" THEN 0 ELSE Len(node.exprs)

---------------------------------------------------------------------------
(* Calling and returning                                                   *)

\* An activation of eval_* for the node `at`: the operands it has, what its
\* handler is doing, and for a handler that runs lines, whose and which.
Activation(place) ==
    [at |-> place, vals |-> <<>>, doing |-> "operands", body |-> place, line |-> 0, count |-> 0]

Top == Last(stack)
Here == Last(spans)
ReplaceTop(t) == Append(Front(stack), t)

\* eval_* of the node at a place is called by an activation, now t.
Enter(t, place) ==
    /\ stack' = Append(ReplaceTop(t), Activation(place))
    /\ spans' = IF HasSpan(Node(place)) THEN Append(spans, place) ELSE spans
    /\ back' = NoResult

\* The activation on top returns r.
Leave(r) ==
    /\ stack' = Front(stack)
    /\ spans' = IF HasSpan(Node(Top.at)) THEN Front(spans) ELSE spans
    /\ back' = r
    /\ outcome' = IF Len(stack) = 1 THEN r ELSE outcome

\* It goes on with its own work.
Continue(t) ==
    /\ stack' = ReplaceTop(t)
    /\ back' = NoResult
    /\ UNCHANGED <<spans, outcome>>

\* It is about to run the lines of the node at a place.
StartBody(place) ==
    /\ stack' = ReplaceTop([Top EXCEPT !.doing = "body", !.body = place, !.line = 0])
    /\ back' = Ok(Void)
    /\ UNCHANGED <<spans, outcome>>

Running == stack # <<>>
\* The top activation has been given a result while doing something.
Given(doing) == Running /\ back # NoResult /\ Top.doing = doing
\* It has its operands and is about to call the handler of one of these kinds.
Ready(kinds) ==
    /\ Running /\ back = NoResult
    /\ Top.doing = "operands"
    /\ Node(Top.at).kind \in kinds
    /\ Len(Top.vals) = Strict(Node(Top.at))

EvalOperand ==
    /\ Running /\ back = NoResult
    /\ Top.doing = "operands"
    /\ Len(Top.vals) < Strict(Node(Top.at))
    /\ Enter(Top, Append(Top.at, -(Len(Top.vals) + 1)))
    /\ UNCHANGED <<source, ast, interp, outcome>>

TakeOperand ==
    /\ Given("operands")
    /\ ~Failed(back)
    /\ Continue([Top EXCEPT !.vals = Append(@, back.value)])
    /\ UNCHANGED <<source, ast, interp>>

---------------------------------------------------------------------------
(* Expressions and simple statements                                       *)

Lookup(name) ==
    IF frames # <<>> /\ name \in DOMAIN Last(frames) THEN Some(Last(frames)[name])
    ELSE IF name \in DOMAIN vars THEN Some(vars[name])
    ELSE None

\* A map with a name and what it stands for.
Inserted(map, name, x) == [n \in DOMAIN map \cup {name} |-> IF n = name THEN x ELSE map[n]]

\* A mutant of Store: to the innermost frame that has the name.
StoreThroughFrames(name, v) ==
    LET having == {i \in DOMAIN frames : name \in DOMAIN frames[i]}
    IN IF having # {}
       THEN /\ frames' = [frames EXCEPT ![CHOOSE i \in having : \A j \in having : j <= i][name] = v]
            /\ UNCHANGED vars
       ELSE /\ vars' = Inserted(vars, name, v)
            /\ UNCHANGED frames
Store(name, v) ==
    IF frames # <<>> /\ name \in DOMAIN Last(frames)
    THEN /\ frames' = [frames EXCEPT ![Len(frames)][name] = v]
         /\ UNCHANGED vars
    ELSE /\ vars' = Inserted(vars, name, v)
         /\ UNCHANGED frames

Primary ==
    /\ Ready({"num", "str", "var"})
    /\ LET node == Node(Top.at)
       IN Leave(CASE node.kind = "num" -> Ok(Num(node.num))
                  [] node.kind = "str" -> Ok(Str(node.str))
                  [] node.kind = "var" ->
                       IF Lookup(node.name) = None THEN Error(Here) ELSE Ok(Lookup(node.name)[1]))
    /\ UNCHANGED <<source, ast, interp>>

EvalOperator ==
    /\ Ready(Unlabelled)
    /\ Leave(IF Node(Top.at).kind = "paren" THEN Ok(Top.vals[1])
             ELSE Operate(Node(Top.at), Top.vals))
    /\ UNCHANGED <<source, ast, interp>>

Let ==
    /\ Ready({"let"})
    /\ Store(Node(Top.at).name, Top.vals[1])
    /\ Leave(Ok(Void))
    /\ UNCHANGED <<source, ast, subs, funcs, depth, ret, jump, output>>

PrintLine ==
    /\ Ready({"print"})
    /\ Len(output) < MaxOutput
    /\ output' = Append(output, [i \in 1..Len(Top.vals) |-> Display(Top.vals[i])])
    /\ Leave(Ok(Void))
    /\ UNCHANGED <<source, ast, vars, subs, funcs, depth, frames, ret, jump>>

\* EXIT and CONTINUE, RETURN, GOTO.
Exit ==
    /\ Ready({"exit"})
    /\ \E label \in ForControl \cup WhileControl \cup {"EXIT SUB"} :
          /\ Node(Top.at).signal = label
          /\ Leave(Signal(label, Here))
    /\ UNCHANGED <<source, ast, interp>>

Return ==
    /\ Ready({"return"})
    /\ ret' = Some(Top.vals[1])
    /\ Leave(Signal("RETURN", Here))
    /\ UNCHANGED <<source, ast, vars, subs, funcs, depth, frames, jump, output>>

Goto ==
    /\ Ready({"goto"})
    /\ jump' = Some(Node(Top.at).target)
    /\ Leave(Signal("goto", Here))
    /\ UNCHANGED <<source, ast, vars, subs, funcs, depth, frames, ret, output>>

\* SUB and FUNCTION: the body is kept, to be run at every later call.
DefineSub ==
    /\ Ready({"sub"})
    /\ LET name == Node(Top.at).name
       IN IF name \in DOMAIN subs
          THEN Leave(Error(Here)) /\ UNCHANGED subs
          ELSE Leave(Ok(Void)) /\ subs' = Inserted(subs, name, Top.at)
    /\ UNCHANGED <<source, ast, vars, funcs, depth, frames, ret, jump, output>>

DefineFunction ==
    /\ Ready({"function"})
    /\ LET node == Node(Top.at)
       IN IF node.name \in DOMAIN funcs \/ ~IsInjective(node.params)
          THEN Leave(Error(Here)) /\ UNCHANGED funcs
          ELSE Leave(Ok(Void)) /\ funcs' = Inserted(funcs, node.name, Top.at)
    /\ UNCHANGED <<source, ast, vars, subs, depth, frames, ret, jump, output>>

---------------------------------------------------------------------------
(* Statements that run others                                              *)

Lines == Node(Top.body).lines

\* The next line of a body, after the one on top has been done.
NextLine ==
    /\ Given("body")
    /\ ~Failed(back)
    /\ Top.line < Len(Lines)
    /\ Enter([Top EXCEPT !.line = @ + 1], Append(Top.body, Top.line + 1))
    /\ UNCHANGED <<source, ast, interp, outcome>>

LastLineDone(kind) ==
    /\ Given("body")
    /\ Node(Top.at).kind = kind
    /\ ~Failed(back)
    /\ Top.line = Len(Lines)

If ==
    /\ Ready({"if"})
    /\ IF Truthy(Top.vals[1]) THEN StartBody(Top.at) ELSE Leave(Ok(Void))
    /\ UNCHANGED <<source, ast, interp>>

EndIf ==
    /\ LastLineDone("if")
    /\ Leave(back)
    /\ UNCHANGED <<source, ast, interp>>

\* FOR: the bounds are evaluated once; the counter is the handler's, and the
\* variable is given its value at every pass and once more at the end.
Step == IF Len(Top.vals) = 3 THEN Top.vals[3] ELSE Num(1)
\* A mutant of NextCount: from the variable.
NextCountOfVariable == Lookup(Node(Top.at).name)[1].num + Step.num
NextCount == Top.count + Step.num

Pass(count) == Continue([Top EXCEPT !.doing = "pass", !.count = count])

For ==
    /\ Ready({"for"})
    /\ LET node == Node(Top.at)
       IN IF \/ node.closing \notin {node.name, "none"}
             \/ ~IsNum(Top.vals[1]) \/ ~IsNum(Top.vals[2]) \/ ~IsNum(Step)
             \/ Step = Num(0)
          THEN Leave(Error(Here))
          ELSE Pass(Top.vals[1].num)
    /\ UNCHANGED <<source, ast, interp>>

ForPass ==
    /\ Running /\ back = NoResult
    /\ Top.doing = "pass"
    /\ Store(Node(Top.at).name, Num(Top.count))
    /\ LET limit == Top.vals[2].num
       IN IF \/ Step.num > 0 /\ Top.count <= limit
             \/ Step.num < 0 /\ Top.count >= limit
          THEN StartBody(Top.at)
          ELSE Leave(Ok(Void))
    /\ UNCHANGED <<source, ast, subs, funcs, depth, ret, jump, output>>

ForNext ==
    /\ \/ LastLineDone("for")
       \/ /\ Given("body")
          /\ Node(Top.at).kind = "for"
          /\ IsSignal(back, {"CONTINUE FOR"})
    /\ Pass(NextCount)
    /\ UNCHANGED <<source, ast, interp>>

ExitFor ==
    /\ Given("body")
    /\ Node(Top.at).kind = "for"
    /\ IsSignal(back, {"EXIT FOR"})
    /\ Store(Node(Top.at).name, Num(Top.count))
    /\ Leave(Ok(Void))
    /\ UNCHANGED <<source, ast, subs, funcs, depth, ret, jump, output>>

\* WHILE: the condition is evaluated again at every pass.
While ==
    /\ \/ Ready({"while"})
       \/ LastLineDone("while")
       \/ /\ Given("body")
          /\ Node(Top.at).kind = "while"
          /\ IsSignal(back, {"CONTINUE WHILE"})
    /\ Enter([Top EXCEPT !.doing = "test"], Append(Top.at, -1))
    /\ UNCHANGED <<source, ast, interp, outcome>>

WhilePass ==
    /\ Given("test")
    /\ ~Failed(back)
    /\ IF Truthy(back.value) THEN StartBody(Top.at) ELSE Leave(Ok(Void))
    /\ UNCHANGED <<source, ast, interp>>

ExitWhile ==
    /\ Given("body")
    /\ Node(Top.at).kind = "while"
    /\ IsSignal(back, {"EXIT WHILE"})
    /\ Leave(Ok(Void))
    /\ UNCHANGED <<source, ast, interp>>

\* enter_call refuses, with an error that has no place, and leave_call.
\* A mutant: a failure skips leave_call.
TooDeep == depth + 1 > MaxCallDepth

EnterCall == depth' = depth + 1

LeaveCallAfterSuccess == depth' = IF Failed(back) THEN depth ELSE depth - 1
LeaveCall == depth' = depth - 1

\* CALL.  A subroutine is a boundary for loops; a mutant forgets WHILE.
Call ==
    /\ Ready({"call"})
    /\ LET name == Node(Top.at).name
       IN IF name \notin DOMAIN subs
          THEN Leave(Error(Here)) /\ UNCHANGED depth
          ELSE IF TooDeep
          THEN Leave(Error(Nowhere)) /\ UNCHANGED depth
          ELSE StartBody(subs[name]) /\ EnterCall
    /\ UNCHANGED <<source, ast, vars, subs, funcs, frames, ret, jump, output>>

CallResultWithoutWhile(r) ==
    IF ~Failed(r) \/ IsSignal(r, {"EXIT SUB"}) THEN Ok(Void)
    ELSE IF IsSignal(r, ForControl) THEN Error(Here)
    ELSE r
CallResult(r) ==
    IF ~Failed(r) \/ IsSignal(r, {"EXIT SUB"}) THEN Ok(Void)
    ELSE IF IsSignal(r, ForControl \cup WhileControl) THEN Error(Here)
    ELSE r

EndCall ==
    /\ \/ LastLineDone("call")
       \/ Given("body") /\ Node(Top.at).kind = "call" /\ Failed(back)
    /\ LeaveCall
    /\ Leave(CallResult(back))
    /\ UNCHANGED <<source, ast, vars, subs, funcs, frames, ret, jump, output>>

\* A function called in an expression, with a frame for its parameters.
CallFn ==
    /\ Ready({"call_fn"})
    /\ LET name == Node(Top.at).name
       IN IF name \notin DOMAIN funcs
          THEN Leave(Error(Here)) /\ UNCHANGED <<depth, frames>>
          ELSE LET params == Node(funcs[name]).params
               IN IF Len(params) # Len(Top.vals)
                  THEN Leave(Error(Here)) /\ UNCHANGED <<depth, frames>>
                  ELSE IF TooDeep
                  THEN Leave(Error(Nowhere)) /\ UNCHANGED <<depth, frames>>
                  ELSE /\ EnterCall
                       /\ frames' = Append(frames, [p \in Range(params) |->
                                                       Top.vals[CHOOSE i \in DOMAIN params : params[i] = p]])
                       /\ StartBody(funcs[name])
    /\ UNCHANGED <<source, ast, vars, subs, funcs, ret, jump, output>>

\* host.ret.take(), and a mutant that clones.
CloneReturned == ret' = ret
TakeReturned == ret' = IF IsSignal(back, {"RETURN"}) THEN None ELSE ret

EndCallFn ==
    /\ \/ LastLineDone("call_fn")
       \/ Given("body") /\ Node(Top.at).kind = "call_fn" /\ Failed(back)
    /\ LeaveCall
    /\ frames' = Front(frames)
    /\ TakeReturned
    /\ LET returned == IsSignal(back, {"RETURN"})
       IN Leave(IF returned /\ ret # None THEN Ok(ret[1])
                ELSE IF \/ returned \/ ~Failed(back)
                        \/ IsSignal(back, ForControl \cup WhileControl)
                THEN Error(Here)
                ELSE back)
    /\ UNCHANGED <<source, ast, vars, subs, funcs, jump, output>>

---------------------------------------------------------------------------
(* The program                                                             *)

\* The lines of the program that have a label, by their index.
Labelled(target) == {i \in DOMAIN source.program.lines : source.program.lines[i].label = target}

Program ==
    /\ Ready({"program"})
    /\ IF \E i \in DOMAIN Node(<<>>).lines :
            LET label == Node(<<>>).lines[i].label
            IN label # "none" /\ Labelled(label) # {i}
       THEN Leave(Error(Here))
       ELSE StartBody(<<>>)
    /\ UNCHANGED <<source, ast, interp>>

\* GOTO unwinds to the program, which goes on where it says.
Jump ==
    /\ Given("body")
    /\ Node(Top.at).kind = "program"
    /\ IsSignal(back, {"goto"})
    /\ jump' = None
    /\ IF Labelled(jump[1]) = {}
       THEN Leave(Error(Here))
       ELSE /\ LET i == CHOOSE i \in Labelled(jump[1]) : TRUE
               IN Enter([Top EXCEPT !.line = i], <<i>>)
            /\ UNCHANGED outcome
    /\ UNCHANGED <<source, ast, vars, subs, funcs, depth, frames, ret, output>>

EndProgram ==
    /\ LastLineDone("program")
    /\ Leave(Ok(Void))
    /\ UNCHANGED <<source, ast, interp>>

\* `?`: a failure the activation on top has nothing to do with.
Catches(kind, r) ==
    \/ kind \in {"call", "call_fn"}
    \/ kind = "for" /\ IsSignal(r, ForControl)
    \/ kind = "while" /\ IsSignal(r, WhileControl)
    \/ kind = "program" /\ IsSignal(r, {"goto"})
Propagate ==
    /\ Running
    /\ Failed(back)
    /\ Top.doing = "body" => ~Catches(Node(Top.at).kind, back)
    /\ Leave(back)
    /\ UNCHANGED <<source, ast, interp>>

---------------------------------------------------------------------------

\* The tree has been built, its expressions folded, and evaluation begins,
\* unless an expression could not be.
Init ==
    /\ source \in Sources
    /\ ast = Exprs(source)
    /\ stack = IF Built(ast) THEN <<Activation(<<>>)>> ELSE <<>>
    /\ spans = IF Built(ast) THEN << <<>> >> ELSE <<>>
    /\ outcome = IF Built(ast) THEN NoResult ELSE Error(<<>>)
    /\ back = NoResult
    /\ vars = <<>> /\ subs = <<>> /\ funcs = <<>>
    /\ depth = 0 /\ frames = <<>>
    /\ ret = None /\ jump = None
    /\ output = <<>>

Next ==
    \/ Program \/ Jump \/ EndProgram
    \/ EvalOperand \/ TakeOperand \/ Primary \/ EvalOperator
    \/ Let \/ PrintLine \/ Exit \/ Return \/ Goto \/ DefineSub \/ DefineFunction
    \/ NextLine \/ If \/ EndIf
    \/ For \/ ForPass \/ ForNext \/ ExitFor
    \/ While \/ WhilePass \/ ExitWhile
    \/ Call \/ EndCall \/ CallFn \/ EndCallFn
    \/ Propagate

Spec == Init /\ [][Next]_allvars /\ WF_allvars(Next)

---------------------------------------------------------------------------
(* Properties                                                              *)

Results == {"ok", "error", "signal", "no result"}
Kinds == {"operands", "body", "pass", "test"}

\* Types: activations have places, calls are no deeper than MAX_CALL_DEPTH,
\* and ret and jump are options.
TypeOK ==
    /\ \A i \in DOMAIN stack :
          /\ stack[i].at \in Seq(Int) /\ stack[i].body \in Seq(Int)
          /\ stack[i].doing \in Kinds
          /\ stack[i].line \in Nat /\ stack[i].count \in Int
    /\ back.is \in Results /\ outcome.is \in Results
    /\ spans \in Seq(Seq(Int))
    /\ depth \in 0..MaxCallDepth
    /\ Len(ret) <= 1 /\ Len(jump) <= 1
    /\ Len(output) <= MaxOutput

\* The activations of nodes that have a span, and those that run the body of a
\* node of one of some kinds.
Spanned == {i \in DOMAIN stack : HasSpan(Node(stack[i].at))}
InBody(kinds) == {i \in DOMAIN stack : stack[i].doing = "body" /\ Node(stack[i].at).kind \in kinds}

\* How many indices of a set are no larger than i.
Rank(indices, i) == Cardinality({j \in indices : j <= i})

\* What is entered is left, whichever way it ends (ctx.rs, enter and leave;
\* lib.rs, enter_call and leave_call; call_fn.rs, the frames): the spans of the
\* context are those of the nodes being evaluated, in order, the depth counts the
\* calls whose bodies run, and each function called has one frame.
BooksBalance ==
    /\ Len(spans) = Cardinality(Spanned)
    /\ \A i \in Spanned : spans[Rank(Spanned, i)] = stack[i].at
    /\ depth = Cardinality(InBody({"call", "call_fn"}))
    /\ Len(frames) = Cardinality(InBody({"call_fn"}))

\* The value of RETURN and the target of GOTO ride on the interpreter beside the
\* signal (ret.rs, goto.rs): they are there exactly while it is on its way, so
\* that no construct ever finds the one an earlier jump left.
PayloadsTravel ==
    /\ ret # None <=> IsSignal(back, {"RETURN"})
    /\ jump # None <=> IsSignal(back, {"goto"})

\* EXIT and CONTINUE reach the innermost loop of their kind that is around them
\* in the text (loop.rs, while.rs; call.rs and call_fn.rs are the boundaries),
\* never one that only happens to be running.
LoopControlIsLexical ==
    \A kind \in {"for", "while"} :
        /\ Given("body")
        /\ Node(Top.at).kind = kind
        /\ IsSignal(back, IF kind = "for" THEN ForControl ELSE WhileControl)
        => /\ IsStrictPrefix(Top.at, back.at)
           /\ \A n \in Len(Top.at) + 1..Len(back.at) - 1 :
                 Node(SubSeq(back.at, 1, n)).kind \notin {kind, "sub", "function"}

\* What was called last of what has not ended: a subroutine or a function.
LastCall == stack[Max(InBody({"call", "call_fn"}))]

\* A place stands in the lines of a definition, and of none inside it.
InLinesOf(definition, at) ==
    /\ IsStrictPrefix(definition, at)
    /\ \A n \in Len(definition) + 1..Len(at) - 1 :
          Node(SubSeq(at, 1, n)).kind \notin {"sub", "function"}

\* A step changes parameters in place in the innermost function's frame alone, and
\* only by a statement in the text of what was called last (lib.rs, store and
\* frames: without them "recursion would have every frame writing over the same n").
\* That may be the function itself, or a subroutine it has called: a subroutine has
\* no frame of its own, and assigns to the function's parameter where it uses that
\* name, whatever the comment on frames says ("everything it touches is global").
\* Whoever called the function keeps what it was given.
ParametersKept ==
    [][\A i \in DOMAIN frames \cap DOMAIN frames' :
          frames'[i] # frames[i] => i = Len(frames) /\ InLinesOf(LastCall.body, Top.at)]_allvars

\* Every expression is folded into the one tree the operator table defines for
\* it (ops.rs, build; dispatch.rs, op_info and prefix_info).
FoldedAsDeclared ==
    Len(stack) = 1 /\ Top.doing = "operands" =>
        \A e \in DOMAIN ast : Declared(source.table, source.streams[e]) = {ast[e]}

\* A run ends, with a value or a failure, unless it tests a WHILE or takes a GOTO
\* for ever: recursion is bounded, and a FOR does not depend on what its body
\* does to its variable (loop.rs; lib.rs, MAX_CALL_DEPTH).
RunsEnd == []<>(outcome # NoResult \/ Given("test") \/ IsSignal(back, {"goto"}))

=============================================================================
