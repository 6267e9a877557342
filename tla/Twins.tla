-------------------------------- MODULE Twins --------------------------------
(***************************************************************************)
(* A program written for both twins, vm-c and vm-basic, compiled by each   *)
(* and run on the machine (examples/vm-c/src/lib.rs, compile and run;      *)
(* examples/vm-c/tests/agree.rs).                                          *)
(*                                                                         *)
(* Compiling is one step; running is the steps of Machine, alone with its  *)
(* globals.  What a program means is told of the program as it is written, *)
(* with no registers, no jumps and no slots.                               *)
(***************************************************************************)
EXTENDS Values, Sequences, SequencesExt, FiniteSets, TLC

CONSTANTS
    Texts,      \* the programs that may be written
    Reply,      \* what a driver answers an `await` with
    MaxSlots,   \* global slots of the store
    MAX_DEPTH,  \* frames a call stack may hold
    MAX_REGS    \* registers a frame may hold

VARIABLES
    text,       \* the program that is written
    built,      \* what each twin made of it: a compiled program, or none
    program, pc, frames, awaiting, output, globals, step, handed    \* Machine's

vars == <<text, built, program, pc, frames, awaiting, output, globals, step, handed>>

C == INSTANCE VmC
Basic == INSTANCE VmBasic
VM == INSTANCE Machine WITH
        Programs <- {}, Slots <- 0..MaxSlots - 1, ExtValues <- {}, Answers <- {Reply}, Foreign <- {}

TwinNames == {"c", "basic"}
NotBuilt == [t \in TwinNames |-> <<>>]

Init ==
    /\ text \in Texts
    /\ built = NotBuilt
    /\ program = <<>> /\ pc = 0 /\ frames = <<>> /\ awaiting = VM!None
    /\ output = <<>>
    /\ globals = [s \in 0..MaxSlots - 1 |-> Nil]
    /\ step = "written"
    /\ handed = Nil

\* compile(), by each twin that can say the program.
Build ==
    /\ step = "written"
    /\ built' = [t \in TwinNames |->
                    IF t = "c" THEN C!Compile(text)
                    ELSE IF text.both THEN Basic!Compile(text) ELSE <<>>]
    /\ step' = "built"
    /\ UNCHANGED <<text, program, pc, frames, awaiting, output, globals, handed>>

\* run(): a store and a machine for what one of them made.
Load(twin) ==
    /\ step = "built" /\ text.runs
    /\ built[twin] # <<>>
    /\ program' = built[twin][1]
    /\ LET m == VM!Fresh(program') IN pc' = m.pc /\ frames' = m.frames /\ awaiting' = m.awaiting
    /\ step' = "idle"
    /\ UNCHANGED <<text, built, output, globals, handed>>

Run ==
    /\ \/ VM!Compute \/ VM!Jump \/ VM!PrintOp \/ VM!Halt \/ VM!LoadGlobal \/ VM!StoreGlobal
       \/ VM!Call \/ VM!Return \/ VM!Await \/ VM!Resume \/ VM!Answer
    /\ UNCHANGED <<text, built>>

Next == Build \/ (\E twin \in TwinNames : Load(twin)) \/ Run

Spec == Init /\ [][Next]_vars

---------------------------------------------------------------------------
(* What a program means: the world after a statement or an expression, and *)
(* whether it ended with a value, with a `return` or in failure.           *)

Ends(world, end, v) == [world |-> world, end |-> end, v |-> v]
Means(world, v) == Ends(world, "value", v)
AndThen(e, Rest(_, _)) == IF e.end = "value" THEN Rest(e.v, e.world) ELSE e
Yields(world, v) == IF v \in {Error, Panic} THEN Ends(world, "failure", Nil) ELSE Means(world, v)

RECURSIVE Assigned(_), AssignedIn(_)
AssignedIn(x) ==
    IF x.form # "infix" THEN {}
    ELSE (IF x.role = "assign" THEN {x.args[1].name} ELSE AssignedIn(x.args[1]))
            \cup AssignedIn(x.args[2])
\* The names a body assigns, and the functions it defines, the last of a name.
Assigned(body) ==
    UNION {LET s == body[i]
           IN CASE s.form = "let" -> {s.target.name}
                [] s.form = "eval" -> AssignedIn(s.value)
                [] s.form = "while" -> Assigned(s.body)
                [] s.form = "if" ->
                        Assigned(s.body) \cup IF s.alt = <<>> THEN {} ELSE Assigned(s.alt[1])
                [] OTHER -> {} : i \in DOMAIN body}
FunctionsIn(body) ==
    FoldLeft(LAMBDA fs, s : IF s.form = "define" THEN (s.name :> s) @@ fs ELSE fs, <<>>, body)

RECURSIVE OfExpr(_, _), OfBody(_, _), OfWhile(_, _)
Lookup(world, name) ==
    IF world.calls # <<>> /\ name \in DOMAIN Head(world.calls) THEN Head(world.calls)[name]
    ELSE IF name \in DOMAIN world.globals THEN world.globals[name] ELSE Nil
Bind(world, name, v) ==
    IF world.calls # <<>> /\ name \in DOMAIN Head(world.calls)
    THEN [world EXCEPT !.calls[1] = (name :> v) @@ @]
    ELSE [world EXCEPT !.globals = (name :> v) @@ @]
OfAll(es, world) ==
    FoldLeft(LAMBDA e, x : AndThen(e, LAMBDA vs, w :
                               AndThen(OfExpr(x, w), LAMBDA v, w2 : Means(w2, Append(vs, v)))),
             Means(world, <<>>), es)
\* A call has its parameters and the names its body assigns to itself.
OfCall(name, args, world) ==
    LET f == world.functions[name]
        own == [n \in Range(f.params) \cup Assigned(f.body) |->
                    IF Contains(f.params, n)
                    THEN args[CHOOSE i \in DOMAIN args : f.params[i] = n] ELSE Nil]
    IN IF \/ name \notin DOMAIN world.functions
          \/ Len(args) # Len(f.params)
          \/ Len(world.calls) + 1 >= MAX_DEPTH
       THEN Ends(world, "failure", Nil)
       ELSE LET e == OfBody(f.body, [world EXCEPT !.calls = <<own>> \o @])
                home == [e.world EXCEPT !.calls = world.calls]
            IN CASE e.end = "return" -> Means(home, e.v)
                 [] e.end = "value" -> Means(home, Nil)
                 [] OTHER -> Ends(home, "failure", Nil)
OfInfix(x, world) ==
    CASE x.role = "assign" ->
            AndThen(OfExpr(x.args[2], world),
                    LAMBDA v, w : Means(Bind(w, x.args[1].name, v), v))
      [] x.role \in {"or_else", "and_then"} ->
            AndThen(OfExpr(x.args[1], world), LAMBDA v, w :
                IF Truthy(v) = (x.role = "or_else") THEN Means(w, v) ELSE OfExpr(x.args[2], w))
      [] OTHER ->
            AndThen(OfAll(x.args, world), LAMBDA vs, w :
                Yields(w, Binary(CASE x.role = "add" -> "Add" [] x.role = "sub" -> "Sub"
                                     [] x.role = "eq" -> "Eq" [] x.role = "ne" -> "Ne"
                                     [] x.role = "lt" -> "Lt" [] x.role = "le" -> "Le",
                                   vs[1], vs[2])))
OfExpr(x, world) ==
    CASE x.form = "num" -> Means(world, Num(x.num))
      [] x.form = "str" -> Means(world, Str(x.str))
      [] x.form = "var" -> Means(world, Lookup(world, x.name))
      [] x.form = "paren" -> OfExpr(x.args[1], world)
      [] x.form = "call" -> AndThen(OfAll(x.args, world), LAMBDA vs, w : OfCall(x.name, vs, w))
      [] x.form = "infix" -> OfInfix(x, world)
      [] x.form = "prefix" ->
            AndThen(OfExpr(x.args[1], world), LAMBDA v, w :
                CASE x.role = "await" -> Means(w, Reply)
                  [] x.role = "not" -> Yields(w, Unary("Not", v))
                  [] x.role = "neg" -> Yields(w, Unary("Neg", v)))
OfWhile(s, world) ==
    AndThen(OfExpr(s.value, world), LAMBDA test, w :
        IF Truthy(test) THEN AndThen(OfBody(s.body, w), LAMBDA v, w2 : OfWhile(s, w2))
        ELSE Means(w, Nil))
OfStmt(s, world) ==
    CASE s.form = "print" ->
            AndThen(OfExpr(s.value, world),
                    LAMBDA v, w : Means([w EXCEPT !.shown = Append(@, v)], Nil))
      [] s.form = "let" ->
            AndThen(OfExpr(s.value, world), LAMBDA v, w : Means(Bind(w, s.target.name, v), Nil))
      [] s.form = "eval" -> OfExpr(s.value, world)
      [] s.form = "if" ->
            AndThen(OfExpr(s.value, world), LAMBDA v, w :
                IF Truthy(v) THEN OfBody(s.body, w)
                ELSE IF s.alt = <<>> THEN Means(w, Nil) ELSE OfBody(s.alt[1], w))
      [] s.form = "while" -> OfWhile(s, world)
      [] s.form = "return" -> AndThen(OfExpr(s.value, world), LAMBDA v, w : Ends(w, "return", v))
      [] s.form = "define" -> Means(world, Nil)
OfBody(body, world) ==
    FoldLeft(LAMBDA e, s : AndThen(e, LAMBDA v, w : OfStmt(s, w)), Means(world, Nil), body)
OfText(t) ==
    OfBody(t.body, [globals |-> <<>>, calls |-> <<>>, shown |-> <<>>,
                    functions |-> FunctionsIn(t.body)])

---------------------------------------------------------------------------
(* Properties                                                              *)

\* The same program, compiled from two grammars that share no line by two
\* generated front ends, is the same code: the same instructions, registers,
\* slots, functions and frames.
TwinsAgree == step = "built" /\ text.both => built["c"] = built["basic"]

\* What is compiled is what Machine takes for granted of programs, and what its
\* theorems assume: every instruction of every function finds its registers in
\* the frame it is run in, every jump its target, and the store has the slots.
CodeFits ==
    step = "built" /\ text.runs =>
        \A t \in TwinNames : built[t] # <<>> =>
            LET p == built[t][1]
            IN /\ VM!WellFormed(p)
               /\ \A i \in DOMAIN p.code :
                     p.code[i].op \in {"LoadGlobal", "StoreGlobal"} => p.code[i].slot < p.globals

\* A program prints what it means, in order, and ends as it should: registers
\* handed out and taken back, jumps over code that was not there yet, arguments
\* that have to lie side by side and names that are a register in one place and
\* a slot in another come to what is written.  It fails when that fails, with
\* everything before it printed.
RunsAsWritten ==
    step \in VM!Stopped =>
        LET meant == OfText(text)
        IN /\ output = meant.world.shown
           /\ (step = "failed") = (meant.end = "failure")
           /\ step # "panicked"
=============================================================================
