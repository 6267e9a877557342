---------------------------- MODULE PebbleMeaning ----------------------------
(***************************************************************************)
(* What a Pebble program means, from the guide and the tests               *)
(* (guide/05-control-flow.md to 10-a-new-block.md, tests/run.rs), told of  *)
(* the program as it is written: no pairs, no tree, no spans, no shared    *)
(* fields.  A call has its locals, a return carries its value, a damaged   *)
(* statement costs nothing but itself.  The operators on values are those  *)
(* of Interp.                                                              *)
(***************************************************************************)
EXTENDS Pebble

\* What a statement or an expression comes to: the world after it, and whether
\* it ended with a value, with a `return` or in failure.
Ends(world, end, v) == [world |-> world, end |-> end, v |-> v]
Value(world, v) == Ends(world, "value", v)
Failure(world) == Ends(world, "failure", Null)
AndThen(e, Rest(_, _)) == IF e.end = "value" THEN Rest(e.v, e.world) ELSE e

NewWorld == [globals |-> <<>>, locals |-> None, calls |-> 0, funcs |-> <<>>, shown |-> <<>>]
Bind(world, name, v) ==
    IF world.locals = None THEN [world EXCEPT !.globals = (name :> v) @@ @]
    ELSE [world EXCEPT !.locals = Some((name :> v) @@ @[1])]
Lookup(world, name) ==
    LET scope == IF world.locals = None THEN world.globals ELSE world.locals[1] @@ world.globals
    IN IF name \in DOMAIN scope THEN Value(world, scope[name]) ELSE Failure(world)
Result(world, r) == IF r.is = "ok" THEN Value(world, r.value) ELSE Failure(world)

RECURSIVE Means(_, _), MeansWhile(_, _, _), Target(_)

MeansBody(body, world) ==
    FoldLeft(LAMBDA e, s : AndThen(e, LAMBDA v, w :
                               IF s.form = "damaged" THEN Value(w, v) ELSE Means(s, w)),
             Value(world, Null), body)
MeansAll(exprs, world) ==
    FoldLeft(LAMBDA e, x : AndThen(e, LAMBDA vs, w :
                               AndThen(Means(x, w), LAMBDA v, w2 : Value(w2, Append(vs, v)))),
             Value(world, <<>>), exprs)
MeansWhile(s, value, world) ==
    AndThen(Means(s.value, world), LAMBDA test, w :
        IF IsTrue(test) THEN AndThen(MeansBody(s.body, w), LAMBDA v, w2 : MeansWhile(s, v, w2))
        ELSE Value(w, value))
MeansCall(f, args, world) ==
    IF Len(args) # Len(f.params) \/ world.calls >= MaxDepth THEN Failure(world)
    ELSE LET locals == [p \in Range(f.params) |-> args[CHOOSE i \in 1..Len(args) : f.params[i] = p]]
             e == MeansBody(f.body, [world EXCEPT !.locals = Some(locals), !.calls = @ + 1])
             home == [e.world EXCEPT !.locals = world.locals, !.calls = world.calls]
         IN CASE e.end = "return" -> Value(home, e.v)
              [] e.end = "value" -> Value(home, Null)
              [] OTHER -> Failure(home)
MeansFrame(body, world) ==
    LET e == MeansBody(body, [world EXCEPT !.shown = <<>>])
    IN [e EXCEPT !.world.shown = world.shown \o Boxed(@)]

\* A name, however many parentheses it is in.
Target(e) ==
    CASE e.form = "name" -> Some(e.name)
      [] e.form = "paren" -> Target(e.args[1])
      [] OTHER -> None
MeansInfix(e, world) ==
    CASE e.op = "nh_op_eq" ->
            IF Target(e.args[1]) = None THEN Failure(world)
            ELSE AndThen(Means(e.args[2], world),
                         LAMBDA v, w : Value(Bind(w, Target(e.args[1])[1], v), v))
      [] e.op = "nh_op_amp_amp" ->
            AndThen(Means(e.args[1], world),
                    LAMBDA v, w : IF IsTrue(v) THEN Means(e.args[2], w) ELSE Value(w, v))
      [] e.op = "nh_op_pipe_pipe" ->
            AndThen(Means(e.args[1], world),
                    LAMBDA v, w : IF IsTrue(v) THEN Value(w, v) ELSE Means(e.args[2], w))
      [] OTHER -> AndThen(MeansAll(e.args, world),
                          LAMBDA vs, w : Result(w, Binary(e.op, vs[1], vs[2])))

Means(x, world) ==
    CASE x.form = "number" -> Value(world, Num(x.num))
      [] x.form = "text" -> Value(world, Text(<<x.text>>))
      [] x.form = "name" -> Lookup(world, x.name)
      [] x.form = "paren" -> Means(x.args[1], world)
      [] x.form = "point" ->
            AndThen(MeansAll(x.args, world), LAMBDA vs, w :
                IF Is(vs[1], "num") /\ Is(vs[2], "num")
                THEN Value(w, Point(vs[1].num, vs[2].num)) ELSE Failure(w))
      [] x.form = "call" ->
            AndThen(MeansAll(x.args, world), LAMBDA vs, w :
                IF x.name \in DOMAIN w.funcs THEN MeansCall(w.funcs[x.name], vs, w) ELSE Failure(w))
      [] x.form = "infix" -> MeansInfix(x, world)
      [] x.form = "prefix" ->
            AndThen(Means(x.args[1], world), LAMBDA v, w : Result(w, Unary(x.op, v)))
      [] x.form = "let" ->
            AndThen(Means(x.value, world), LAMBDA v, w : Value(Bind(w, x.name, v), v))
      [] x.form = "show" ->
            AndThen(Means(x.value, world),
                    LAMBDA v, w : Value([w EXCEPT !.shown = Append(@, Display(v))], Null))
      [] x.form = "if" ->
            AndThen(Means(x.value, world), LAMBDA v, w :
                IF IsTrue(v) THEN MeansBody(x.body, w)
                ELSE IF x.otherwise = None THEN Value(w, Null)
                ELSE MeansBody(x.otherwise[1], w))
      [] x.form = "while" -> MeansWhile(x, Null, world)
      [] x.form = "fn" ->
            IF IsInjective(x.params)
            THEN Value([world EXCEPT !.funcs = (x.name :> [params |-> x.params, body |-> x.body]) @@ @],
                       Null)
            ELSE Failure(world)
      [] x.form = "return" ->
            IF x.value = None THEN Ends(world, "return", Null)
            ELSE AndThen(Means(x.value[1], world), LAMBDA v, w : Ends(w, "return", v))
      [] x.form = "frame" -> MeansFrame(x.body, world)
      [] x.form = "eval" -> Means(x.value, world)

\* The texts of a session, one after the other.
MeansSession(session) ==
    FoldLeft(LAMBDA e, text : IF text.garbled THEN Failure(e.world) ELSE MeansBody(text.body, e.world),
             Value(NewWorld, Null), session)

\* The places of the damaged statements of a body, in the order of the text.
RECURSIVE DamagedIn(_, _)
DamagedIn(body, at) ==
    FlattenSeq([i \in 1..Len(body) |->
        LET s == body[i]
            here == Append(at, i)
        IN CASE s.form = "damaged" -> <<here>>
             [] s.form \in {"while", "fn", "frame"} -> DamagedIn(s.body, Append(here, 2))
             [] s.form = "if" ->
                    DamagedIn(s.body, Append(here, 2))
                      \o IF s.otherwise = None THEN <<>>
                         ELSE DamagedIn(s.otherwise[1], Append(here, 3))
             [] OTHER -> <<>>])
DamagedOf(session, file) ==
    IF session[file].garbled THEN <<>> ELSE DamagedIn(session[file].body, <<file>>)

---------------------------------------------------------------------------
(* Properties                                                              *)

\* However many calls fail, return out of loops and frames, or meet damaged
\* statements: when eval_source is back, no call's frame and no node's span is
\* left, so the next source starts where a first one would.
BooksClosed == host.frames = <<>> /\ cx.spans = <<>>

\* A session does what its texts say: what it shows, in its frames, and what its
\* variables are is what the written programs mean, and a text that comes to a
\* value without anything to report comes back with that value.
MeansWhatItSays ==
    LET e == MeansSession(texts)
    IN /\ host.output = e.world.shown
       /\ host.vars = e.world.globals
       /\ last.is = "ok" => e.end = "value" /\ e.v = last.value

\* What a call of eval_source returns as errors: first the damaged statements of
\* its own text, all of them and in order, run or not; then those of functions
\* of earlier texts it ran into; then the failure that stopped it, if one did.
\* Nothing twice, and nothing at all only for a clean run.
DiagnosticsOnce ==
    last.is \in {"ok", "err"} /\ ~Last(texts).garbled =>
        LET found == IF last.is = "ok" THEN <<>> ELSE last.found
            own == DamagedOf(texts, Len(texts))
            failed == MeansSession(texts).end # "value"
            parse == SelectSeq(found, LAMBDA d : d.what = "could not parse")
        IN /\ (last.is = "ok") = (found = <<>>)
           /\ IsInjective(found)
           /\ Len(found) = Len(parse) + (IF failed THEN 1 ELSE 0)
           /\ failed => Last(found).what # "could not parse"
           /\ IsPrefix(own, [i \in 1..Len(parse) |-> parse[i].at])
           /\ \A i \in Len(own) + 1..Len(parse) :
                 \E file \in 1..Len(texts) - 1 : Contains(DamagedOf(texts, file), parse[i].at)

=============================================================================
