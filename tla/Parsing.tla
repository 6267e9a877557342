-------------------------------- MODULE Parsing --------------------------------
(***************************************************************************)
(* A program being parsed by the parser that pest generates from a lowered *)
(* grammar.  pest is no part of this repository: the machine here is what  *)
(* its documentation says of its operators, one step for every expression  *)
(* entered or left, so that a parse that never ends is a behaviour that    *)
(* never ends.                                                             *)
(*                                                                         *)
(* Grammars parsed are those that are lowered without an error and that    *)
(* the analysis passes.                                                    *)
(***************************************************************************)
EXTENDS Lowering, Analysis

CONSTANTS
    Written,    \* a sequence of grammars
    Programs,   \* Programs[i]: what is to be parsed with grammar i, each the
                \* text and where its statements are, if that is known
    MaxStack    \* the stack a parse may use
ASSUME StackIsFinite == MaxStack \in Nat \ {0}

VARIABLES
    given,      \* the grammar's number, and the program
    stack,      \* the expressions being matched, innermost last
    pos,        \* how far the text is matched
    result      \* of the last expression left, or Calling

vars == <<given, stack, pos, result>>

Rules == [i \in DOMAIN Written |-> Pest(Written[i])]

Accepted == {i \in DOMAIN Written : Lowers(Written[i]) /\ Passes(Written[i])}

Grammar == Written[given.grammar]
Text == given.program.text

Calling == [is |-> "calling"]
No == [is |-> "no"]
Overflow == [is |-> "overflow"]
Yes(nodes) == [is |-> "yes", nodes |-> nodes]

---------------------------------------------------------------------------

Top == Last(stack)
Kind(kinds) == stack # <<>> /\ Top.e.kind \in kinds
IsBuiltin(e) == e.kind = "ref" /\ e.name \in Builtins
Terminal == Kind({"literal", "range"}) \/ (stack # <<>> /\ IsBuiltin(Top.e))

\* An expression to match here; how it is matched is inherited.
Frame(e, how) == [e |-> e, i |-> 1, from |-> pos, how |-> how, nodes |-> <<>>]
Push(frames, frame) ==
    IF Len(frames) < MaxStack
    THEN stack' = Append(frames, frame) /\ result' = Calling
    ELSE stack' = <<>> /\ result' = Overflow
Leave(is) == stack' = Front(stack) /\ result' = is
Changed(frame) == Append(Front(stack), frame)

\* Where the text goes on after what is skipped.  Nothing is inside a token.
SkippedFrom(p) ==
    IF Top.how.atomicity # "none" THEN p
    ELSE LET solid == {q \in p..Len(Text) : Text[q] \notin Grammar.skip}
         IN IF solid = {} THEN Len(Text) + 1 ELSE CHOOSE q \in solid : \A r \in solid : q <= r

Makes(how) == ~how.looking /\ how.atomicity # "atomic"

MatchTerminal ==
    /\ result = Calling /\ Terminal
    /\ LET e == Top.e
           one == pos <= Len(Text)
           end == pos + Len(e.value) - 1
           accept(n, nodes) == pos' = pos + n /\ Leave(Yes(nodes))
           is(ok, n) == IF ok THEN accept(n, <<>>) ELSE UNCHANGED pos /\ Leave(No)
       IN CASE e.kind = "literal" ->
                   is(end <= Len(Text)
                        /\ Folded(SubSeq(Text, pos, end), e.folds) = Folded(e.value, e.folds),
                      Len(e.value))
            [] e.kind = "range" -> is(one /\ Text[pos] \in e.chars, 1)
            [] e.kind = "ref" ->
                   CASE e.name = "ANY" -> is(one, 1)
                     [] e.name = "SOI" -> is(pos = 1, 0)
                     [] OTHER ->
                          IF one THEN is(FALSE, 0)
                          ELSE accept(0, IF Makes(Top.how)
                                         THEN <<[rule |-> "EOI", from |-> pos, to |-> pos,
                                                 nodes |-> <<>>]>>
                                         ELSE <<>>)
    /\ UNCHANGED given

\* A rule that is called by name, or is written in place.
RuleAt(e) == IF e.kind = "rule" THEN e ELSE Rules[given.grammar][e.name]
IsCall(e) == e.kind = "rule" \/ (e.kind = "ref" /\ ~IsBuiltin(e))

CallRule ==
    /\ result = Calling /\ stack # <<>> /\ IsCall(Top.e)
    /\ LET rule == RuleAt(Top.e)
           how == IF rule.mode \in {"atomic", "compound"}
                  THEN [Top.how EXCEPT !.atomicity = rule.mode]
                  ELSE Top.how
       IN Push(stack, Frame(rule.body, how))
    /\ UNCHANGED <<given, pos>>

LeaveRule ==
    /\ result.is \in {"yes", "no"} /\ stack # <<>> /\ IsCall(Top.e)
    /\ LET rule == RuleAt(Top.e)
           node == [rule |-> rule.name, from |-> Top.from, to |-> pos, nodes |-> result.nodes]
       IN Leave(IF result = No \/ rule.mode = "silent" \/ ~Makes(Top.how)
                THEN result ELSE Yes(<<node>>))
    /\ UNCHANGED <<given, pos>>

Enter ==
    /\ result = Calling
    /\ Kind({"seq", "choice", "alternatives"})
    /\ Push(stack, Frame(Top.e.parts[1], Top.how))
    /\ UNCHANGED <<given, pos>>

\* What was matched of a sequence is skipped after, and given up if it fails.
AfterPart ==
    /\ Kind({"seq"})
    /\ LET done == [Top EXCEPT !.i = @ + 1, !.nodes = @ \o result.nodes]
       IN \/ /\ result.is = "yes" /\ Top.i < Len(Top.e.parts)
             /\ pos' = SkippedFrom(pos)
             /\ Push(Changed(done), [Frame(Top.e.parts[done.i], Top.how) EXCEPT !.from = pos'])
          \/ /\ result.is = "yes" /\ Top.i = Len(Top.e.parts)
             /\ UNCHANGED pos
             /\ Leave(Yes(done.nodes))
          \/ /\ result = No
             /\ pos' = Top.from
             /\ Leave(No)
    /\ UNCHANGED given

\* The first that matches is taken.
AfterChoice ==
    /\ Kind({"choice", "alternatives"})
    /\ \/ /\ result.is = "yes"
          /\ Leave(result)
       \/ /\ result = No /\ Top.i < Len(Top.e.parts)
          /\ Push(Changed([Top EXCEPT !.i = @ + 1]), Frame(Top.e.parts[Top.i + 1], Top.how))
       \/ /\ result = No /\ Top.i = Len(Top.e.parts)
          /\ Leave(No)
    /\ UNCHANGED <<given, pos>>

\* e+ is e e*.
EnterRepeat ==
    /\ result = Calling /\ Kind({"repeat"})
    /\ LET e == Top.e
       IN IF e.how = "+"
          THEN stack' = Changed([Top EXCEPT !.e = Sequence(<<e.inner, Repeat(e.inner, "*")>>)])
               /\ UNCHANGED result
          ELSE Push(stack, Frame(e.inner, Top.how))
    /\ UNCHANGED <<given, pos>>

\* A repetition goes on, after what is skipped, until it fails; `from` is where it
\* last succeeded.
AfterRepeat ==
    /\ Kind({"repeat"})
    /\ \/ /\ result.is = "yes" /\ Top.e.how = "*"
          /\ pos' = SkippedFrom(pos)
          /\ Push(Changed([Top EXCEPT !.from = pos, !.nodes = @ \o result.nodes]),
                  [Frame(Top.e.inner, Top.how) EXCEPT !.from = pos'])
       \/ /\ result.is = "yes" /\ Top.e.how = "?"
          /\ UNCHANGED pos
          /\ Leave(result)
       \/ /\ result = No
          /\ pos' = Top.from
          /\ Leave(Yes(Top.nodes))
    /\ UNCHANGED given

EnterLookahead ==
    /\ result = Calling /\ Kind({"lookahead"})
    /\ Push(stack, Frame(Top.e.inner, [Top.how EXCEPT !.looking = TRUE]))
    /\ UNCHANGED <<given, pos>>

AfterLookahead ==
    /\ result.is \in {"yes", "no"} /\ Kind({"lookahead"})
    /\ pos' = Top.from
    /\ Leave(IF (result = No) = Top.e.negative THEN Yes(<<>>) ELSE No)
    /\ UNCHANGED given

---------------------------------------------------------------------------

Init ==
    /\ \E i \in Accepted : \E program \in Programs[i] : given = [grammar |-> i, program |-> program]
    /\ pos = 1
    /\ stack = <<[e |-> Ref(Grammar.entry), i |-> 1, from |-> 1, nodes |-> <<>>,
                  how |-> [atomicity |-> "none", looking |-> FALSE]]>>
    /\ result = Calling

Next ==
    \/ MatchTerminal \/ CallRule \/ LeaveRule
    \/ Enter \/ AfterPart \/ AfterChoice
    \/ EnterRepeat \/ AfterRepeat
    \/ EnterLookahead \/ AfterLookahead

\* The parser runs until it is done: nothing else has a step.
Spec == Init /\ [][Next]_vars /\ WF_vars(Next)

Ended == stack = <<>> /\ result.is \in {"yes", "no"}

---------------------------------------------------------------------------
(* Properties                                                              *)

\* What the analysis cannot see: a token that matches nothing ("tokens count as
\* not nullable"), and a rule that is led back to through a lookahead.
TokensConsume == \A t \in Range(Grammar.tokens) : ~Nullable(t.body, [Grammar EXCEPT !.tokens = <<>>])
LooksAtTerminals ==
    \A b \in UNION {Bodies(r) : r \in Range(Grammar.rules)} : \A e \in Walk(b) :
        e.kind = "lookahead" => \A n \in RefsIn(e) : ~IsRule(Grammar, n)

\* A grammar the lints pass never loops and never recurses without an end
\* (lints.rs, left_recursion and nullable_repetition; first.rs).
ParsesEnd == TokensConsume /\ LooksAtTerminals => <>Ended

\* The alternatives of a rule, while one of them is tried.
Trying == Kind({"alternatives"})

\* Where a fixed text is certain to be what is matched: nothing skipped within it,
\* no word kept whole, one way of folding.
Literally ==
    /\ Grammar.skip = {} /\ Grammar.reserved = <<>> /\ Grammar.guards = <<>>
    /\ \A b \in UNION {Bodies(r) : r \in Range(Grammar.rules)} : Grammar.folds \/ ~FoldsCase(b)
\* Where matching nothing is certain: it does not depend on what is there.
Regardless ==
    \A a \in Range(RuleOf(Grammar, Top.e.of).alternatives) : \A e \in Walk(a.body) :
        e.kind # "lookahead" /\ (e.kind = "ref" => e.name \notin {"SOI", "EOI"})

\* "Every lint here is conservative": what is reported as unreachable never
\* matches, or is never tried (lints.rs, shadowed_alternatives and
\* unreachable_alternatives).
LintsAreCertain ==
    Trying =>
        /\ Literally /\ result.is = "yes" => ~Shadowed(Grammar, Top.e.of, Top.i)
        /\ Regardless => Top.i \notin Unreachable(Grammar, Top.e.of)

\* The text an operator is taken to be is the longest operator there (lib.rs,
\* "longest-first, so `<=` is reachable"), and a word is whole.
Operators == {"nh_bin_op", "nh_pre_op", "nh_post_op"}
OfGroup(name) ==
    CASE name = "nh_bin_op" -> {"left", "right"}
      [] name = "nh_pre_op" -> {"prefix"}
      [] OTHER -> {"postfix"}
IsHere(literal) == IsPrefix(literal, SubSeq(Text, Top.from, Len(Text)))
WordChars == UNION {e.chars : e \in {x \in UNION {Walk(t.body) : t \in Range(Grammar.tokens)} :
                                       x.kind = "range"}}
OperatorsMunchMaximally ==
    Kind({"rule"}) /\ Top.e.name \in Operators /\ result.is = "yes" =>
        LET ops == {o \in Range(Grammar.operators) : o.fixity \in OfGroup(Top.e.name)}
        IN /\ \A o \in ops : ~o.word /\ Len(o.literal) > pos - Top.from => ~IsHere(o.literal)
           /\ Grammar.reserved # <<>> /\ pos <= Len(Text) =>
                 \A o \in ops : o.word /\ Len(o.literal) = pos - Top.from /\ IsHere(o.literal)
                                  => Text[pos] \notin WordChars

\* Where the statements of a parse are, those skipped as errors too.
RECURSIVE SpansIn(_, _)
SpansIn(nodes, name) ==
    UNION {UNION {IF n.rule = name THEN {<<n.from, n.to>>} ELSE {}, SpansIn(n.nodes, name)} :
             n \in Range(nodes)}

\* A damaged statement is skipped up to its own end and no further, however deep
\* the blocks around it: they close, and every other statement is parsed as if it
\* were not there (follow.rs: "Recovery must stop at anything that could close an
\* enclosing construct").
DamageStaysLocal ==
    Ended /\ given.program.statements # {} =>
        /\ result.is = "yes"
        /\ SpansIn(result.nodes, "stmt") = given.program.statements

=============================================================================
