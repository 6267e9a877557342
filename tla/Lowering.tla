------------------------------- MODULE Lowering -------------------------------
(***************************************************************************)
(* What a grammar becomes for the parser generator, pest (nh-lower: lib.rs,*)
(* follow.rs, resolve.rs): rules of the same kind of expressions, without  *)
(* bindings, each normal, silent, atomic or compound.                      *)
(*                                                                         *)
(* Left out: the names of generated rules being kept apart, the messages   *)
(* an `expect` gives a literal, and the shapes of bindings.                *)
(***************************************************************************)
EXTENDS Grammars, TLC

Not(e) == Lookahead(e, TRUE)

\* A generated rule, written where it is used.
Rule(name, mode, body) == [kind |-> "rule", name |-> name, mode |-> mode, body |-> body]

\* The words kept from a token, and the operators that are words: these are
\* reserved from the first token there is (collect_reserved_words).
WordOperators(g) == {o.literal : o \in {p \in Range(g.operators) : p.word}}
Identifier(g) ==
    IF g.reserved # <<>> THEN g.reserved[1].token
    ELSE IF g.guards # <<>> THEN g.guards[1].token
    ELSE "none"
WordsOf(lists, token) == UNION {l.words : l \in {m \in Range(lists) : m.token = token}}
Reserved(g, token) ==
    UNION {WordsOf(g.reserved, token), IF token = Identifier(g) THEN WordOperators(g) ELSE {}}
KeptFrom(g, token) == UNION {Reserved(g, token), WordsOf(g.guards, token)}

\* What may continue an identifier: the terminals it repeats, or all it has.
Terminals(e) ==
    {Literal(x.value, x.folds) : x \in {y \in Walk(e) : y.kind = "literal"}}
        \cup {x \in Walk(e) : x.kind \in {"range", "ref"}}
Continuation(g, token) ==
    LET body == TokenOf(g, token).body
        repeated == UNION {Terminals(x.inner) : x \in {y \in Walk(body) : y.kind = "repeat"}}
    IN Choice(SetToSeq(IF repeated # {} THEN repeated ELSE Terminals(body)))

\* A word, and not the beginning of a longer one.
Whole(g, token, words) == Sequence(<<words, Not(Continuation(g, token))>>)

LongestFirst(texts) == SetToSortSeq(texts, LAMBDA a, b : Len(a) > Len(b))

---------------------------------------------------------------------------
(* Expressions                                                             *)

\* operator_rule: a word is kept whole only if words are reserved from a token.
Operator(g, o) ==
    Rule("nh_op", "atomic",
         IF o.word /\ g.reserved # <<>> THEN Whole(g, g.reserved[1].token, Literal(o.literal, TRUE))
         ELSE Literal(o.literal, o.word))

\* keyword_for: the rule there is for a literal kept from a token.  It is atomic,
\* so it makes a node.
Keepers(g, value) == {t \in {x.name : x \in Range(g.tokens)} : value \in KeptFrom(g, t)}
Keyword(g, value) ==
    IF \E o \in Range(g.operators) : o.literal = value
    THEN Operator(g, CHOOSE o \in Range(g.operators) : o.literal = value)
    ELSE Rule("nh_kw", "atomic",
              Whole(g, CHOOSE t \in Keepers(g, value) : TRUE, Literal(value, g.folds)))

\* Ctx::expr
RECURSIVE Lowered(_, _, _)
Lowered(e, g, fold) ==
    CASE e.kind \in {"seq", "choice"} ->
            [e EXCEPT !.parts = [i \in DOMAIN @ |-> Lowered(@[i], g, fold)]]
      [] e.kind \in {"repeat", "lookahead"} -> [e EXCEPT !.inner = Lowered(@, g, fold)]
      [] e.kind = "bind" -> Lowered(e.inner, g, fold)
      [] e.kind = "literal" ->
            IF Keepers(g, e.value) # {} THEN Keyword(g, e.value)
            ELSE Literal(e.value, e.folds \/ fold \/ g.folds)
      [] OTHER -> e

---------------------------------------------------------------------------
(* Recovery: what the text that is skipped must not run over (follow.rs)   *)

RefsOf(g) == [n \in RuleNames(g) |-> UNION {RefsIn(b) : b \in Bodies(RuleOf(g, n))}]
RECURSIVE WithinAny(_, _)
WithinAny(g, names) ==
    LET more == names \cup {n \in RuleNames(g) : RefsOf(g)[n] \cap names # {}}
    IN IF more = names THEN names ELSE WithinAny(g, more)
\* A mutant looks no further than the rules that name it.
CarriersNamed(g, rule) == {rule} \cup {n \in RuleNames(g) : rule \in RefsOf(g)[n]}

Carriers(g, rule) == WithinAny(g, {rule})

\* leading: the terminals e can begin with, and whether it must match something.
\* A rule is looked into once, and is taken to match something from then on.
RECURSIVE Leading(_, _, _)
Leading(e, g, found) ==
    LET inOrder(parts) ==
            FoldLeft(LAMBDA so, p : IF so.must THEN so ELSE Leading(p, g, so),
                     [found EXCEPT !.must = FALSE], parts)
        eachOf(parts) ==
            FoldLeft(LAMBDA so, p : [Leading(p, g, so) EXCEPT !.must = @ /\ so.must],
                     [found EXCEPT !.must = parts # <<>>], parts)
        terminal == [found EXCEPT !.must = TRUE, !.stops = @ \cup {e}]
    IN CASE e.kind = "literal" ->
               [found EXCEPT !.must = TRUE, !.stops = @ \cup {Literal(e.value, FALSE)}]
         [] e.kind = "range" -> [found EXCEPT !.must = TRUE]
         [] e.kind = "lookahead" -> [found EXCEPT !.must = FALSE]
         [] e.kind = "bind" -> Leading(e.inner, g, found)
         [] e.kind = "repeat" -> [Leading(e.inner, g, found) EXCEPT !.must = e.how = "+"]
         [] e.kind = "choice" -> eachOf(e.parts)
         [] e.kind = "seq" -> inOrder(e.parts)
         [] e.kind = "ref" ->
               IF e.name \in {"SOI", "EOI"} THEN [found EXCEPT !.must = TRUE]
               ELSE IF ~IsRule(g, e.name) THEN terminal
               ELSE IF e.name \in found.seen THEN [found EXCEPT !.must = TRUE]
               ELSE LET alternatives == RuleOf(g, e.name).alternatives
                        seen == [found EXCEPT !.seen = @ \cup {e.name}, !.must = TRUE]
                    IN FoldLeft(LAMBDA so, a : [Leading(a.body, g, so) EXCEPT !.must = @ /\ so.must],
                                seen, alternatives)

\* What can follow part i of a sequence.
Following(g, parts, i) ==
    FoldLeft(LAMBDA so, p : IF so.must THEN so ELSE Leading(p, g, [so EXCEPT !.seen = {}]),
             [stops |-> {}, seen |-> {}, must |-> FALSE],
             SubSeq(parts, i + 1, Len(parts))).stops

StopsFor(g, rule) ==
    LET carriers == Carriers(g, rule)
        sequences == {x \in UNION {Walk(b) : b \in UNION {Bodies(r) : r \in Range(g.rules)}} :
                        x.kind = "seq"}
    IN UNION {UNION {Following(g, x.parts, i) :
                       i \in {j \in DOMAIN x.parts : RefsIn(x.parts[j]) \cap carriers # {}}} :
                x \in sequences}

---------------------------------------------------------------------------
(* Unlabelled alternatives: each is to stand for one node (transparency)   *)

Many == 9
Nodes(least, most) == [min |-> least, max |-> most]
Unknown == Nodes(0, -1)
Capped(n) == IF n > Many THEN Many ELSE n
Least(a, b) == IF a < b THEN a ELSE b
Most(a, b) == IF a > b THEN a ELSE b
Then(m, n) ==
    IF Unknown \in {m, n} THEN Unknown ELSE Nodes(Capped(m.min + n.min), Capped(m.max + n.max))
Either(m, n) ==
    IF Unknown \in {m, n} THEN Unknown ELSE Nodes(Least(m.min, n.min), Most(m.max, n.max))

RECURSIVE NodeCount(_, _, _)
NodeCount(e, g, open) ==
    LET counts(parts) == [i \in DOMAIN parts |-> NodeCount(parts[i], g, open)]
        anyOf(found) == FoldLeft(Either, Head(found), Tail(found))
    IN CASE e.kind \in {"literal", "range", "lookahead"} -> Nodes(0, 0)
         [] e.kind = "bind" -> NodeCount(e.inner, g, open)
         [] e.kind = "seq" -> FoldLeft(Then, Nodes(0, 0), counts(e.parts))
         [] e.kind = "choice" -> anyOf(counts(e.parts))
         [] e.kind = "repeat" ->
               LET n == NodeCount(e.inner, g, open)
               IN IF n = Unknown THEN n
                  ELSE IF e.how = "?" THEN Nodes(0, n.max)
                  ELSE IF n.max = 0 THEN n
                  ELSE Nodes(IF e.how = "+" THEN n.min ELSE 0, Many)
         [] e.kind = "ref" ->
               IF IsToken(g, e.name) \/ e.name = "expr" THEN Nodes(1, 1)
               ELSE IF e.name \in Builtins THEN Nodes(0, 0)
               ELSE IF ~IsRule(g, e.name) \/ e.name \in open THEN Unknown
               ELSE LET rule == RuleOf(g, e.name)
                    IN IF ~rule.silent THEN Nodes(1, 1)
                       ELSE anyOf([i \in DOMAIN rule.alternatives |->
                                     NodeCount(rule.alternatives[i].body, g, open \cup {e.name})])

RECURSIVE Producers(_, _, _)
Producers(e, g, open) ==
    CASE e.kind \in {"literal", "range", "lookahead"} -> {}
      [] e.kind = "ref" ->
            IF ~IsRule(g, e.name) THEN {e.name} \ Builtins
            ELSE IF ~RuleOf(g, e.name).silent THEN {e.name}
            ELSE IF e.name \in open THEN {}
            ELSE UNION {Producers(b, g, open \cup {e.name}) : b \in Bodies(RuleOf(g, e.name))}
      [] OTHER -> UNION {Producers(p, g, open) : p \in Range(Parts(e))}

\* The rules whose node an unlabelled alternative stands for: one, if it may.
Yields(e, g) ==
    IF NodeCount(e, g, {}) = Nodes(1, 1) THEN Producers(e, g, {}) ELSE {}
StandsForOne(e, g) ==
    \/ NodeCount(e, g, {}) = Unknown
    \/ \E name \in Yields(e, g) : Yields(e, g) = {name} /\ ~IsToken(g, name)

---------------------------------------------------------------------------
(* The rules of the generated grammar                                      *)

Modes == {"normal", "silent", "atomic", "compound"}
LoweredToken(g, t) ==
    LET body == Lowered(t.body, g, t.folds)
        words == LongestFirst(Reserved(g, t.name))
        guard == Rule("nh_reserved", "atomic",
                      Whole(g, t.name, Choice([i \in DOMAIN words |-> Literal(words[i], g.folds)])))
    IN Rule(t.name, IF t.atomic THEN "atomic" ELSE "compound",
            IF words = <<>> THEN body ELSE Sequence(<<Not(guard), body>>))

\* emit_op_alternation, emit_expr: the longest operator first.  A mutant leaves
\* them in the order of the table.
AsDeclared(g, fixities) ==
    LET ops == SelectSeq(g.operators, LAMBDA o : o.fixity \in fixities)
    IN [i \in DOMAIN ops |-> ops[i].literal]

Sorted(g, fixities) ==
    LongestFirst({o.literal : o \in {p \in Range(g.operators) : p.fixity \in fixities}})

Group(g, name, fixities) ==
    LET literals == Sorted(g, fixities)
        of(literal) == CHOOSE o \in Range(g.operators) : o.literal = literal
    IN [kind |-> "rule", name |-> name, mode |-> "silent",
        body |-> Choice([i \in DOMAIN literals |-> Operator(g, of(literals[i]))])]
Expr(g) ==
    LET has(fixities) == \E o \in Range(g.operators) : o.fixity \in fixities
        some(fixities, e) == IF has(fixities) THEN <<e>> ELSE <<>>
        term == some({"prefix"}, Repeat(Group(g, "nh_pre_op", {"prefix"}), "*"))
                \o <<Ref(g.atom)>>
                \o some({"postfix"}, Repeat(Group(g, "nh_post_op", {"postfix"}), "*"))
        more == Repeat(Sequence(<<Group(g, "nh_bin_op", {"left", "right"})>> \o term), "*")
    IN Rule("expr", "normal", Sequence(term \o some({"left", "right"}, more)))

IsPass(alternative) == alternative.label \in {"none", "pass"}

\* emit_rule
LoweredRule(g, r) ==
    LET mode == IF r.silent THEN "silent" ELSE "normal"
        recovery == {x \in Range(g.recovers) : x.rule = r.name}
        alternative(a) ==
            IF IsPass(a) THEN Lowered(a.body, g, FALSE)
            ELSE Rule(a.label, "normal", Lowered(a.body, g, FALSE))
        body == [kind |-> "alternatives", of |-> r.name,
                 parts |-> [i \in DOMAIN r.alternatives |-> alternative(r.alternatives[i])]]
        sync == Lowered((CHOOSE x \in recovery : TRUE).sync, g, FALSE)
        stops == SetToSeq({Lowered(s, g, FALSE) : s \in StopsFor(g, r.name)} \ {sync})
        skipped == Sequence(<<Not(sync)>> \o [i \in DOMAIN stops |-> Not(stops[i])] \o <<Some>>)
        error == Rule("nh_error", "normal",
                      Sequence(<<Repeat(skipped, "+"), Repeat(sync, "?")>>))
    IN IF recovery # {}
       THEN Rule(r.name, "normal", Choice(<<Rule("nh_ok", mode, body), error>>))
       ELSE IF Len(r.alternatives) = 1 /\ ~IsPass(r.alternatives[1])
       THEN Rule(r.name, mode, Lowered(r.alternatives[1].body, g, FALSE))
       ELSE Rule(r.name, mode, body)

Pest(g) ==
    LET defined == UNION {RuleNames(g), {t.name : t \in Range(g.tokens)},
                          IF g.operators = <<>> THEN {} ELSE {"expr"}}
    IN [n \in defined |->
          IF IsRule(g, n) THEN LoweredRule(g, RuleOf(g, n))
          ELSE IF IsToken(g, n) THEN LoweredToken(g, TokenOf(g, n))
          ELSE Expr(g)]

\* Whether it is lowered without an error.
Lowers(g) ==
    /\ \A n \in UNION {RefsIn(b) : b \in UNION {Bodies(r) : r \in Range(g.rules)}} :
          n \in UNION {DOMAIN Pest(g), Builtins}
    /\ WordOperators(g) # {} => Identifier(g) # "none"
    /\ g.operators # <<>> => IsRule(g, g.atom) \/ IsToken(g, g.atom)
    /\ \A r \in Range(g.rules) : \A a \in Range(r.alternatives) :
          IsPass(a) => StandsForOne(a.body, g)

=============================================================================
