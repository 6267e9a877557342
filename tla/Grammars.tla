------------------------------- MODULE Grammars -------------------------------
(***************************************************************************)
(* A grammar as the tool holds it (nh-syntax/src/ast.rs), and what its     *)
(* expressions can begin with (nh-analysis/src/first.rs).                  *)
(*                                                                         *)
(* A character is a short string, a literal a sequence of characters.      *)
(*                                                                         *)
(* A grammar is a record: `rules` and `tokens`, in order; `skip`, the      *)
(* characters its skips pass over, one at a time; `folds`, whether its     *)
(* keywords fold case; `reserved` and `guards`, what words are kept from   *)
(* which token; `recovers`; `allows`; `operators` and the rule they fold   *)
(* over, `atom`; and `entry`, the rule a program starts at.                *)
(***************************************************************************)
EXTENDS Integers, Sequences, FiniteSets, SequencesExt

Sequence(parts) == [kind |-> "seq", parts |-> parts]
Choice(parts) == [kind |-> "choice", parts |-> parts]
Repeat(inner, how) == [kind |-> "repeat", inner |-> inner, how |-> how]
Lookahead(inner, negative) == [kind |-> "lookahead", inner |-> inner, negative |-> negative]
Bind(name, inner) == [kind |-> "bind", name |-> name, inner |-> inner]
Literal(value, folds) == [kind |-> "literal", value |-> value, folds |-> folds]
CharRange(chars) == [kind |-> "range", chars |-> chars]
Ref(name) == [kind |-> "ref", name |-> name]

Builtins == {"ANY", "SOI", "EOI"}
Some == Ref("ANY")

Lowercase == [A |-> "a", B |-> "b", N |-> "n"]
FoldChar(c) == IF c \in DOMAIN Lowercase THEN Lowercase[c] ELSE c
Folded(text, fold) == IF fold THEN [i \in DOMAIN text |-> FoldChar(text[i])] ELSE text

Parts(e) ==
    CASE e.kind \in {"seq", "choice"} -> e.parts
      [] e.kind \in {"repeat", "lookahead", "bind"} -> <<e.inner>>
      [] OTHER -> <<>>

\* Every expression within e, itself too.
RECURSIVE Walk(_)
Walk(e) == UNION {{e}, UNION {Walk(p) : p \in Range(Parts(e))}}
RefsIn(e) == {x.name : x \in {y \in Walk(e) : y.kind = "ref"}}

Named(defs, name) == {i \in DOMAIN defs : defs[i].name = name}
IsRule(g, name) == Named(g.rules, name) # {}
IsToken(g, name) == Named(g.tokens, name) # {}
RuleOf(g, name) == g.rules[CHOOSE i \in Named(g.rules, name) : TRUE]
TokenOf(g, name) == g.tokens[CHOOSE i \in Named(g.tokens, name) : TRUE]
Bodies(rule) == {rule.alternatives[i].body : i \in DOMAIN rule.alternatives}
RuleNames(g) == {g.rules[i].name : i \in DOMAIN g.rules}

---------------------------------------------------------------------------
(* first.rs                                                                *)

\* Whether e can match the empty text, as far as the analysis knows.
RECURSIVE NullableIn(_, _, _)
NullableIn(e, g, visiting) ==
    CASE e.kind = "seq" -> \A p \in Range(e.parts) : NullableIn(p, g, visiting)
      [] e.kind = "choice" -> \E p \in Range(e.parts) : NullableIn(p, g, visiting)
      [] e.kind = "repeat" -> e.how # "+" \/ NullableIn(e.inner, g, visiting)
      [] e.kind = "lookahead" -> TRUE
      [] e.kind = "bind" -> NullableIn(e.inner, g, visiting)
      [] e.kind = "literal" -> e.value = <<>>
      [] e.kind = "range" -> FALSE
      [] e.kind = "ref" ->
            \/ e.name \in {"SOI", "EOI"}
            \/ /\ ~IsToken(g, e.name) /\ e.name \notin visiting /\ IsRule(g, e.name)
               /\ \E body \in Bodies(RuleOf(g, e.name)) :
                     NullableIn(body, g, visiting \cup {e.name})
Nullable(e, g) == NullableIn(e, g, {})

RECURSIVE IsPureLiteral(_)
IsPureLiteral(e) ==
    \/ e.kind = "literal"
    \/ e.kind \in {"seq", "bind"} /\ \A p \in Range(Parts(e)) : IsPureLiteral(p)

\* The text e must begin with: empty if it is not known.
RECURSIVE LeadingLiteral(_)
LeadingLiteral(e) ==
    CASE e.kind = "seq" ->
            LET whole(p) == IsPureLiteral(p) /\ LeadingLiteral(p) # <<>>
                last == SelectInSeq(e.parts, LAMBDA p : ~whole(p))
                taken == IF last = 0 THEN e.parts ELSE SubSeq(e.parts, 1, last)
            IN FlattenSeq([i \in DOMAIN taken |-> LeadingLiteral(taken[i])])
      [] e.kind = "bind" \/ (e.kind = "repeat" /\ e.how = "+") -> LeadingLiteral(e.inner)
      [] e.kind = "literal" -> e.value
      [] OTHER -> <<>>

\* Whether e is a fixed text, and which it is.
HasLiteralText(e) == IsPureLiteral(e) /\ LeadingLiteral(e) # <<>>

FoldsCase(e) == \E x \in Walk(e) : x.kind = "literal" /\ x.folds

\* The rules e can begin with.  A mutant takes the first part of a sequence only.
RECURSIVE FirstRefs(_, _)
FirstRefs(e, g) ==
    CASE e.kind = "seq" -> FirstRefs(e.parts[1], g)
      [] e.kind \in {"choice", "repeat", "bind"} -> UNION {FirstRefs(p, g) : p \in Range(Parts(e))}
      [] e.kind = "ref" -> {e.name}
      [] OTHER -> {}

RECURSIVE LeadingRefs(_, _)
LeadingRefs(e, g) ==
    CASE e.kind = "seq" ->
            UNION {LeadingRefs(e.parts[i], g) :
                     i \in {j \in DOMAIN e.parts :
                              \A k \in 1..j - 1 : Nullable(e.parts[k], g)}}
      [] e.kind \in {"choice", "repeat", "bind"} ->
            UNION {LeadingRefs(p, g) : p \in Range(Parts(e))}
      [] e.kind = "ref" -> {e.name}
      [] OTHER -> {}

=============================================================================
