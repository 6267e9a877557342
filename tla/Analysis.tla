------------------------------- MODULE Analysis -------------------------------
(***************************************************************************)
(* The determinism lints (nh-analysis/src/lints.rs, lib.rs): what a        *)
(* grammar is told to be wrong with before any program is parsed.          *)
(***************************************************************************)
EXTENDS Grammars

Lints ==
    {"left-recursion", "nullable-repetition", "shadow", "unreachable-alternative",
     "duplicate-binding", "unused", "recover-sync", "silent-binding"}

\* allow <lint> in <rule>;
Allowed(g, lint, rule) == [lint |-> lint, rule |-> rule] \in g.allows

Owned(g) ==
    UNION {{[owner |-> r.name, body |-> b] : b \in Bodies(r)} : r \in Range(g.rules)}
OfTokens(g) == {[owner |-> t.name, body |-> t.body] : t \in Range(g.tokens)}

\* reaches_itself
RECURSIVE ReachedAtStart(_, _)
ReachedAtStart(names, g) ==
    LET next == names \cup UNION {UNION {LeadingRefs(b, g) : b \in Bodies(RuleOf(g, n))} :
                                    n \in {m \in names : IsRule(g, m)}}
    IN IF next = names THEN names ELSE ReachedAtStart(next, g)
LeftRecursive(g, name) ==
    name \in ReachedAtStart(UNION {LeadingRefs(b, g) : b \in Bodies(RuleOf(g, name))}, g)

RepeatsNothing(e, g) ==
    \E x \in Walk(e) : x.kind = "repeat" /\ x.how # "?" /\ Nullable(x.inner, g)

\* Alternative j of a rule is shadowed by an earlier one, i, that is a fixed text
\* a longer one must begin with.  A mutant lets i go on after that text.
ShadowsByStart(g, i, j) ==
    LET fold == g.folds \/ FoldsCase(i) \/ FoldsCase(j)
    IN LeadingLiteral(i) # <<>>
       /\ IsStrictPrefix(Folded(LeadingLiteral(i), fold), Folded(LeadingLiteral(j), fold))

Shadows(g, i, j) ==
    LET fold == g.folds \/ FoldsCase(i) \/ FoldsCase(j)
    IN HasLiteralText(i)
       /\ IsStrictPrefix(Folded(LeadingLiteral(i), fold), Folded(LeadingLiteral(j), fold))

Shadowed(g, name, j) ==
    LET alternatives == RuleOf(g, name).alternatives
    IN \E i \in 1..j - 1 : Shadows(g, alternatives[i].body, alternatives[j].body)

\* The alternatives of a rule after the first that can match nothing.
Unreachable(g, name) ==
    LET alternatives == RuleOf(g, name).alternatives
    IN {j \in DOMAIN alternatives : \E i \in 1..j - 1 : Nullable(alternatives[i].body, g)}

\* scope_bindings: the names a scope binds, and whether it binds one twice.  What
\* repeats is a scope of its own, and is not looked into.
RECURSIVE Bound(_)
Bound(e) ==
    CASE e.kind \in {"seq", "choice"} -> UNION {Bound(p) : p \in Range(e.parts)}
      [] e.kind = "bind" -> {e.name} \cup Bound(e.inner)
      [] OTHER -> {}
RECURSIVE BindsTwice(_)
BindsTwice(e) ==
    /\ e.kind \in {"seq", "choice", "bind"}
    /\ \/ \E p \in Range(Parts(e)) : BindsTwice(p)
       \/ /\ e.kind = "seq"
          /\ \E i, j \in DOMAIN e.parts : i < j /\ Bound(e.parts[i]) \cap Bound(e.parts[j]) # {}

Referenced(g) ==
    UNION {UNION {RefsIn(o.body) : o \in UNION {Owned(g), OfTokens(g)}},
           UNION {{r.rule} \cup RefsIn(r.sync) : r \in Range(g.recovers)},
           {r.token : r \in Range(g.reserved)},
           {g.atom, g.entry}}
Unused(g) ==
    {n \in UNION {RuleNames(g), {t.name : t \in Range(g.tokens)}} : n \notin Referenced(g)}

\* A binding of a rule that makes no node, repeated or not.
BindsSilent(e, g) ==
    \E x \in Walk(e) :
        /\ x.kind = "bind"
        /\ LET target == IF x.inner.kind = "repeat" THEN x.inner.inner ELSE x.inner
           IN /\ target.kind = "ref" /\ IsRule(g, target.name)
              /\ RuleOf(g, target.name).silent

---------------------------------------------------------------------------

Lint(name, rule, severity) == [lint |-> name, rule |-> rule, severity |-> severity]
Errors(name, rules) == {Lint(name, r, "error") : r \in rules}
Warnings(name, rules) == {Lint(name, r, "warning") : r \in rules}
Owners(owned) == {o.owner : o \in owned}

\* analyse: the rules each lint finds fault with.
Found(g) ==
    LET names == RuleNames(g)
        bodies == UNION {Owned(g), OfTokens(g)}
    IN UNION {
         Errors("left-recursion", {r \in names : LeftRecursive(g, r)}),
         Errors("nullable-repetition", Owners({o \in bodies : RepeatsNothing(o.body, g)})),
         Warnings("shadow", {r \in names : \E j \in DOMAIN RuleOf(g, r).alternatives : Shadowed(g, r, j)}),
         Errors("unreachable-alternative", {r \in names : Unreachable(g, r) # {}}),
         Warnings("duplicate-binding", Owners({o \in Owned(g) : BindsTwice(o.body)})),
         Warnings("unused", Unused(g)),
         Errors("recover-sync", {r.rule : r \in {s \in Range(g.recovers) : Nullable(s.sync, g)}}),
         Errors("silent-binding", Owners({o \in Owned(g) : BindsSilent(o.body, g)}))}

Analyse(g) ==
    UNION {{l \in Found(g) : ~Allowed(g, l.lint, l.rule)},
           {Lint("unknown lint", a.rule, "error") : a \in {b \in g.allows : b.lint \notin Lints}}}

Passes(g) == \A l \in Analyse(g) : l.severity # "error"

=============================================================================
