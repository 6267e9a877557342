------------------------------- MODULE MCBuild -------------------------------
(***************************************************************************)
(* `Graphs`: every graph of imports between three files, some of which may *)
(* not be read or parsed, built once and never edited.  `Projects`: one of *)
(* two files, edited and built several times, with builds cut short.       *)
(***************************************************************************)
EXTENDS Build, TLC

Param(name, shape) == [name |-> name, shape |-> shape]
XY == <<Param("x", "value"), Param("y", "value")>>
YX == <<Param("y", "value"), Param("x", "value")>>
MCParamLists == {XY, YX}

Text(imports, declares) ==
    [kind |-> "text", parses |-> TRUE, imports |-> imports, grammar |-> "none", target |-> "none",
     keywords |-> "none", declares |-> declares, lints |-> FALSE, unsupported |-> FALSE]
Grammar(imports, declares) == [Text(imports, declares) EXCEPT !.grammar = "G"]
Broken == [Text(<<>>, <<>>) EXCEPT !.parses = FALSE]
Token(name) == [kind |-> "token", name |-> name, alternatives |-> <<>>]
Rule(name, alts) == [kind |-> "rule", name |-> name, alternatives |-> alts]
Alt(label, params) == [label |-> label, params |-> params]

---------------------------------------------------------------------------

Lists == {<<>>, <<"lib">>, <<"more">>, <<"lib", "more">>, <<"more", "lib">>}
Loops == {<<"main">>, <<"more", "main">>}
Single == Rule("program", <<Alt("run", XY)>>)
Others == {Missing, Unreadable, Broken}
LibTexts == UNION {Others, {Text(l, <<Token("T")>>) : l \in UNION {Lists, Loops}}}
MoreTexts == UNION {Others, {Text(l, <<Token(t)>>) : l \in UNION {Lists, Loops}, t \in {"T", "U"}}}
MainTexts == UNION {{Broken, Missing},
                    {Grammar(l, <<Single>>) : l \in UNION {Lists, Loops, {<<"lib", "lib">>}}}}
Graphs ==
    {[sources |-> [main |-> m, lib |-> l, more |-> o], disk |-> <<>>,
      budget |-> [edits |-> 0, works |-> 0, builds |-> 1, breaks |-> 0]] :
        m \in MainTexts, l \in LibTexts, o \in MoreTexts}

---------------------------------------------------------------------------

Flipped == Rule("program", <<Alt("run", YX)>>)
Grouped == Rule("program", <<Alt("run", XY), Alt("stop", <<>>)>>)
MCTexts ==
    [main |-> {Grammar(<<"lib">>, <<Token("T"), r>>) : r \in {Single, Flipped, Grouped}},
     lib |-> {Text(<<>>, <<Token("U")>>), Text(<<>>, <<Token("T")>>), Broken,
              [Text(<<>>, <<Token("U")>>) EXCEPT !.target = "vm", !.unsupported = TRUE],
              [Text(<<>>, <<Token("U")>>) EXCEPT !.lints = TRUE]},
     more |-> {Missing}]
\* The layout before, and one that was built again before its handlers had moved.
OldLayout == (<<"handlers", "program", "run", "flat">> :> Work(0, XY))
Beside == (<<"handlers", "program", "run">> :> Stub(XY)) @@ OldLayout
Budgets ==
    {[edits |-> 1, works |-> 1, builds |-> 2, breaks |-> 1],
     [edits |-> 2, works |-> 0, builds |-> 2, breaks |-> 0]}
Project(rule, d, b) ==
    [sources |-> [main |-> Grammar(<<"lib">>, <<Token("T"), rule>>),
                  lib |-> Text(<<>>, <<Token("U")>>), more |-> Missing],
     disk |-> d, budget |-> b]
Projects ==
    UNION {{Project(r, <<>>, b) : r \in {Single, Grouped}, b \in Budgets},
           {Project(Grouped, d, [edits |-> 1, works |-> 1, builds |-> 1, breaks |-> 1]) :
              d \in {OldLayout, Beside}}}

\* A handler of the old layout for an alternative labelled `mod`, in place of MCStarts:
\* the build that moves it overwrites it, and WorkKept is violated.
Modulo == Rule("program", <<Alt("run", XY), Alt("mod", XY)>>)
NamedMod ==
    {Project(Modulo, (<<"handlers", "program", "mod", "flat">> :> Work(0, XY)),
             [edits |-> 0, works |-> 0, builds |-> 1, breaks |-> 0])}

MCStarts == UNION {Graphs, Projects}
MCPaths == {"main", "lib", "more"}
=============================================================================
