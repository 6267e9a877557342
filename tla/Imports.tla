-------------------------------- MODULE Imports --------------------------------
(***************************************************************************)
(* Loading a grammar and what it imports, and merging the files into one   *)
(* (nh-syntax/src/import.rs).  Every action is one call of Loader::load,   *)
(* or the return of one: files may change between two of them.             *)
(*                                                                         *)
(* A file holds Missing, Unreadable, or a text: whether it parses, the     *)
(* files it imports, what it declares, in order, and its settings.         *)
(***************************************************************************)
EXTENDS Integers, Sequences, FiniteSets, SequencesExt

CONSTANTS
    Paths,      \* the files there may be, by canonical path
    Entry       \* the one loading begins with
ASSUME EntryIsAPath == Entry \in Paths

VARIABLES
    sources,    \* what each file holds
    loading,    \* the loads under way, innermost last: Loader::stack with each
                \* load's text and how far in its imports it is
    seen,       \* Loader::seen
    files,      \* Loader::files
    problems    \* the diagnostics

loader == <<loading, seen, files, problems>>

Missing == [kind |-> "missing"]
Unreadable == [kind |-> "unreadable"]
IsText(held) == held.kind = "text"
Parses(held) == IsText(held) /\ held.parses

\* What a file may hold.  A text declares tokens, what is skipped and rules, which
\* have alternatives.
IsFile(held) ==
    \/ held \in {Missing, Unreadable}
    \/ /\ IsText(held) /\ held.parses \in BOOLEAN /\ held.imports \in Seq(Paths)
       /\ held.declares \in Seq(Range(held.declares))
       /\ \A d \in Range(held.declares) :
             /\ d.kind \in {"skip", "token", "rule"}
             /\ d.kind = "rule" => d.alternatives \in Seq(Range(d.alternatives))

Problem(what, about) == [what |-> what, about |-> about]

---------------------------------------------------------------------------
(* Loading                                                                 *)

Top == Last(loading)
OnStack(path) == \E i \in DOMAIN loading : loading[i].path = path

\* The load that is called next, if one is.
Started == seen # {} \/ problems # <<>>
Called ==
    IF loading = <<>> THEN (IF Started THEN {} ELSE {Entry})
    ELSE IF Top.next > Len(Top.text.imports) THEN {}
    ELSE {Top.text.imports[Top.next]}
Loaded == loading = <<>> /\ Started

\* The importer goes on with its next import.
Returned == IF loading = <<>> THEN loading ELSE [loading EXCEPT ![Len(loading)].next = @ + 1]
Return(newSeen, newProblems) ==
    /\ loading' = Returned
    /\ seen' = newSeen
    /\ problems' = newProblems
    /\ UNCHANGED files

CannotRead ==
    \E path \in Called :
        /\ \/ sources[path] = Missing
           \/ sources[path] = Unreadable /\ ~OnStack(path) /\ path \notin seen
        /\ Return(seen, Append(problems, Problem("cannot read", path)))

Cycle ==
    \E path \in Called :
        /\ sources[path] # Missing
        /\ OnStack(path)
        /\ Return(seen, Append(problems, Problem("import cycle", path)))

\* A mutant: a file is seen only when it has been loaded.
SeenInFull(path) == \E i \in DOMAIN files : files[i].path = path

AlreadySeen(path) == path \in seen

Diamond ==
    \E path \in Called :
        /\ sources[path] # Missing
        /\ ~OnStack(path)
        /\ AlreadySeen(path)
        /\ Return(seen, problems)

DoesNotParse ==
    \E path \in Called :
        /\ IsText(sources[path]) /\ ~sources[path].parses
        /\ ~OnStack(path) /\ ~AlreadySeen(path)
        /\ Return(seen \cup {path}, Append(problems, Problem("syntax", path)))

Open ==
    \E path \in Called :
        /\ Parses(sources[path])
        /\ ~OnStack(path) /\ ~AlreadySeen(path)
        /\ loading' = Append(Returned, [path |-> path, text |-> sources[path], next |-> 1])
        /\ seen' = seen \cup {path}
        /\ UNCHANGED <<files, problems>>

\* Every import has been loaded: the file is recorded, after them.
Finish ==
    /\ loading # <<>>
    /\ Called = {}
    /\ loading' = Front(loading)
    /\ files' = Append(files, [path |-> Top.path, text |-> Top.text])
    /\ UNCHANGED <<seen, problems>>

Load ==
    /\ CannotRead \/ Cycle \/ Diamond \/ DoesNotParse \/ Open \/ Finish
    /\ UNCHANGED sources

LoaderReset == loading = <<>> /\ seen = {} /\ files = <<>> /\ problems = <<>>

---------------------------------------------------------------------------
(* Merging                                                                 *)

\* The elements that pass a test, in order.
Select(s, Test(_)) == FlattenSeq([i \in DOMAIN s |-> IF Test(s[i]) THEN <<s[i]>> ELSE <<>>])
OfKind(declared, kind) == Select(declared, LAMBDA d : d.kind = kind)
Declarations(text) ==
    OfKind(text.declares, "skip") \o OfKind(text.declares, "token") \o OfKind(text.declares, "rule")

\* The settings a grammar has once; `same` is whether a second, equal value is
\* accepted.
Settle(out, field, value, same) ==
    IF value = "none" THEN out
    ELSE IF out[field] = "none" THEN [out EXCEPT ![field] = value]
    ELSE IF same /\ out[field] = value THEN out
    ELSE [out EXCEPT !.problems = Append(@, Problem("conflicting", field))]

\* One namespace for everything declared: the first of a name is kept.
Declare(out, d) ==
    IF \E i \in DOMAIN out.declares : out.declares[i].name = d.name
    THEN [out EXCEPT !.problems = Append(@, Problem("already defined", d.name))]
    ELSE [out EXCEPT !.declares = Append(@, d)]

MergeFile(out, file) ==
    LET text == file.text
        settled == Settle(Settle(Settle(out, "grammar", text.grammar, FALSE),
                                 "target", text.target, TRUE),
                          "keywords", text.keywords, TRUE)
        declared == FoldLeft(Declare, settled, Declarations(text))
    IN [declared EXCEPT !.lints = @ \/ text.lints, !.unsupported = @ \/ text.unsupported]

\* The entry rule is the first of the last file recorded.  The imports of the
\* files are not merged.
EntryRule(recorded) ==
    LET rules == OfKind(Last(recorded).text.declares, "rule")
    IN IF recorded = <<>> \/ rules = <<>> THEN "none" ELSE rules[1].name

Merge(recorded) ==
    LET out == FoldLeft(MergeFile,
                        [grammar |-> "none", target |-> "none", keywords |-> "none",
                         entry_rule |-> EntryRule(recorded), imports |-> {},
                         declares |-> <<>>, lints |-> FALSE, unsupported |-> FALSE,
                         problems |-> <<>>],
                        recorded)
    IN IF out.grammar = "none"
       THEN [out EXCEPT !.problems = Append(@, Problem("no grammar", Entry))]
       ELSE out

---------------------------------------------------------------------------
(* What the loader is to do, said of the graph of imports                  *)

ImportsOf(path) == IF Parses(sources[path]) THEN Range(sources[path].imports) ELSE {}
\* The least set of files that has those of `from` and whatever a file in it imports.
Reach(from) ==
    {p \in Paths : \A all \in SUBSET Paths :
        from \subseteq all /\ (\A q \in all : ImportsOf(q) \subseteq all) => p \in all}
Reached == Reach({Entry})
OnCycle(path) == path \in Reach(ImportsOf(path))

\* Every file reached is merged once, after what it imports, the entry file
\* last (import.rs, "Post-order: dependencies are recorded before their importer").
MergedOnceInOrder ==
    LET at(path) == {i \in DOMAIN files : files[i].path = path}
    IN /\ \A p \in Reached : Cardinality(at(p)) = 1
       /\ \A p \in Reached : \A q \in ImportsOf(p) : \A i \in at(p), j \in at(q) : j < i
       /\ Last(files).path = Entry
       /\ Len(files) = Cardinality(Reached)

\* The files there is something to say about, whatever the order they are met in:
\* those that cannot be read, those that do not parse, once each however many
\* import them, and a file of a cycle.
ProblemsOfGraph ==
    /\ \A p \in Reached : ~Parses(sources[p]) => \E i \in DOMAIN problems : problems[i].about = p
    /\ \A i, j \in DOMAIN problems :
          problems[i] = problems[j] /\ problems[i].what = "syntax" => i = j
    /\ (\E p \in Reached : OnCycle(p)) => \E i \in DOMAIN problems : problems[i].what = "import cycle"
    /\ \A i \in DOMAIN problems :
          LET p == problems[i]
          IN IF p.what = "import cycle" THEN OnCycle(p.about)
             ELSE p.about \in Reached /\ ~Parses(sources[p.about])

=============================================================================
