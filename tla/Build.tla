--------------------------------- MODULE Build ---------------------------------
(***************************************************************************)
(* Building a project from its grammar, by its build script (nh-build) or  *)
(* by hand (`nh build --rust`, nh-cli/src/main.rs), with the handlers a    *)
(* build makes once and the author then owns (nh-codegen, stubs.rs and     *)
(* drift.rs).                                                              *)
(*                                                                         *)
(* A build reads and writes one file at a time; the author edits the       *)
(* grammar and the handlers meanwhile, and a build may be cut short at any *)
(* step, by a crash or by a file that cannot be written.                   *)
(*                                                                         *)
(* What is generated is modelled by what it is made from: its `text`.      *)
(***************************************************************************)
EXTENDS Imports

CONSTANTS
    Texts,          \* Texts[p]: what the author may write into file p
    ParamLists,     \* and the parameters a handler may be given
    Starts,         \* how a project may begin: its files, and the budget for it
    ScriptTarget    \* the target its build script names, or "none"

\* The files of handlers, and what a file under src/ may be.
IsHandler(path) == path[1] = "handlers" /\ Last(path) # "mod"
Kinds == {"generated", "stub", "work", "torn"}

ASSUME BuildAssumption ==
    /\ \A p \in Paths : \A held \in Texts[p] : IsFile(held)
    /\ \A start \in Starts :
          /\ start.sources = [p \in Paths |-> start.sources[p]]
          /\ \A p \in Paths : IsFile(start.sources[p])
          /\ start.disk = [p \in DOMAIN start.disk |-> start.disk[p]]
          /\ \A p \in DOMAIN start.disk :
                /\ start.disk[p].kind \in Kinds
                /\ start.disk[p].kind = "work" => IsHandler(p)
          /\ start.budget \in [edits : Nat, works : Nat, builds : Nat, breaks : Nat]

VARIABLES
    disk,       \* the files under src/ that builds and the author write
    job,        \* the build that runs, or NoJob
    last,       \* how the last one ended
    budget      \* bounds: the edits, builds and breaks there may still be

allvars == <<sources, loader, disk, job, last, budget>>

NoJob == [tool |-> "none"]
Tools == {"cargo", "nh"}
Script == [tool |-> "cargo", prune |-> FALSE, force |-> FALSE]
\* --force is of use with --prune only.
ByHand ==
    {[tool |-> "nh", prune |-> FALSE, force |-> FALSE],
     [tool |-> "nh", prune |-> TRUE, force |-> FALSE],
     [tool |-> "nh", prune |-> TRUE, force |-> TRUE]}

---------------------------------------------------------------------------
(* What is generated                                                       *)

\* Lowered::alternatives.  One is grouped if its rule has others.
Alternatives(merged) ==
    LET ofRule(rule) ==
            [i \in DOMAIN rule.alternatives |->
                [rule |-> rule.name, label |-> rule.alternatives[i].label,
                 params |-> rule.alternatives[i].params,
                 grouped |-> Len(rule.alternatives) > 1]]
        rules == OfKind(merged.declares, "rule")
    IN FlattenSeq([i \in DOMAIN rules |-> ofRule(rules[i])])

HandlerPath(alt) ==
    IF alt.grouped THEN <<"handlers", alt.rule, alt.label>> ELSE <<"handlers", alt.rule>>
\* Where a grouped one was in the old layout: its name there is rule_label.
FlatPath(alt) == <<"handlers", alt.rule, alt.label, "flat">>
Pest == <<"pest">>

Generated(text) == [kind |-> "generated", text |-> text]
Stub(params) == [kind |-> "stub", params |-> params]
\* Work is what one author wrote at one time.
Work(by, params) == [kind |-> "work", by |-> by, params |-> params]
\* A file whose writing was cut short.
Torn == [kind |-> "torn"]
Implemented(held) == held.kind \in {"work", "torn"}

Write(place, name, text) == [do |-> "write", place |-> place, name |-> name, text |-> text]
Create(alt) == [do |-> "create", alt |-> alt]
PathOf(step) ==
    CASE step.do = "create" -> HandlerPath(step.alt)
      [] step.do = "write" /\ step.place = "pest" -> Pest
      [] step.do = "write" /\ step.place = "generated" -> <<"generated", step.name>>
      [] step.do = "write" /\ step.place = "handlers" -> <<"handlers", "mod">>
      [] OTHER -> <<"handlers", step.name, "mod">>

\* generate: the files, in the order they are written.
FilesOf(merged, target) ==
    LET alts == Alternatives(merged)
        labels(rule) == {alts[i].label : i \in {j \in DOMAIN alts : alts[j].rule = rule}}
        grouped == {alts[i].rule : i \in {j \in DOMAIN alts : alts[j].grouped}}
    IN <<Write("generated", "dispatch", [alternatives |-> alts])>>
       \o (IF target = "none" THEN <<>> ELSE <<Write("generated", "vm_operators", [target |-> target])>>)
       \o <<Write("generated", "mod", [target |-> target])>>
       \o [i \in DOMAIN alts |-> Create(alts[i])]
       \o <<Write("handlers", "mod", [names |-> {alts[i].rule : i \in DOMAIN alts}])>>
       \o SetToSeq({Write("rule", rule, [names |-> labels(rule)]) : rule \in grouped})

PestOf(merged) == [declares |-> merged.declares, entry |-> merged.entry_rule]

\* check: how the parameters of a handler disagree with the grammar.  One cut
\* short has no signature to read.
Drift(alt, held) ==
    LET names(params) == [i \in DOMAIN params |-> params[i].name]
        expected == names(alt.params)
        found == names(held.params)
    IN IF held.kind = "torn" THEN "none"
       ELSE IF Len(expected) # Len(found) THEN "arity"
       ELSE IF expected = found THEN (IF held.params = alt.params THEN "none" ELSE "retyped")
       ELSE IF Range(expected) = Range(found) THEN "reordered"
       ELSE "renamed"
IsError(drift) == drift \in {"arity", "retyped", "reordered"}

\* What is done once the grammar is resolved, in order.
TargetOf(tool, merged) == IF tool = "cargo" THEN ScriptTarget ELSE merged.target
Plan(tool, merged) ==
    LET alts == Alternatives(merged)
        grouped == Select(alts, LAMBDA a : a.grouped)
        byHand(do) == IF tool = "nh" THEN <<[do |-> do]>> ELSE <<>>
    IN <<Write("pest", "pest", PestOf(merged)), [do |-> "check target"]>>
       \o [i \in DOMAIN grouped |-> [do |-> "migrate", alt |-> grouped[i]]]
       \o byHand("sweep")
       \o FilesOf(merged, TargetOf(tool, merged))
       \o byHand("prune")
       \o <<[do |-> "report"]>>

---------------------------------------------------------------------------
(* The author                                                              *)

Spend(what) ==
    /\ budget[what] > 0
    /\ budget' = [budget EXCEPT ![what] = @ - 1]

Edit ==
    /\ Spend("edits")
    /\ \E path \in Paths : \E held \in Texts[path] \ {sources[path]} :
          sources' = [sources EXCEPT ![path] = held]
    /\ UNCHANGED <<loader, disk, job, last>>

\* A stub, or what is left of one, is written; or written again.
Implement ==
    /\ Spend("works")
    /\ \E path \in {p \in DOMAIN disk : IsHandler(p)}, params \in ParamLists :
          LET by == IF disk[path].kind = "work" THEN disk[path].by ELSE budget.works
          IN /\ disk[path] # Work(by, params)
             /\ disk' = [disk EXCEPT ![path] = Work(by, params)]
    /\ UNCHANGED <<sources, loader, job, last>>

---------------------------------------------------------------------------
(* A build                                                                 *)

\* Whether cargo would run the build script: it never has, the last run failed,
\* or a file it was told to watch has changed.
\* `watch` is empty, or what it was told to watch held.
NeedsRun ==
    IF last.watch = <<>> THEN TRUE
    ELSE \E p \in DOMAIN last.watch[1] : sources[p] # last.watch[1][p]

Begin ==
    /\ job = NoJob
    /\ Spend("builds")
    /\ \E how \in {Script} \cup ByHand :
          /\ how.tool = "cargo" => NeedsRun
          /\ job' = [tool |-> how.tool, prune |-> how.prune, force |-> how.force,
                     doing |-> "loading", began |-> sources, since |-> budget.edits,
                     merged |-> Merge(<<>>), todo |-> <<>>]
    /\ loading' = <<>> /\ seen' = {} /\ files' = <<>> /\ problems' = <<>>
    /\ UNCHANGED <<sources, disk, last>>

\* It ends.  Cargo is told to watch the entry file and the merged grammar's imports.
Watched == {Entry} \cup job.merged.imports
End(ok) ==
    /\ job' = NoJob
    /\ last' = [tool |-> job.tool, ok |-> ok, since |-> job.since, works |-> budget.works,
                prune |-> job.prune, force |-> job.force,
                watch |-> IF job.tool = "nh" THEN last.watch
                          ELSE IF ok THEN <<[p \in Watched |-> job.began[p]]>>
                          ELSE <<>>]

Loading ==
    /\ job # NoJob /\ job.doing = "loading"
    /\ Load
    /\ UNCHANGED <<disk, job, last, budget>>

\* Whether the grammar stops the build; only the script analyses it.
Refused(merged) ==
    \/ problems # <<>> \/ merged.problems # <<>>
    \/ job.tool = "cargo" /\ merged.lints

Resolve ==
    /\ job # NoJob /\ job.doing = "loading"
    /\ Loaded
    /\ LET merged == Merge(files)
       IN IF Refused(merged) THEN End(FALSE)
          ELSE /\ job' = [job EXCEPT !.doing = "writing", !.merged = merged,
                                     !.todo = Plan(job.tool, merged)]
               /\ UNCHANGED last
    /\ UNCHANGED <<sources, loader, disk, budget>>

Now(do) == job # NoJob /\ job.doing = "writing" /\ Head(job.todo).do = do
Step == Head(job.todo)
Done == job' = [job EXCEPT !.todo = Tail(@)] /\ UNCHANGED last
\* The files with one more, or another in its place; and without one.
With(d, path, held) == [p \in DOMAIN d \cup {path} |-> IF p = path THEN held ELSE d[p]]
Without(d, path) == Restrict(d, DOMAIN d \ {path})
Delete(path) == disk' = Without(disk, path)

\* A generated file is always written.  A mutant keeps the one there is.
WritesIfMissing(path) == path \notin DOMAIN disk

Writes(path) == TRUE

WriteGenerated ==
    /\ Now("write")
    /\ disk' = IF Writes(PathOf(Step)) THEN With(disk, PathOf(Step), Generated(Step.text)) ELSE disk
    /\ Done
    /\ UNCHANGED <<sources, loader, budget>>

\* A handler is made once.
CreateStub ==
    /\ Now("create")
    /\ disk' = IF PathOf(Step) \in DOMAIN disk THEN disk
               ELSE With(disk, PathOf(Step), Stub(Step.alt.params))
    /\ Done
    /\ UNCHANGED <<sources, loader, budget>>

CheckTarget ==
    /\ Now("check target")
    /\ IF job.merged.unsupported /\ TargetOf(job.tool, job.merged) # "none" THEN End(FALSE) ELSE Done
    /\ UNCHANGED <<sources, loader, disk, budget>>

\* migrate_flat_handlers: the old file moves unless there is a new one already,
\* other than a stub beside real work.
Replaces(from, to) == disk[to].kind = "stub" /\ disk[from].kind # "stub"

From == FlatPath(Step.alt)
To == HandlerPath(Step.alt)

RemoveReplaced ==
    /\ Now("migrate")
    /\ {From, To} \subseteq DOMAIN disk
    /\ Replaces(From, To)
    /\ Delete(To)
    /\ UNCHANGED <<sources, loader, job, last, budget>>

Migrate ==
    /\ Now("migrate")
    /\ IF From \in DOMAIN disk /\ To \notin DOMAIN disk
       THEN disk' = With(Without(disk, From), To, disk[From])
       ELSE /\ {From, To} \subseteq DOMAIN disk => ~Replaces(From, To)
            /\ UNCHANGED disk
    /\ Done
    /\ UNCHANGED <<sources, loader, budget>>

\* sweep_generated and prune_orphans remove their files one by one.
Produced == {PathOf(f) : f \in Range(FilesOf(job.merged, TargetOf(job.tool, job.merged)))}
Stale == {p \in DOMAIN disk : p[1] = "generated" /\ p \notin Produced}

Orphans == {p \in DOMAIN disk : IsHandler(p) /\ p \notin Produced}
\* A mutant forgets that a handler may hold work.
PrunableAll == IF job.prune THEN Orphans ELSE {}

Prunable == IF job.prune THEN {p \in Orphans : ~Implemented(disk[p]) \/ job.force} ELSE {}

RemoveOld ==
    /\ Now("sweep") \/ Now("prune")
    /\ LET old == IF Step.do = "sweep" THEN Stale ELSE Prunable
       IN IF old = {} THEN Done /\ UNCHANGED disk
          ELSE (\E path \in old : Delete(path)) /\ UNCHANGED <<job, last>>
    /\ UNCHANGED <<sources, loader, budget>>

\* The script's report of drift does not fail the build.
DriftErrors ==
    {alt \in Range(Alternatives(job.merged)) :
        HandlerPath(alt) \in DOMAIN disk /\ IsError(Drift(alt, disk[HandlerPath(alt)]))}
Report ==
    /\ Now("report")
    /\ End(job.tool = "cargo" \/ DriftErrors = {})
    /\ UNCHANGED <<sources, loader, disk, budget>>

\* A crash, or a file that cannot be read or written; one being written may be
\* left cut short.
Break ==
    /\ job # NoJob
    /\ Spend("breaks")
    /\ \/ UNCHANGED disk
       \/ /\ Now("write") \/ Now("create")
          /\ Now("create") => PathOf(Step) \notin DOMAIN disk
          /\ disk' = With(disk, PathOf(Step), Torn)
    /\ End(FALSE)
    /\ UNCHANGED <<sources, loader>>

---------------------------------------------------------------------------

Init ==
    /\ \E start \in Starts :
          /\ sources = start.sources
          /\ disk = start.disk
          /\ budget = start.budget
    /\ LoaderReset
    /\ job = NoJob
    /\ last = [tool |-> "none", ok |-> FALSE, since |-> 0, works |-> 0,
               prune |-> FALSE, force |-> FALSE, watch |-> <<>>]

Next ==
    \/ Edit \/ Implement
    \/ Begin \/ Loading \/ Resolve
    \/ WriteGenerated \/ CreateStub \/ CheckTarget
    \/ RemoveReplaced \/ Migrate \/ RemoveOld
    \/ Report \/ Break

Spec == Init /\ [][Next]_allvars

---------------------------------------------------------------------------
(* Properties                                                              *)

\* Types: a file is generated, a handler, or torn; a build has all its fields, and
\* began when no fewer edits were left.
JobFields == {"tool", "prune", "force", "doing", "began", "since", "merged", "todo"}
TypeOK ==
    /\ sources = [p \in Paths |-> sources[p]] /\ \A p \in Paths : IsFile(sources[p])
    /\ disk = [p \in DOMAIN disk |-> disk[p]] /\ \A p \in DOMAIN disk : disk[p].kind \in Kinds
    /\ budget \in [edits : Nat, works : Nat, builds : Nat, breaks : Nat]
    /\ job # NoJob =>
          /\ job = [f \in JobFields |-> job[f]]
          /\ job.tool \in Tools /\ job.doing \in {"loading", "writing"}
          /\ job.since \in Nat /\ budget.edits <= job.since

Unedited == job # NoJob /\ job.since = budget.edits
JustLoaded == job # NoJob /\ job.doing = "loading" /\ Loaded /\ Unedited

\* A grammar is merged from every file it reaches, once, what is imported first,
\* unless there is something to say; and something is said exactly of what cannot
\* be read or parsed and of cycles, by whatever path they are met (import.rs, load).
ImportsLoaded ==
    JustLoaded =>
        /\ problems = <<>> => MergedOnceInOrder
        /\ ProblemsOfGraph

\* What the grammar is, said of the files: everything they declare, and the
\* entry file's first rule, if it has one.
AllDeclared == UNION {Range(sources[p].declares) : p \in Reached}
FirstRule(path) ==
    LET rules == OfKind(sources[path].declares, "rule")
    IN IF rules = <<>> THEN "none" ELSE rules[1].name

\* A build that ended well has left a whole project, whatever was there before and
\* however earlier builds ended (nh-build, try_run; main.rs, emit_rust): every
\* name declared once, everything generated made from the grammar as it is, a file
\* for every handler; by hand, nothing else generated, and no handler that is
\* given its parameters wrongly.
SuccessIsWhole ==
    job = NoJob /\ last.ok /\ last.since = budget.edits =>
        LET merged == Merge(files)
            alts == Range(Alternatives(merged))
            steps == Range(FilesOf(merged, TargetOf(last.tool, merged)))
        IN /\ Range(merged.declares) = AllDeclared
           /\ \A d, e \in AllDeclared : d.name = e.name => d = e
           /\ disk[Pest] = Generated([declares |-> merged.declares, entry |-> FirstRule(Entry)])
           /\ \A s \in steps :
                 /\ PathOf(s) \in DOMAIN disk
                 /\ s.do = "write" => disk[PathOf(s)] = Generated(s.text)
           /\ last.tool = "nh" =>
                 /\ \A p \in DOMAIN disk : p[1] = "generated" => \E s \in steps : PathOf(s) = p
                 /\ last.works = budget.works =>
                       \A a \in alts : ~IsError(Drift(a, disk[HandlerPath(a)]))

\* No build loses what an author has written, unless asked to with --prune --force
\* (stubs.rs, migrate_flat_handlers; main.rs, prune_orphans).
WorkIn(d) == {d[p].by : p \in {q \in DOMAIN d : d[q].kind = "work"}}
WorkKept ==
    [][job # NoJob /\ ~(job.prune /\ job.force) => WorkIn(disk) \subseteq WorkIn(disk')]_allvars

\* "Imported grammars are inputs too" (nh-build, try_run): when cargo sees no need
\* to run the build script again, what it made is made from the files as they are.
NoStaleBuild ==
    job = NoJob /\ last.tool = "cargo" /\ ~NeedsRun =>
        \A i \in DOMAIN files : sources[files[i].path] = files[i].text

=============================================================================
