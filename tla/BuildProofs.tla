------------------------------ MODULE BuildProofs ------------------------------
(***************************************************************************)
(* Builds, proved for every project, every budget of edits, builds and     *)
(* breaks, and every order of them: a build that loads the grammar while   *)
(* nobody edits it has loaded what the graph of imports says; and a build  *)
(* keeps what authors have written, provided that no handler it makes or   *)
(* moves is where a list of modules is written; and a build that ends well *)
(* has left everything made from the grammar as it was loaded.             *)
(***************************************************************************)
EXTENDS Build, ImportsProofs

----------------------------------------------------------------------------
(* Types.                                                                  *)

Budgets == [edits : Nat, works : Nat, builds : Nat, breaks : Nat]
DiskOK == disk = [p \in DOMAIN disk |-> disk[p]] /\ \A p \in DOMAIN disk : disk[p].kind \in Kinds
SourcesOK == sources = [p \in Paths |-> sources[p]] /\ Readable
JobOK ==
    job # NoJob =>
        /\ job = [f \in JobFields |-> job[f]]
        /\ job.tool \in Tools /\ job.doing \in {"loading", "writing"}
        /\ job.since \in Nat /\ budget.edits <= job.since

LEMMA Types == TypeOK <=> SourcesOK /\ DiskOK /\ budget \in Budgets /\ JobOK
BY DEF TypeOK, SourcesOK, Readable, DiskOK, Budgets, JobOK

\* A budget that is spent.
LEMMA Spent ==
    ASSUME budget \in Budgets, NEW what \in {"edits", "works", "builds", "breaks"}, Spend(what)
    PROVE  /\ budget' \in Budgets /\ budget.edits \in Nat /\ budget'.edits \in Nat
           /\ what = "edits" => budget'.edits < budget.edits
           /\ what # "edits" => budget'.edits = budget.edits
<1>1. CASE what = "edits"
  BY <1>1 DEF Spend, Budgets
<1>2. CASE what = "works"
  BY <1>2 DEF Spend, Budgets
<1>3. CASE what = "builds"
  BY <1>3 DEF Spend, Budgets
<1>4. CASE what = "breaks"
  BY <1>4 DEF Spend, Budgets
<1> QED BY <1>1, <1>2, <1>3, <1>4

LEMMA OfKinds ==
    /\ \A text : Generated(text).kind = "generated"
    /\ \A params : Stub(params).kind = "stub"
    /\ \A by, params : Work(by, params).kind = "work" /\ Work(by, params).by = by
    /\ Torn.kind = "torn"
BY DEF Generated, Stub, Work, Torn

\* A build that goes on with its next step, and one that goes on to write.
LEMMA StepDone ==
    ASSUME JobOK, job # NoJob, job' = [job EXCEPT !.todo = Tail(@)], budget' = budget
    PROVE  JobOK' /\ job'.doing = job.doing
<1>1. job = [f \in JobFields |-> job[f]]
  BY DEF JobOK
<1> QED BY <1>1 DEF JobOK, JobFields


\* Every step keeps the types: what it does to the budget and the build,
LEMMA BudgetStep ==
    ASSUME budget \in Budgets, [Next]_allvars
    PROVE  /\ budget' \in Budgets /\ budget.edits \in Nat /\ budget'.edits \in Nat
           /\ budget'.edits <= budget.edits
           /\ Edit => budget'.edits < budget.edits
           /\ ~Edit => budget'.edits = budget.edits
<1>1. CASE Edit
  <2>1. Spend("edits")
    BY <1>1 DEF Edit
  <2>2. budget' \in Budgets /\ budget.edits \in Nat /\ budget'.edits \in Nat /\ budget'.edits < budget.edits
    BY <2>1, Spent
  <2> QED BY <1>1, <2>2
<1>2. CASE Implement /\ ~Edit
  BY <1>2, Spent DEF Implement
<1>3. CASE Begin /\ ~Edit
  BY <1>3, Spent DEF Begin
<1>4. CASE Break /\ ~Edit
  BY <1>4, Spent DEF Break
<1>5. CASE ~Edit /\ UNCHANGED budget
  BY <1>5 DEF Budgets
<1>6. \/ Edit \/ Implement \/ Begin \/ Break \/ UNCHANGED budget
  BY DEF Next, allvars, Loading, Resolve, WriteGenerated, CreateStub, CheckTarget,
         RemoveReplaced, Migrate, RemoveOld, Report
<1> QED BY <1>1, <1>2, <1>3, <1>4, <1>5, <1>6

\* What becomes of a build in a step: it begins, ends, goes on to write, or goes on.
Begun ==
    /\ job = NoJob /\ LoaderReset' /\ UNCHANGED sources
    /\ job' = [f \in JobFields |-> job'[f]]
    /\ job'.tool \in Tools /\ job'.doing = "loading" /\ job'.since = budget.edits
WentOn ==
    /\ job # NoJob /\ job' = [f \in JobFields |-> job'[f]]
    /\ job'.tool = job.tool /\ job'.since = job.since /\ job'.doing = "writing"

LEMMA JobStep ==
    ASSUME JobOK, [Next]_allvars
    PROVE  \/ Begun
           \/ job' = NoJob
           \/ WentOn
           \/ /\ job' = job
              /\ Edit \/ Load \/ UNCHANGED <<sources, loader>>
<1>1. CASE Edit \/ Implement \/ Loading \/ RemoveReplaced \/ UNCHANGED allvars
  BY <1>1 DEF Edit, Implement, Loading, RemoveReplaced, allvars
<1>2. CASE Begin
  <2>1. PICK how \in {Script} \cup ByHand :
           job' = [tool |-> how.tool, prune |-> how.prune, force |-> how.force,
                   doing |-> "loading", began |-> sources, since |-> budget.edits,
                   merged |-> Merge(<<>>), todo |-> <<>>]
    BY <1>2 DEF Begin
  <2>2. how.tool \in Tools
    BY DEF Script, ByHand, Tools
  <2>3. job = NoJob /\ LoaderReset' /\ UNCHANGED sources
    BY <1>2 DEF Begin, LoaderReset
  <2> QED BY <2>1, <2>2, <2>3 DEF Begun, JobFields
<1>3. ASSUME Done, job # NoJob, job.doing = "writing"
      PROVE  WentOn
  <2>1. job = [f \in JobFields |-> job[f]] /\ job' = [job EXCEPT !.todo = Tail(@)]
    BY <1>3 DEF JobOK, Done
  <2> QED BY <1>3, <2>1 DEF WentOn, JobFields
<1>4. \A ok : End(ok) => job' = NoJob
  BY DEF End
<1>5. CASE Resolve
  <2>1. CASE \E merged : job' = [job EXCEPT !.doing = "writing", !.merged = merged,
                                            !.todo = Plan(job.tool, merged)]
    <3>1. PICK merged, todo : job' = [job EXCEPT !.doing = "writing", !.merged = merged, !.todo = todo]
      BY <2>1
    <3>2. job # NoJob /\ job = [f \in JobFields |-> job[f]]
      BY <1>5 DEF Resolve, JobOK
    <3> QED BY <3>1, <3>2 DEF WentOn, JobFields
  <2> QED BY <1>4, <1>5, <2>1 DEF Resolve
<1>6. CASE WriteGenerated \/ CreateStub \/ CheckTarget \/ Migrate
  BY <1>3, <1>4, <1>6 DEF WriteGenerated, CreateStub, CheckTarget, Migrate, Now
<1>7. CASE RemoveOld
  BY <1>3, <1>7 DEF RemoveOld, Now
<1>8. CASE Report \/ Break
  BY <1>4, <1>8 DEF Report, Break
<1> QED BY <1>1, <1>2, <1>5, <1>6, <1>7, <1>8 DEF Next

\* and what it does to the files.
LEMMA DiskStep ==
    ASSUME DiskOK, [Next]_allvars
    PROVE  DiskOK'
<1>1. ASSUME NEW path, NEW held, held.kind \in Kinds, disk' = With(disk, path, held)
      PROVE  DiskOK'
  <2>1. \A p \in DOMAIN disk : disk[p].kind \in Kinds
    BY DEF DiskOK
  <2>2. /\ DOMAIN disk' = DOMAIN disk \cup {path}
        /\ \A p \in DOMAIN disk' : disk'[p] = IF p = path THEN held ELSE disk[p]
        /\ disk' = [p \in DOMAIN disk' |-> disk'[p]]
    BY <1>1 DEF With
  <2> QED BY <1>1, <2>1, <2>2 DEF DiskOK
<1>2. ASSUME NEW path, disk' = Without(disk, path)
      PROVE  DiskOK'
  BY <1>2 DEF DiskOK, Without, Restrict
<1>3. CASE disk' = disk
  BY <1>3 DEF DiskOK
<1>4. CASE Implement
  <2>1. PICK path, params, by : path \in DOMAIN disk /\ disk' = [disk EXCEPT ![path] = Work(by, params)]
    BY <1>4 DEF Implement
  <2>2. Work(by, params).kind \in Kinds
    BY OfKinds DEF Kinds
  <2> QED BY <2>1, <2>2 DEF DiskOK
<1>5. CASE WriteGenerated
  <2>1. Generated(Step.text).kind \in Kinds
    BY OfKinds DEF Kinds
  <2> QED BY <1>1, <1>3, <1>5, <2>1 DEF WriteGenerated
<1>6. CASE CreateStub
  <2>1. Stub(Step.alt.params).kind \in Kinds
    BY OfKinds DEF Kinds
  <2> QED BY <1>1, <1>3, <1>6, <2>1 DEF CreateStub
<1>7. CASE RemoveReplaced \/ RemoveOld
  BY <1>2, <1>3, <1>7 DEF RemoveReplaced, RemoveOld, Delete
<1>8. CASE Migrate
  <2>1. CASE From \in DOMAIN disk /\ disk' = With(Without(disk, From), To, disk[From])
    <3>1. PICK d : d = Without(disk, From)
      OBVIOUS
    <3>2. \A p \in DOMAIN d : p \in DOMAIN disk /\ d[p] = disk[p]
      BY <3>1 DEF Without, Restrict
    <3>3. /\ disk' = [p \in DOMAIN disk' |-> disk'[p]] /\ DOMAIN disk' = DOMAIN d \cup {To}
          /\ disk'[To] = disk[From]
          /\ \A p \in DOMAIN d : p # To => disk'[p] = d[p]
      BY <2>1, <3>1 DEF With
    <3>4. \A p \in DOMAIN disk : disk[p].kind \in Kinds
      BY DEF DiskOK
    <3>5. \A p \in DOMAIN disk' : disk'[p].kind \in Kinds
      BY <2>1, <3>2, <3>3, <3>4
    <3> QED BY <3>3, <3>5 DEF DiskOK
  <2> QED BY <1>3, <1>8, <2>1 DEF Migrate
<1>9. CASE Break
  BY <1>1, <1>3, <1>9, OfKinds DEF Break, Kinds
<1>10. \/ Implement \/ WriteGenerated \/ CreateStub \/ RemoveReplaced \/ RemoveOld \/ Migrate \/ Break
       \/ disk' = disk
  BY DEF Next, allvars, Edit, Begin, Loading, Resolve, CheckTarget, Report
<1> QED BY <1>3, <1>4, <1>5, <1>6, <1>7, <1>8, <1>9, <1>10

LEMMA SourcesStep ==
    ASSUME SourcesOK, [Next]_allvars
    PROVE  SourcesOK'
<1>1. CASE Edit
  <2>1. PICK path, held :
           path \in Paths /\ held \in Texts[path] /\ sources' = [sources EXCEPT ![path] = held]
    BY <1>1 DEF Edit
  <2>2. IsFile(held)
    BY <2>1, BuildAssumption
  <2>3. \A p \in Paths : sources'[p] = IF p = path THEN held ELSE sources[p]
    BY <2>1 DEF SourcesOK
  <2>4. sources' = [p \in Paths |-> sources'[p]]
    BY <2>1 DEF SourcesOK
  <2> QED BY <2>2, <2>3, <2>4 DEF SourcesOK, Readable
<1>2. CASE sources' = sources
  BY <1>2 DEF SourcesOK, Readable
<1>3. Edit \/ sources' = sources
  BY DEF Next, allvars, Implement, Begin, Loading, Load, Resolve, WriteGenerated, CreateStub,
         CheckTarget, RemoveReplaced, Migrate, RemoveOld, Report, Break
<1> QED BY <1>1, <1>2, <1>3

LEMMA TypesStep ==
    ASSUME TypeOK, [Next]_allvars
    PROVE  TypeOK'
<1>1. SourcesOK /\ DiskOK /\ budget \in Budgets /\ JobOK
  BY Types
<1>2. SourcesOK' /\ DiskOK' /\ budget' \in Budgets
  BY <1>1, SourcesStep, DiskStep, BudgetStep
<1>3. JobOK'
  <2>1. budget.edits \in Nat /\ budget'.edits \in Nat /\ budget'.edits <= budget.edits
    BY <1>1, BudgetStep
  <2>2. CASE Begun
    BY <2>1, <2>2 DEF Begun, JobOK
  <2>3. CASE job' = NoJob
    BY <2>3 DEF JobOK
  <2>4. CASE WentOn
    <3>1. job.tool \in Tools /\ job.since \in Nat /\ budget.edits <= job.since
      BY <1>1, <2>4 DEF JobOK, WentOn
    <3>2. budget'.edits <= job.since
      BY <2>1, <3>1
    <3> QED BY <2>4, <3>1, <3>2 DEF JobOK, WentOn
  <2>5. CASE job' = job /\ job # NoJob
    <3>1. job.since \in Nat /\ budget.edits <= job.since
      BY <1>1, <2>5 DEF JobOK
    <3>2. budget'.edits <= job.since
      BY <2>1, <3>1
    <3> QED BY <1>1, <2>5, <3>1, <3>2 DEF JobOK
  <2> QED BY <1>1, <2>2, <2>3, <2>4, <2>5, JobStep
<1> QED BY <1>2, <1>3 DEF TypeOK, SourcesOK, Readable, DiskOK, Budgets, JobOK

----------------------------------------------------------------------------
(* Loading.                                                                *)

\* A build that loads, and sees the files as they were when it began, is the
\* loader, and Imports' invariant holds.  Once a file has been edited it need not.
AsItWas == job # NoJob /\ job.doing = "loading" /\ Unedited
BInv == TypeOK /\ (AsItWas => LInv)

LEMMA StillLoaded ==
    ASSUME LInv, UNCHANGED <<sources, loader>>
    PROVE  LInv'
<1>1. UNCHANGED <<sources, loading, seen, files, problems>>
  BY DEF loader
<1>2. /\ \A p : ImportsOf(p)' = ImportsOf(p)
      /\ \A from : Reach(from)' = Reach(from)
      /\ Reached' = Reached /\ Held' = Held /\ Readable' = Readable
      /\ \A p : OnCycle(p)' <=> OnCycle(p)
  BY <1>1, SameGraph
<1>3. /\ \A p : Recorded(p)' <=> Recorded(p)
      /\ \A p : Told(p)' <=> Told(p)
      /\ \A p : IsSo(p)' <=> IsSo(p)
  BY <1>1, <1>2 DEF Recorded, Told, IsSo
<1>4. LoaderTypes'
  BY <1>1, <1>2 DEF LInv, LoaderTypes
<1>5. StackIsPath'
  BY <1>1, <1>2 DEF LInv, StackIsPath
<1>6. RecordedOnce'
  BY <1>1 DEF LInv, RecordedOnce
<1>7. SeenIsKept'
  BY <1>1, <1>2, <1>3 DEF LInv, SeenIsKept, Parses, IsText
<1>8. ImportsVisited'
  BY <1>1 DEF LInv, ImportsVisited, Started, Visited, Told
<1>9. ImportsBefore'
  BY <1>1 DEF LInv, ImportsBefore, CycleFound, Recorded
<1>10. ProblemsAreSo'
  BY <1>1, <1>3 DEF LInv, ProblemsAreSo
<1>11. EntryComesLast'
  BY <1>1 DEF LInv, EntryComesLast, Started
<1> QED BY <1>4, <1>5, <1>6, <1>7, <1>8, <1>9, <1>10, <1>11 DEF LInv

LEMMA LoaderBeginsAgain == Readable /\ LoaderReset => LInv
BY LoaderBegins

LEMMA BInvStep ==
    ASSUME BInv, [Next]_allvars
    PROVE  BInv'
<1>1. TypeOK' /\ JobOK /\ budget \in Budgets /\ Readable'
  BY TypesStep, Types DEF BInv, TypeOK, Readable
<1>2. Readable' /\ LoaderReset' => LInv'
  BY LoaderBeginsAgain, PTL
<1>3. /\ budget.edits \in Nat /\ budget'.edits \in Nat
      /\ Edit => budget'.edits < budget.edits
      /\ ~Edit => budget'.edits = budget.edits
  BY <1>1, BudgetStep
<1>4. ASSUME AsItWas'
      PROVE  LInv'
  <2>1. CASE Begun
    BY <1>1, <1>2, <2>1 DEF Begun
  <2>2. ~(job' = NoJob) /\ ~WentOn
    BY <1>4 DEF AsItWas, WentOn
  <2>3. CASE job' = job /\ (Edit \/ Load \/ UNCHANGED <<sources, loader>>)
    <3>1. ~Edit /\ AsItWas
      <4>1. job.since = budget'.edits /\ job # NoJob /\ job.doing = "loading"
        BY <1>4, <2>3 DEF AsItWas, Unedited
      <4>2. budget.edits <= job.since
        BY <1>1, <4>1 DEF JobOK
      <4> QED BY <1>3, <4>1, <4>2 DEF AsItWas, Unedited
    <3>2. LInv
      BY <3>1 DEF BInv
    <3> QED BY <2>3, <3>1, <3>2, LoadStep, StillLoaded
  <2> QED BY <1>1, <2>1, <2>2, <2>3, JobStep
<1> QED BY <1>1, <1>4 DEF BInv

LEMMA BInvBegins ==
    ASSUME Init
    PROVE  BInv
<1>1. PICK start \in Starts : sources = start.sources /\ disk = start.disk /\ budget = start.budget
  BY DEF Init
<1>2. TypeOK
  BY <1>1, BuildAssumption DEF Init, TypeOK
<1> QED BY <1>2 DEF Init, BInv, AsItWas

\* A build has its types: the files that are written are of the four kinds, and a
\* build never began later than it goes on (nh-build, run).
THEOREM BuildTypeCorrect == Spec => []TypeOK
<1>1. Init => BInv
  BY BInvBegins
<1>2. BInv /\ [Next]_allvars => BInv'
  BY BInvStep
<1>3. BInv => TypeOK
  BY DEF BInv
<1> QED BY <1>1, <1>2, <1>3, PTL DEF Spec

\* A build that loads while nobody edits merges every file the grammar reaches,
\* once, what is imported first, or has something to say; and it says it exactly
\* of what cannot be read or parsed and of cycles (import.rs, load), whatever
\* the graph.
THEOREM ImportsAreLoaded == Spec => []ImportsLoaded
<1>1. Init => BInv
  BY BInvBegins
<1>2. BInv /\ [Next]_allvars => BInv'
  BY BInvStep
<1>3. BInv => ImportsLoaded
  BY LoadedWell DEF BInv, AsItWas, ImportsLoaded, JustLoaded
<1> QED BY <1>1, <1>2, <1>3, PTL DEF Spec

----------------------------------------------------------------------------
(* Work.                                                                   *)

\* Work is in the files of handlers, and nothing generated is written there;
\* if it is moved, it is to another such file.
WorkInHandlers == \A p \in DOMAIN disk : disk[p].kind = "work" => IsHandler(p)
MovedToHandlers == Now("migrate") => IsHandler(To)

HasWork(p) == p \in DOMAIN disk /\ disk[p].kind = "work"
NothingLost ==
    \A p \in DOMAIN disk : HasWork(p) =>
        \E q \in DOMAIN disk' : disk'[q].kind = "work" /\ disk'[q].by = disk[p].by

LEMMA GeneratedElsewhere ==
    ASSUME NEW step, step.do = "write"
    PROVE  ~IsHandler(PathOf(step))
<1>1. PathOf(step) \in {Pest, <<"generated", step.name>>, <<"handlers", "mod">>, <<"handlers", step.name, "mod">>}
  BY DEF PathOf
<1>2. ~IsHandler(Pest) /\ ~IsHandler(<<"generated", step.name>>)
  BY DEF IsHandler, Pest
<1>3. ~IsHandler(<<"handlers", "mod">>) /\ ~IsHandler(<<"handlers", step.name, "mod">>)
  BY DEF IsHandler, Last
<1> QED BY <1>1, <1>2, <1>3

\* Writing what is not work where there is none, and removing what is not work.
LEMMA WrittenElsewhere ==
    ASSUME WorkInHandlers, NEW path, NEW held,
           disk' = With(disk, path, held), held.kind # "work", ~HasWork(path)
    PROVE  WorkInHandlers' /\ NothingLost
<1>1. /\ DOMAIN disk' = DOMAIN disk \cup {path}
      /\ \A p \in DOMAIN disk' : disk'[p] = IF p = path THEN held ELSE disk[p]
  BY DEF With
<1>2. WorkInHandlers'
  BY <1>1 DEF WorkInHandlers
<1>3. \A p \in DOMAIN disk : HasWork(p) => p # path
  OBVIOUS
<1> QED BY <1>1, <1>2, <1>3 DEF NothingLost, HasWork

LEMMA RemovedElsewhere ==
    ASSUME WorkInHandlers, NEW path, disk' = Without(disk, path)
    PROVE  WorkInHandlers' /\ (~HasWork(path) => NothingLost)
<1>1. /\ DOMAIN disk' = DOMAIN disk \ {path}
      /\ \A p \in DOMAIN disk' : disk'[p] = disk[p]
  BY DEF Without, Restrict
<1>2. WorkInHandlers'
  BY <1>1 DEF WorkInHandlers
<1>3. ~HasWork(path) => \A p \in DOMAIN disk : HasWork(p) => p # path
  OBVIOUS
<1> QED BY <1>1, <1>2, <1>3 DEF NothingLost, HasWork

LEMMA WorkStep ==
    ASSUME WorkInHandlers, MovedToHandlers, DiskOK, [Next]_allvars
    PROVE  /\ WorkInHandlers'
           /\ job # NoJob /\ ~(job.prune /\ job.force) => NothingLost
<1>1. CASE disk' = disk
  BY <1>1 DEF WorkInHandlers, NothingLost, HasWork
<1>2. CASE Implement
  <2>1. PICK path, params, by :
           /\ path \in DOMAIN disk /\ IsHandler(path)
           /\ disk[path].kind = "work" => by = disk[path].by
           /\ disk' = [disk EXCEPT ![path] = Work(by, params)]
    BY <1>2 DEF Implement
  <2>2. /\ DOMAIN disk' = DOMAIN disk
        /\ \A p \in DOMAIN disk : disk'[p] = IF p = path THEN Work(by, params) ELSE disk[p]
    BY <2>1 DEF DiskOK
  <2>3. Work(by, params).kind = "work" /\ Work(by, params).by = by
    BY OfKinds
  <2>4. WorkInHandlers'
    BY <2>1, <2>2 DEF WorkInHandlers
  <2>5. NothingLost
    BY <2>1, <2>2, <2>3 DEF NothingLost, HasWork
  <2> QED BY <2>4, <2>5
<1>3. ASSUME Now("write")
      PROVE  ~HasWork(PathOf(Step))
  <2>1. Step.do = "write"
    BY <1>3 DEF Now, Step
  <2> QED BY <2>1, GeneratedElsewhere DEF HasWork, WorkInHandlers
<1>4. CASE WriteGenerated
  <2>1. Generated(Step.text).kind # "work"
    BY OfKinds
  <2> QED BY <1>1, <1>3, <1>4, <2>1, WrittenElsewhere DEF WriteGenerated
<1>5. CASE CreateStub
  <2>1. Stub(Step.alt.params).kind # "work"
    BY OfKinds
  <2>2. PathOf(Step) \notin DOMAIN disk => ~HasWork(PathOf(Step))
    BY DEF HasWork
  <2> QED BY <1>1, <1>5, <2>1, <2>2, WrittenElsewhere DEF CreateStub
<1>6. CASE Break
  <2>1. Torn.kind # "work"
    BY OfKinds
  <2>2. PathOf(Step) \notin DOMAIN disk => ~HasWork(PathOf(Step))
    BY DEF HasWork
  <2> QED BY <1>1, <1>3, <1>6, <2>1, <2>2, WrittenElsewhere DEF Break
<1>7. CASE RemoveReplaced
  <2>1. ~HasWork(To)
    BY <1>7 DEF RemoveReplaced, Replaces, HasWork
  <2> QED BY <1>7, <2>1, RemovedElsewhere DEF RemoveReplaced, Delete
<1>8. CASE Migrate
  <2>1. CASE From \in DOMAIN disk /\ To \notin DOMAIN disk /\ disk' = With(Without(disk, From), To, disk[From])
    <3>1. PICK from, to : from = From /\ to = To
      OBVIOUS
    <3>2. IsHandler(to)
      BY <1>8, <3>1 DEF Migrate, MovedToHandlers
    <3>3. PICK d : d = Without(disk, from)
      OBVIOUS
    <3>4. DOMAIN d = DOMAIN disk \ {from} /\ \A p \in DOMAIN d : d[p] = disk[p]
      BY <3>3 DEF Without, Restrict
    <3>5. disk' = With(d, to, disk[from])
      BY <2>1, <3>1, <3>3
    <3>6. /\ DOMAIN disk' = (DOMAIN disk \ {from}) \cup {to}
          /\ \A p \in DOMAIN disk' : disk'[p] = IF p = to THEN disk[from] ELSE d[p]
      BY <3>4, <3>5 DEF With
    <3>7. WorkInHandlers'
      BY <2>1, <3>1, <3>2, <3>4, <3>6 DEF WorkInHandlers
    <3>8. ASSUME NEW p \in DOMAIN disk, HasWork(p)
          PROVE  \E q \in DOMAIN disk' : disk'[q].kind = "work" /\ disk'[q].by = disk[p].by
      <4>1. CASE p = from
        BY <3>6, <3>8, <4>1 DEF HasWork
      <4>2. CASE p # from
        <5>1. p \in DOMAIN disk' /\ disk'[p] = disk[p]
          BY <2>1, <3>1, <3>4, <3>6, <4>2
        <5> QED BY <3>8, <5>1 DEF HasWork
      <4> QED BY <4>1, <4>2
    <3> QED BY <3>7, <3>8 DEF NothingLost
  <2> QED BY <1>1, <1>8, <2>1 DEF Migrate
<1>9. CASE RemoveOld
  <2>1. CASE \E path \in Stale : Delete(path)
    <3>1. PICK path \in Stale : disk' = Without(disk, path)
      BY <2>1 DEF Delete
    <3>2. ~HasWork(path)
      BY <3>1 DEF Stale, HasWork, WorkInHandlers, IsHandler
    <3> QED BY <3>1, <3>2, RemovedElsewhere
  <2>2. CASE \E path \in Prunable : Delete(path)
    <3>1. PICK path \in Prunable : disk' = Without(disk, path)
      BY <2>2 DEF Delete
    <3>2. ~HasWork(path) \/ (job.prune /\ job.force)
      BY <3>1 DEF Prunable, Implemented, HasWork
    <3> QED BY <3>1, <3>2, RemovedElsewhere
  <2> QED BY <1>1, <1>9, <2>1, <2>2 DEF RemoveOld
<1>10. \/ Implement \/ WriteGenerated \/ CreateStub \/ RemoveReplaced \/ RemoveOld \/ Migrate \/ Break
       \/ disk' = disk
  BY DEF Next, allvars, Edit, Begin, Loading, Resolve, CheckTarget, Report
<1> QED BY <1>1, <1>2, <1>4, <1>5, <1>6, <1>7, <1>8, <1>9, <1>10

\* No build loses what an author has written, unless it is asked to with --prune
\* --force (stubs.rs, migrate_flat_handlers; main.rs, prune_orphans), as long as
\* no handler of the old layout moves to a rule's mod.rs: that file is always
\* written again, and what moved there is lost.
THEOREM WorkIsKept == Spec /\ []MovedToHandlers => WorkKept
<1> DEFINE Keeping == job # NoJob /\ ~(job.prune /\ job.force) => WorkIn(disk) \subseteq WorkIn(disk')
<1>1. Spec => []TypeOK
  BY BuildTypeCorrect
<1>2. Init => WorkInHandlers
  <2> SUFFICES ASSUME Init PROVE WorkInHandlers
    OBVIOUS
  <2>1. PICK start \in Starts : disk = start.disk
    BY DEF Init
  <2> QED BY <2>1, BuildAssumption DEF WorkInHandlers
<1>3. TypeOK /\ WorkInHandlers /\ MovedToHandlers /\ [Next]_allvars => WorkInHandlers'
  BY WorkStep, Types
<1>4. TypeOK /\ WorkInHandlers /\ MovedToHandlers /\ [Next]_allvars => [Keeping]_allvars
  <2> SUFFICES ASSUME TypeOK, WorkInHandlers, MovedToHandlers, [Next]_allvars,
                      job # NoJob, ~(job.prune /\ job.force)
               PROVE  WorkIn(disk) \subseteq WorkIn(disk')
    BY DEF Keeping
  <2>1. NothingLost
    BY WorkStep, Types
  <2> QED BY <2>1 DEF WorkIn, NothingLost, HasWork
<1> HIDE DEF Keeping
<1>5. Spec /\ []MovedToHandlers => [][Keeping]_allvars
  BY <1>1, <1>2, <1>3, <1>4, PTL DEF Spec
<1> QED BY <1>5 DEF Keeping, WorkKept

----------------------------------------------------------------------------
(* What is generated.                                                      *)

\* The grammar a build merges, once it has loaded it with nothing to say.
GrammarIsWhole(merged) ==
    /\ Range(merged.declares) = AllDeclared
    /\ \A d, e \in AllDeclared : d.name = e.name => d = e
    /\ merged.entry_rule = FirstRule(Entry)

\* What was loaded with nothing to say, while nobody edited it, merges into the
\* grammar as the files have it.
LEMMA LoadedIsMerged ==
    ASSUME LInv, Loaded, problems = <<>>
    PROVE  /\ IsMerged(Merge(files), AllDeclared)
           /\ Merge(files).problems = <<>> => GrammarIsWhole(Merge(files))
           /\ \A d \in AllDeclared :
                d.kind = "rule" => d.alternatives \in Seq(Range(d.alternatives))
<1>1. PICK n \in Nat : n = Len(files) /\ DOMAIN files = 1..n
  BY Indexes
<1>2. PICK merged : merged = Merge(files)
  OBVIOUS
<1>3. ASSUME NEW i \in 1..n
      PROVE  /\ files[i].path \in Reached /\ files[i].text = sources[files[i].path]
             /\ IsFile(files[i].text) /\ IsText(files[i].text)
  <2>1. files[i].path \in Reached /\ Parses(sources[files[i].path])
    BY <1>1, RecordedIsReached
  <2>2. files[i].text = sources[files[i].path]
    BY <1>1 DEF LInv, RecordedOnce
  <2>3. files[i].path \in Paths /\ Readable
    BY <2>1, ReachIsPaths DEF LInv, LoaderTypes, Reached
  <2> QED BY <2>1, <2>2, <2>3 DEF Readable, Parses
<1>4. ASSUME NEW p \in Reached
      PROVE  \E i \in 1..n : files[i].path = p
  <2>1. ~Told(p)
    BY DEF Told
  <2>2. Recorded(p)
    BY <2>1, AllVisited
  <2> QED BY <1>1, <2>2 DEF Recorded
<1>5. DeclaredBy(files) = AllDeclared
  <2>1. \A i \in 1..n : Range(files[i].text.declares) = Range(sources[files[i].path].declares)
    BY <1>3
  <2> QED BY <1>1, <1>3, <1>4, <2>1 DEF DeclaredBy, AllDeclared
<1>6. AreTexts(files, AllDeclared)
  <2>1. \A i \in 1..n : Range(files[i].text.declares) \subseteq DeclaredBy(files)
    BY <1>1 DEF DeclaredBy
  <2> QED BY <1>1, <1>3, <1>5, <2>1 DEF AreTexts
<1>7. IsMerged(merged, AllDeclared) /\ merged.entry_rule = EntryRule(files) /\ HasAll(merged, AllDeclared)
  BY <1>1, <1>2, <1>5, <1>6, Merged
<1>8. EntryRule(files) = FirstRule(Entry)
  <2>1. files # <<>> /\ Last(files).path = Entry
    BY DEF Loaded, LInv, EntryComesLast
  <2>2. n # 0
    BY <1>1, <2>1 DEF LInv, LoaderTypes
  <2>3. Last(files) = files[n] /\ n \in 1..n
    BY <1>1, <2>2 DEF Last
  <2>4. Last(files).text = sources[Entry]
    BY <1>3, <2>1, <2>3
  <2> QED BY <2>1, <2>4 DEF EntryRule, FirstRule
<1>9. ASSUME NEW d \in AllDeclared, d.kind = "rule"
      PROVE  d.alternatives \in Seq(Range(d.alternatives))
  <2>1. PICK i \in 1..n : d \in Range(files[i].text.declares)
    BY <1>1, <1>5 DEF DeclaredBy
  <2>2. IsFile(files[i].text) /\ IsText(files[i].text)
    BY <1>3
  <2> QED BY <1>9, <2>1, <2>2 DEF IsFile, IsText, Missing, Unreadable
<1> QED BY <1>2, <1>7, <1>8, <1>9 DEF HasAll, GrammarIsWhole

\* The alternatives of a merged grammar are a sequence.
LEMMA AlternativesOf ==
    ASSUME NEW merged, NEW T, merged.declares \in Seq(T),
           \A d \in T : d.kind = "rule" => d.alternatives \in Seq(Range(d.alternatives))
    PROVE  Alternatives(merged) \in Seq(Range(Alternatives(merged)))
<1>1. PICK rules : rules = OfKind(merged.declares, "rule")
  OBVIOUS
<1>2. rules \in Seq(T) /\ Range(rules) = {d \in Range(merged.declares) : d.kind = "rule"}
  BY <1>1, Selected
<1>3. PICK each : each = [i \in DOMAIN rules |->
                            [j \in DOMAIN rules[i].alternatives |->
                                [rule |-> rules[i].name, label |-> rules[i].alternatives[j].label,
                                 params |-> rules[i].alternatives[j].params,
                                 grouped |-> Len(rules[i].alternatives) > 1]]]
  OBVIOUS
<1>4. PICK alts : alts = Alternatives(merged)
  OBVIOUS
<1>5. alts = FlattenSeq(each)
  BY <1>1, <1>3, <1>4 DEF Alternatives
<1> DEFINE A == UNION {Range(each[i]) : i \in DOMAIN rules}
<1>6. each \in Seq(Seq(A))
  <2>1. ASSUME NEW i \in DOMAIN rules
        PROVE  each[i] \in Seq(A)
    <3>1. rules[i] \in T /\ rules[i].kind = "rule"
      BY <1>2 DEF Range
    <3>2. PICK s : s = rules[i].alternatives
      OBVIOUS
    <3>3. s \in Seq(Range(s))
      BY <3>1, <3>2
    <3>4. DOMAIN s = 1..Len(s) /\ Len(s) \in Nat
      BY <3>3
    <3>5. PICK t : t = each[i]
      OBVIOUS
    <3>6. t = [j \in 1..Len(s) |-> t[j]]
      BY <1>3, <3>2, <3>4, <3>5
    <3>7. \A j \in 1..Len(s) : t[j] \in A
      <4>1. \A j \in 1..Len(s) : t[j] \in Range(t)
        BY <3>6 DEF Range
      <4>2. Range(t) \subseteq A
        BY <3>5
      <4> QED BY <4>1, <4>2
    <3> HIDE DEF A
    <3> QED BY <3>4, <3>5, <3>6, <3>7
  <2> HIDE DEF A
  <2>2. DOMAIN rules = 1..Len(rules) /\ Len(rules) \in Nat
    BY <1>2
  <2>3. each = [i \in 1..Len(rules) |-> each[i]]
    BY <1>3, <2>2
  <2> QED BY <2>1, <2>2, <2>3
<1> HIDE DEF A
<1>7. alts \in Seq(A)
  BY <1>5, <1>6, Flattens
<1>8. alts \in Seq(Range(alts))
  BY <1>7 DEF Range
<1> QED BY <1>4, <1>8

----------------------------------------------------------------------------
(* The steps of a build.                                                   *)

\* A finite set, listed.
LEMMA Listed ==
    ASSUME NEW S, IsFiniteSet(S)
    PROVE  SetToSeq(S) \in Seq(S)
<1>1. PICK n : n = Cardinality(S)
  OBVIOUS
<1>2. n \in Nat /\ ExistsBijection(1..n, S)
  BY <1>1, FS_CardinalityType
<1>3. PICK f : f \in Bijection(1..n, S)
  BY <1>2 DEF ExistsBijection
<1>4. f \in [1..n -> S] /\ IsInjective(f)
  BY <1>3 DEF Bijection, Injection
<1>5. SetToSeq(S) \in [1..n -> S]
  BY <1>1, <1>4 DEF SetToSeq
<1> QED BY <1>2, <1>5

\* What is written, by where: the parser, and what `generate` writes.
PestWrite(merged) == Write("pest", "pest", PestOf(merged))
LabelsOf(alts, rule) == {alts[i].label : i \in {j \in DOMAIN alts : alts[j].rule = rule}}
RuleWrite(alts, rule) == Write("rule", rule, [names |-> LabelsOf(alts, rule)])
FileWrites(alts, target) ==
    {Write("generated", "dispatch", [alternatives |-> alts]),
     Write("generated", "vm_operators", [target |-> target]),
     Write("generated", "mod", [target |-> target]),
     Write("handlers", "mod", [names |-> {alts[i].rule : i \in DOMAIN alts}])}
        \cup {RuleWrite(alts, alts[i].rule) : i \in DOMAIN alts}
Creates(alts) == {Create(alts[i]) : i \in DOMAIN alts}

\* What a step is made of.
LEMMA Fields ==
    /\ \A place, name, text :
          LET w == Write(place, name, text)
          IN w.do = "write" /\ w.place = place /\ w.name = name /\ w.text = text
    /\ \A alt : Create(alt).do = "create" /\ Create(alt).alt = alt
BY DEF Write, Create

\* A path is written once.
LEMMA WrittenOnce ==
    ASSUME NEW merged, NEW target, NEW alts,
           NEW s \in FileWrites(alts, target) \cup {PestWrite(merged)},
           NEW t \in FileWrites(alts, target) \cup {PestWrite(merged)},
           PathOf(s) = PathOf(t)
    PROVE  s = t
<1> DEFINE At(w) == IF w.place = "pest" THEN <<"pest">>
                    ELSE IF w.place = "generated" THEN <<"generated", w.name>>
                    ELSE IF w.place = "handlers" THEN <<"handlers", "mod">>
                    ELSE <<"handlers", w.name, "mod">>
       Of(place, name) ==
           IF place = "pest" THEN PestWrite(merged)
           ELSE IF place = "handlers" THEN Write("handlers", "mod", [names |-> {alts[i].rule : i \in DOMAIN alts}])
           ELSE IF place = "rule" THEN RuleWrite(alts, name)
           ELSE IF name = "dispatch" THEN Write("generated", "dispatch", [alternatives |-> alts])
           ELSE Write("generated", name, [target |-> target])
<1>1. ASSUME NEW w \in FileWrites(alts, target) \cup {PestWrite(merged)}
      PROVE  /\ w.do = "write" /\ w.place \in {"pest", "generated", "handlers", "rule"}
             /\ w.place = "pest" => w.name = "pest"
             /\ w.place = "handlers" => w.name = "mod"
             /\ w = Of(w.place, w.name)
  <2>1. CASE w = Write("generated", "dispatch", [alternatives |-> alts])
    <3>1. w.do = "write" /\ w.place = "generated" /\ w.name = "dispatch"
      BY <2>1, Fields
    <3> QED BY <2>1, <3>1
  <2>2. CASE w \in {Write("generated", name, [target |-> target]) : name \in {"vm_operators", "mod"}}
    <3>1. PICK name \in {"vm_operators", "mod"} : w = Write("generated", name, [target |-> target])
      BY <2>2
    <3>2. w.do = "write" /\ w.place = "generated" /\ w.name = name
      BY <3>1, Fields
    <3> QED BY <3>1, <3>2
  <2>3. CASE w = Write("handlers", "mod", [names |-> {alts[i].rule : i \in DOMAIN alts}])
    <3>1. w.do = "write" /\ w.place = "handlers" /\ w.name = "mod"
      BY <2>3, Fields
    <3> QED BY <2>3, <3>1
  <2>4. CASE w = PestWrite(merged)
    <3>1. w.do = "write" /\ w.place = "pest" /\ w.name = "pest"
      BY <2>4, Fields DEF PestWrite
    <3> QED BY <2>4, <3>1
  <2>5. CASE \E i \in DOMAIN alts : w = RuleWrite(alts, alts[i].rule)
    <3>1. PICK rule : w = RuleWrite(alts, rule)
      BY <2>5
    <3>2. w.do = "write" /\ w.place = "rule" /\ w.name = rule
      BY <3>1, Fields DEF RuleWrite
    <3> QED BY <3>1, <3>2
  <2> QED BY <2>1, <2>2, <2>3, <2>4, <2>5 DEF FileWrites
<1>2. ASSUME NEW w \in FileWrites(alts, target) \cup {PestWrite(merged)}
      PROVE  PathOf(w) = At(w)
  <2>1. w.do = "write" /\ w.place \in {"pest", "generated", "handlers", "rule"}
    BY <1>1
  <2> QED BY <2>1 DEF PathOf, Pest
<1>3. At(s) = At(t)
  BY <1>2
<1>4. s.place \in {"pest", "generated", "handlers", "rule"} /\ t.place \in {"pest", "generated", "handlers", "rule"}
  BY <1>1
<1>5. s.place = t.place
  BY <1>3, <1>4
<1>6. s.place \in {"generated", "rule"} => s.name = t.name
  BY <1>3, <1>5
<1>7. s.name = t.name
  BY <1>1, <1>4, <1>5, <1>6
<1> HIDE DEF Of
<1> QED BY <1>1, <1>5, <1>7

\* The files, in the parts they are written in.
LEMMA FilesInParts ==
    ASSUME NEW merged, NEW target
    PROVE  FilesOf(merged, target) =
             LET alts == Alternatives(merged)
             IN <<Write("generated", "dispatch", [alternatives |-> alts])>>
                \o (IF target = "none" THEN <<>> ELSE <<Write("generated", "vm_operators", [target |-> target])>>)
                \o <<Write("generated", "mod", [target |-> target])>>
                \o [i \in DOMAIN alts |-> Create(alts[i])]
                \o <<Write("handlers", "mod", [names |-> {alts[i].rule : i \in DOMAIN alts}])>>
                \o SetToSeq({RuleWrite(alts, rule) : rule \in {alts[i].rule : i \in {j \in DOMAIN alts : alts[j].grouped}}})
BY Zenon DEF FilesOf, RuleWrite, LabelsOf

\* The files are a sequence of writes and of handlers to make.
LEMMA FilesAre ==
    ASSUME NEW merged, NEW target, Alternatives(merged) \in Seq(Range(Alternatives(merged)))
    PROVE  /\ FilesOf(merged, target)
                \in Seq(FileWrites(Alternatives(merged), target) \cup Creates(Alternatives(merged)))
           /\ Creates(Alternatives(merged)) \subseteq Range(FilesOf(merged, target))
<1>0. PICK alts : alts = Alternatives(merged)
  OBVIOUS
<1>1. PICK S : S = FileWrites(alts, target) \cup Creates(alts)
  OBVIOUS
<1>2. PICK n \in Nat : n = Len(alts) /\ DOMAIN alts = 1..n
  BY <1>0
<1>3. PICK creates : creates = [i \in DOMAIN alts |-> Create(alts[i])]
  OBVIOUS
<1>4. creates \in Seq(S)
  <2>1. \A i \in 1..n : creates[i] \in S
    BY <1>1, <1>2, <1>3 DEF Creates
  <2>2. creates = [i \in 1..n |-> creates[i]]
    BY <1>2, <1>3
  <2> QED BY <2>1, <2>2
<1> DEFINE Grouped == {alts[i].rule : i \in {j \in DOMAIN alts : alts[j].grouped}}
           OfRules == {RuleWrite(alts, rule) : rule \in Grouped}
<1>5. PICK ofRules : ofRules = OfRules
  OBVIOUS
<1>6. ofRules \subseteq S
  BY <1>1, <1>5 DEF FileWrites
<1>7. IsFiniteSet(ofRules)
  <2>1. PICK J : J = {j \in 1..n : alts[j].grouped}
    OBVIOUS
  <2>2. IsFiniteSet(J)
    <3>1. IsFiniteSet(1..n)
      BY FS_Interval
    <3>2. J \in SUBSET (1..n)
      BY <2>1
    <3> QED BY <3>1, <3>2, FS_Subset
  <2>3. PICK f : f = [j \in J |-> RuleWrite(alts, alts[j].rule)]
    OBVIOUS
  <2>4. \A w : w \in ofRules <=> \E j \in J : f[j] = w
    BY <1>2, <1>5, <2>1, <2>3
  <2>5. f \in Surjection(J, ofRules)
    <3>1. f \in [J -> ofRules]
      BY <2>3, <2>4
    <3> QED BY <2>4, <3>1 DEF Surjection
  <2> QED BY <2>2, <2>5, FS_Surjection
<1>8. SetToSeq(ofRules) \in Seq(S)
  <2>1. SetToSeq(ofRules) \in Seq(ofRules)
    BY <1>7, Listed
  <2> QED BY <1>6, <2>1
<1>9. PICK a, b, c, d :
         /\ a = <<Write("generated", "dispatch", [alternatives |-> alts])>>
         /\ b = IF target = "none" THEN <<>> ELSE <<Write("generated", "vm_operators", [target |-> target])>>
         /\ c = <<Write("generated", "mod", [target |-> target])>>
         /\ d = <<Write("handlers", "mod", [names |-> {alts[i].rule : i \in DOMAIN alts}])>>
  OBVIOUS
<1>10. a \in Seq(S) /\ b \in Seq(S) /\ c \in Seq(S) /\ d \in Seq(S)
  <2>1. /\ Write("generated", "dispatch", [alternatives |-> alts]) \in S
        /\ Write("generated", "vm_operators", [target |-> target]) \in S
        /\ Write("generated", "mod", [target |-> target]) \in S
        /\ Write("handlers", "mod", [names |-> {alts[i].rule : i \in DOMAIN alts}]) \in S
    BY <1>1, Zenon DEF FileWrites
  <2>2. \A x \in S : <<x>> \in Seq(S)
    OBVIOUS
  <2>3. <<>> \in Seq(S)
    OBVIOUS
  <2> QED BY <1>9, <2>1, <2>2, <2>3, Zenon
<1>11. PICK e : e = SetToSeq(ofRules)
  OBVIOUS
<1>12. FilesOf(merged, target) = a \o b \o c \o creates \o d \o e
  BY <1>0, <1>3, <1>5, <1>9, <1>11, FilesInParts, Zenon
<1>13. a \o b \o c \o creates \o d \o e \in Seq(S)
  BY <1>4, <1>8, <1>10, <1>11
<1>14. Creates(alts) \subseteq Range(a \o b \o c \o creates \o d \o e)
  <2>1. PICK abc : abc = a \o b \o c
    OBVIOUS
  <2>2. PICK most : most = abc \o creates
    OBVIOUS
  <2>3. PICK more : more = most \o d
    OBVIOUS
  <2>4. abc \in Seq(S) /\ most \in Seq(S) /\ more \in Seq(S) /\ e \in Seq(S)
    BY <1>4, <1>8, <1>10, <1>11, <2>1, <2>2, <2>3
  <2>5. Range(abc \o creates) = Range(abc) \cup Range(creates)
    BY <1>4, <2>4, RangeOfConcat
  <2>6. Range(most \o d) = Range(most) \cup Range(d)
    BY <1>10, <2>4, RangeOfConcat
  <2>7. Range(more \o e) = Range(more) \cup Range(e)
    BY <2>4, RangeOfConcat
  <2>8. Range(creates) = Creates(alts)
    BY <1>3 DEF Creates, Range
  <2> QED BY <2>1, <2>2, <2>3, <2>5, <2>6, <2>7, <2>8
<1> QED BY <1>0, <1>1, <1>12, <1>13, <1>14

\* No handler is moved once one has been made; and the report comes last.
Ordered(plan) == \A i, j \in DOMAIN plan : i < j /\ plan[j].do = "migrate" => plan[i].do # "create"
ReportIsLast(plan) == \A i \in DOMAIN plan : plan[i].do = "report" <=> i = Len(plan)
Never(plan, do) == \A i \in DOMAIN plan : plan[i].do # do

\* Two plans joined: where each step comes from.
LEMMA Joined ==
    ASSUME NEW T, NEW a \in Seq(T), NEW b \in Seq(T)
    PROVE  /\ a \o b \in Seq(T)
           /\ Len(a \o b) = Len(a) + Len(b)
           /\ \A i \in DOMAIN (a \o b) :
                \/ i \in DOMAIN a /\ (a \o b)[i] = a[i]
                \/ i > Len(a) /\ i - Len(a) \in DOMAIN b /\ (a \o b)[i] = b[i - Len(a)]
<1>1. a \o b \in Seq(T) /\ Len(a \o b) = Len(a) + Len(b)
  OBVIOUS
<1>2. ASSUME NEW i \in DOMAIN (a \o b)
      PROVE  \/ i \in DOMAIN a /\ (a \o b)[i] = a[i]
             \/ i > Len(a) /\ i - Len(a) \in DOMAIN b /\ (a \o b)[i] = b[i - Len(a)]
  <2>1. i \in 1..Len(a) + Len(b)
    OBVIOUS
  <2>2. CASE i <= Len(a)
    BY <2>1, <2>2
  <2>3. CASE i > Len(a)
    BY <2>1, <2>3
  <2> QED BY <2>1, <2>2, <2>3
<1> QED BY <1>1, <1>2

\* What is joined of parts.
LEMMA JoinedNever ==
    ASSUME NEW T, NEW a \in Seq(T), NEW b \in Seq(T), NEW both, both = a \o b, NEW do,
           Never(a, do), Never(b, do)
    PROVE  Never(both, do)
BY Joined DEF Never

\* No handler is moved after one is made, if the parts keep to that.
LEMMA JoinedOrder ==
    ASSUME NEW T, NEW a \in Seq(T), NEW b \in Seq(T), NEW both, both = a \o b,
           Never(a, "create") \/ Never(b, "migrate"), Ordered(a), Ordered(b)
    PROVE  Ordered(both)
<1>1. /\ both \in Seq(T)
      /\ \A i \in DOMAIN both :
            \/ i \in DOMAIN a /\ both[i] = a[i]
            \/ i > Len(a) /\ i - Len(a) \in DOMAIN b /\ both[i] = b[i - Len(a)]
  BY Joined
<1> SUFFICES ASSUME NEW i \in DOMAIN both, NEW j \in DOMAIN both, i < j, both[j].do = "migrate"
             PROVE  both[i].do # "create"
  BY DEF Ordered
<1>2. i \in Nat /\ j \in Nat /\ Len(a) \in Nat /\ DOMAIN a = 1..Len(a)
  BY <1>1
<1>3. CASE j \in DOMAIN a /\ both[j] = a[j]
  <2>1. i \in DOMAIN a /\ both[i] = a[i]
    BY <1>1, <1>2, <1>3
  <2> QED BY <1>3, <2>1 DEF Ordered
<1>4. CASE j > Len(a) /\ j - Len(a) \in DOMAIN b /\ both[j] = b[j - Len(a)]
  <2>1. Never(a, "create")
    BY <1>4 DEF Never
  <2>2. CASE i \in DOMAIN a /\ both[i] = a[i]
    BY <2>1, <2>2 DEF Never
  <2>3. CASE i > Len(a) /\ i - Len(a) \in DOMAIN b /\ both[i] = b[i - Len(a)]
    <3>1. i - Len(a) < j - Len(a)
      BY <1>2
    <3> QED BY <1>4, <2>3, <3>1 DEF Ordered
  <2> QED BY <1>1, <2>2, <2>3
<1> QED BY <1>1, <1>3, <1>4

\* A plan that goes on, with nothing to move.
LEMMA GoesOnWith ==
    ASSUME NEW T, NEW a \in Seq(T), NEW b \in Seq(T), NEW both, both = a \o b,
           Ordered(a), Never(a, "report"), Never(b, "migrate"), Never(b, "report")
    PROVE  /\ both \in Seq(T) /\ Range(both) = Range(a) \cup Range(b)
           /\ Ordered(both) /\ Never(both, "report")
<1>1. Ordered(b)
  BY DEF Ordered, Never
<1>2. both \in Seq(T) /\ Range(both) = Range(a) \cup Range(b)
  <2>1. both \in Seq(T)
    OBVIOUS
  <2>2. Range(both) = Range(a) \cup Range(b)
    <3>1. Range(a \o b) = Range(a) \cup Range(b)
      BY RangeOfConcat
    <3> QED BY <3>1
  <2> QED BY <2>1, <2>2
<1>3. Ordered(both)
  BY <1>1, JoinedOrder
<1>4. Never(both, "report")
  BY JoinedNever
<1> QED BY <1>2, <1>3, <1>4

\* Plans of one step, and of none.
LEMMA OneStep ==
    ASSUME NEW T, NEW x \in T
    PROVE  /\ <<x>> \in Seq(T) /\ Range(<<x>>) = {x} /\ Len(<<x>>) = 1
           /\ \A do : x.do # do => Never(<<x>>, do)
BY DEF Range, Never

LEMMA NoStep ==
    ASSUME NEW T
    PROVE  <<>> \in Seq(T) /\ Range(<<>>) = {} /\ \A do : Never(<<>>, do)
BY DEF Range, Never

\* All that a plan's steps may be.
OtherSteps(alts) ==
    {[do |-> do] : do \in {"check target", "sweep", "prune", "report"}}
        \cup {[do |-> "migrate", alt |-> alt] : alt \in Range(alts)}
StepsFor(merged, target) ==
    {PestWrite(merged)} \cup FileWrites(Alternatives(merged), target)
        \cup Creates(Alternatives(merged)) \cup OtherSteps(Alternatives(merged))

\* The plan: what it must have done by its end, and in what order.
LEMMA PlanIs ==
    ASSUME NEW tool \in Tools, NEW merged, NEW target, target = TargetOf(tool, merged),
           Alternatives(merged) \in Seq(Range(Alternatives(merged))),
           NEW plan, plan = Plan(tool, merged), NEW made, made = FilesOf(merged, target)
    PROVE  /\ plan \in Seq(StepsFor(merged, target))
           /\ PestWrite(merged) \in Range(plan)
           /\ Range(made) \subseteq Range(plan)
           /\ \A s \in Range(plan) : s.do \in {"write", "create"} => s \in Range(made) \cup {PestWrite(merged)}
           /\ tool = "nh" => \E s \in Range(plan) : s.do = "sweep"
           /\ plan # <<>> /\ Ordered(plan) /\ ReportIsLast(plan)
<1>0. PICK alts : alts = Alternatives(merged)
  OBVIOUS
<1>1. PICK T : T = StepsFor(merged, target)
  OBVIOUS
<1>2. PICK x, y : x = PestWrite(merged) /\ y = [do |-> "check target"]
  OBVIOUS
<1>40. PICK a : a = <<x, y>>
  OBVIOUS
<1>3. PICK grouped : grouped = Select(alts, LAMBDA alt : alt.grouped)
  OBVIOUS
<1>4. PICK b : b = [i \in DOMAIN grouped |-> [do |-> "migrate", alt |-> grouped[i]]]
  OBVIOUS
<1>5. PICK sweep, c : sweep = [do |-> "sweep"] /\ c = IF tool = "nh" THEN <<sweep>> ELSE <<>>
  OBVIOUS
<1>6. PICK prune, d : prune = [do |-> "prune"] /\ d = IF tool = "nh" THEN <<prune>> ELSE <<>>
  OBVIOUS
<1>7. PICK report, e : report = [do |-> "report"] /\ e = <<report>>
  OBVIOUS
<1>8. plan = a \o b \o c \o made \o d \o e
  BY <1>0, <1>2, <1>40, <1>3, <1>4, <1>5, <1>6, <1>7, Zenon DEF Plan, PestWrite
<1>9. /\ x \in T /\ y \in T /\ sweep \in T /\ prune \in T /\ report \in T
      /\ \A alt \in Range(alts) : [do |-> "migrate", alt |-> alt] \in T
      /\ FileWrites(alts, target) \subseteq T /\ Creates(alts) \subseteq T
  <2>1. \A do \in {"check target", "sweep", "prune", "report"} : [do |-> do] \in OtherSteps(alts)
    BY DEF OtherSteps
  <2>2. \A alt \in Range(alts) : [do |-> "migrate", alt |-> alt] \in OtherSteps(alts)
    BY DEF OtherSteps
  <2> QED BY <1>0, <1>1, <1>2, <1>5, <1>6, <1>7, <2>1, <2>2 DEF StepsFor
<1>10. a \in Seq(T) /\ Never(a, "create") /\ Never(a, "migrate") /\ Never(a, "report") /\ Range(a) = {x, y}
  <2>1. x.do = "write"
    BY <1>2 DEF PestWrite, Write
  <2>2. y.do = "check target"
    BY <1>2
  <2>3. DOMAIN a = 1..2 /\ a[1] = x /\ a[2] = y
    BY <1>40
  <2>4. a \in Seq(T)
    BY <1>40, <1>9
  <2>5. Range(a) = {x, y}
    BY <2>3 DEF Range
  <2>6. \A do : x.do # do /\ y.do # do => Never(a, do)
    BY <2>3 DEF Never
  <2> QED BY <2>1, <2>2, <2>4, <2>5, <2>6
<1>11. grouped \in Seq(Range(alts))
  <2>1. PICK each : each = [i \in DOMAIN alts |-> IF alts[i].grouped THEN <<alts[i]>> ELSE <<>>]
    OBVIOUS
  <2>2. grouped = FlattenSeq(each)
    BY <1>3, <2>1 DEF Select
  <2>3. each \in Seq(Seq(Range(alts)))
    <3>1. DOMAIN alts = 1..Len(alts) /\ Len(alts) \in Nat
      BY <1>0
    <3>2. \A alt \in Range(alts) : <<alt>> \in Seq(Range(alts))
      OBVIOUS
    <3>3. \A i \in 1..Len(alts) : alts[i] \in Range(alts) /\ <<>> \in Seq(Range(alts))
      BY <3>1 DEF Range
    <3>5. \A i \in 1..Len(alts) : each[i] \in Seq(Range(alts))
      BY <2>1, <3>1, <3>2, <3>3
    <3>4. each = [i \in 1..Len(alts) |-> each[i]]
      BY <2>1, <3>1
    <3> QED BY <3>1, <3>4, <3>5
  <2> QED BY <2>2, <2>3, Flattens
<1>12. b \in Seq(T) /\ Never(b, "create") /\ Never(b, "report")
  <2>1. DOMAIN grouped = 1..Len(grouped) /\ Len(grouped) \in Nat /\ \A i \in 1..Len(grouped) : grouped[i] \in Range(alts)
    BY <1>11
  <2>2. \A i \in 1..Len(grouped) : b[i] \in T
    BY <1>4, <1>9, <2>1
  <2>3. b = [i \in 1..Len(grouped) |-> b[i]]
    BY <1>4, <2>1
  <2>4. \A i \in DOMAIN b : b[i].do = "migrate"
    BY <1>4
  <2> QED BY <2>1, <2>2, <2>3, <2>4 DEF Never
<1>13. /\ c \in Seq(T) /\ Never(c, "migrate") /\ Never(c, "report")
       /\ Range(c) = IF tool = "nh" THEN {sweep} ELSE {}
  <2>1. sweep.do = "sweep"
    BY <1>5
  <2>2. CASE tool = "nh"
    BY <1>5, <1>9, <2>1, <2>2, OneStep
  <2>3. CASE tool # "nh"
    BY <1>5, <2>3, NoStep
  <2> QED BY <2>2, <2>3
<1>14. made \in Seq(T) /\ Never(made, "migrate") /\ Never(made, "report")
  <2>1. made \in Seq(FileWrites(alts, target) \cup Creates(alts))
    BY <1>0, FilesAre
  <2>2. \A s \in FileWrites(alts, target) \cup Creates(alts) : s \in T /\ s.do \in {"write", "create"}
    <3>1. ASSUME NEW s \in FileWrites(alts, target)
          PROVE  s.do = "write"
      <4>1. \E place, name, text : s = Write(place, name, text)
        BY <3>1 DEF FileWrites, RuleWrite
      <4> QED BY <4>1, Fields
    <3>2. \A s \in Creates(alts) : s.do = "create"
      BY Fields DEF Creates
    <3> QED BY <1>9, <3>1, <3>2
  <2> QED BY <2>1, <2>2 DEF Never
<1>15. /\ d \in Seq(T) /\ Never(d, "migrate") /\ Never(d, "report")
       /\ Range(d) = IF tool = "nh" THEN {prune} ELSE {}
  <2>1. prune.do = "prune"
    BY <1>6
  <2>2. CASE tool = "nh"
    BY <1>6, <1>9, <2>1, <2>2, OneStep
  <2>3. CASE tool # "nh"
    BY <1>6, <2>3, NoStep
  <2> QED BY <2>2, <2>3
<1>16. e \in Seq(T) /\ Never(e, "migrate") /\ Range(e) = {report} /\ Len(e) = 1
  <2>1. report.do # "migrate"
    BY <1>7
  <2> QED BY <1>7, <1>9, <2>1, OneStep
<1>17. Ordered(a) /\ Ordered(b) /\ Ordered(e)
  BY <1>10, <1>12, <1>16 DEF Ordered, Never
<1>18. PICK ab : ab = a \o b
  OBVIOUS
<1>19. ab \in Seq(T) /\ Range(ab) = Range(a) \cup Range(b) /\ Ordered(ab) /\ Never(ab, "report")
  <2>1. ab \in Seq(T) /\ Range(ab) = Range(a) \cup Range(b)
    <3>1. a \in Seq(T) /\ b \in Seq(T)
      BY <1>10, <1>12
    <3>2. ab \in Seq(T)
      BY <1>18, <3>1
    <3>3. Range(a \o b) = Range(a) \cup Range(b)
      BY <3>1, RangeOfConcat
    <3> QED BY <1>18, <3>2, <3>3
  <2>2. Ordered(ab)
    BY <1>10, <1>12, <1>17, <1>18, JoinedOrder
  <2>3. Never(ab, "report")
    BY <1>10, <1>12, <1>18, JoinedNever
  <2> QED BY <2>1, <2>2, <2>3
<1>20. PICK ac : ac = ab \o c
  OBVIOUS
<1>21. ac \in Seq(T) /\ Range(ac) = Range(ab) \cup Range(c) /\ Ordered(ac) /\ Never(ac, "report")
  BY <1>13, <1>19, <1>20, GoesOnWith
<1>22. PICK af : af = ac \o made
  OBVIOUS
<1>23. af \in Seq(T) /\ Range(af) = Range(ac) \cup Range(made) /\ Ordered(af) /\ Never(af, "report")
  BY <1>14, <1>21, <1>22, GoesOnWith
<1>24. PICK ad : ad = af \o d
  OBVIOUS
<1>25. ad \in Seq(T) /\ Range(ad) = Range(af) \cup Range(d) /\ Ordered(ad) /\ Never(ad, "report")
  BY <1>15, <1>23, <1>24, GoesOnWith
<1>26. plan = ad \o e
  BY <1>8, <1>18, <1>20, <1>22, <1>24
<1>27. plan \in Seq(T) /\ Range(plan) = Range(ad) \cup Range(e) /\ Ordered(plan)
  <2>1. plan \in Seq(T) /\ Range(plan) = Range(ad) \cup Range(e)
    <3>1. ad \in Seq(T) /\ e \in Seq(T)
      BY <1>16, <1>25
    <3>2. plan \in Seq(T)
      BY <1>26, <3>1
    <3>3. Range(ad \o e) = Range(ad) \cup Range(e)
      BY <3>1, RangeOfConcat
    <3> QED BY <1>26, <3>2, <3>3
  <2>2. Ordered(plan)
    BY <1>16, <1>17, <1>25, <1>26, JoinedOrder
  <2> QED BY <2>1, <2>2
<1>28. Len(plan) = Len(ad) + 1 /\ DOMAIN plan = 1..Len(ad) + 1 /\ Len(ad) \in Nat /\ DOMAIN ad = 1..Len(ad)
  <2>1. Len(plan) = Len(ad) + Len(e)
    BY <1>16, <1>25, <1>26, Joined
  <2>2. DOMAIN plan = 1..Len(plan)
    BY <1>27
  <2> QED BY <1>16, <1>25, <2>1, <2>2
<1>29. ReportIsLast(plan) /\ plan # <<>>
  <2>1. \A i \in DOMAIN ad : plan[i] = ad[i] /\ ad[i].do # "report"
    BY <1>16, <1>25, <1>26 DEF Never
  <2>2. plan[Len(ad) + 1] = report /\ report.do = "report"
    BY <1>7, <1>16, <1>25, <1>26
  <2>3. \A i \in 1..Len(ad) + 1 : i \in 1..Len(ad) \/ i = Len(ad) + 1
    BY <1>28
  <2>4. ReportIsLast(plan)
    BY <1>28, <2>1, <2>2, <2>3 DEF ReportIsLast
  <2> QED BY <1>28, <2>4
<1>30. Range(plan) = {x, y} \cup Range(b) \cup Range(c) \cup Range(made) \cup Range(d) \cup {report}
  BY <1>10, <1>16, <1>19, <1>21, <1>23, <1>25, <1>27
<1>31. /\ y.do = "check target" /\ sweep.do = "sweep" /\ prune.do = "prune" /\ report.do = "report"
       /\ \A s \in Range(b) : s.do = "migrate"
  <2>1. \A i \in DOMAIN b : b[i].do = "migrate"
    BY <1>4
  <2> QED BY <1>2, <1>5, <1>6, <1>7, <2>1 DEF Range
<1>32. \A s \in Range(plan) : s.do \in {"write", "create"} => s \in Range(made) \cup {PestWrite(merged)}
  BY <1>2, <1>13, <1>15, <1>30, <1>31
<1>33. tool = "nh" => \E s \in Range(plan) : s.do = "sweep"
  BY <1>13, <1>30, <1>31
<1> QED BY <1>1, <1>2, <1>27, <1>29, <1>30, <1>32, <1>33

\* A file of the grammar is written, or a handler made for it.
LEMMA FilesAreMade ==
    ASSUME NEW merged, NEW target, Alternatives(merged) \in Seq(Range(Alternatives(merged))),
           NEW step \in Range(FilesOf(merged, target))
    PROVE  \/ step.do = "write" /\ step \in FileWrites(Alternatives(merged), target)
           \/ step.do = "create" /\ step \in Creates(Alternatives(merged))
<1>1. step \in FileWrites(Alternatives(merged), target) \cup Creates(Alternatives(merged))
  <2>1. PICK made, S : /\ made = FilesOf(merged, target)
                       /\ S = FileWrites(Alternatives(merged), target) \cup Creates(Alternatives(merged))
    OBVIOUS
  <2>2. made \in Seq(S)
    BY <2>1, FilesAre
  <2>3. Range(made) \subseteq S
    BY <2>2 DEF Range
  <2> QED BY <2>1, <2>3
<1>2. CASE step \in FileWrites(Alternatives(merged), target)
  <2>1. \E place, name, text : step = Write(place, name, text)
    BY <1>2 DEF FileWrites, RuleWrite
  <2> QED BY <1>2, <2>1, Fields
<1>3. CASE step \in Creates(Alternatives(merged))
  BY <1>3, Fields DEF Creates
<1> QED BY <1>1, <1>2, <1>3

----------------------------------------------------------------------------
(* A build that ends well.                                                 *)

\* What a step has done, once it is done: what it writes is there, what it makes is
\* there, and nothing else is generated.
NoneStale(merged, target) ==
    \A p \in DOMAIN disk : p[1] = "generated" =>
        \E s \in Range(FilesOf(merged, target)) : PathOf(s) = p
Did(step, merged, target) ==
    /\ step.do = "write" => PathOf(step) \in DOMAIN disk /\ disk[PathOf(step)] = Generated(step.text)
    /\ step.do = "create" => PathOf(step) \in DOMAIN disk
    /\ step.do = "sweep" => NoneStale(merged, target)

\* How far a build is: at step n of the plan for the grammar it merged.
Writing == job # NoJob /\ job.doing = "writing"
At(n, plan, merged, target) ==
    /\ merged = job.merged /\ target = TargetOf(job.tool, merged) /\ plan = Plan(job.tool, merged)
    /\ n \in 1..Len(plan) /\ job.todo = SubSeq(plan, n, Len(plan))
    /\ \A i \in 1..(n - 1) : Did(plan[i], merged, target)
WholeSoFar ==
    Writing /\ Unedited =>
        /\ job.merged = Merge(files)
        /\ Alternatives(job.merged) \in Seq(Range(Alternatives(job.merged)))
        /\ GrammarIsWhole(job.merged)
        /\ \E n, plan, merged, target : At(n, plan, merged, target)

\* The bounds that tell whether anything was edited or implemented since.
LastOK ==
    last.ok => /\ last.since \in Nat /\ budget.edits <= last.since
               /\ last.works \in Nat /\ budget.works <= last.works
IsWhole(merged, tool, works) ==
    /\ GrammarIsWhole(merged)
    /\ Pest \in DOMAIN disk /\ disk[Pest] = Generated(PestOf(merged))
    /\ \A s \in Range(FilesOf(merged, TargetOf(tool, merged))) :
          s.do \in {"write", "create"} /\ Did(s, merged, TargetOf(tool, merged))
    /\ tool = "nh" =>
          /\ NoneStale(merged, TargetOf(tool, merged))
          /\ works = budget.works =>
                \A a \in Range(Alternatives(merged)) : ~IsError(Drift(a, disk[HandlerPath(a)]))
LastIsWhole == job = NoJob /\ last.ok /\ last.since = budget.edits => IsWhole(Merge(files), last.tool, last.works)
SInv == BInv /\ WholeSoFar /\ LastOK /\ LastIsWhole

\* The invariant says what is to be proved.
LEMMA WholeIsSuccess ==
    ASSUME LastIsWhole
    PROVE  SuccessIsWhole
<1> SUFFICES ASSUME job = NoJob, last.ok, last.since = budget.edits,
                    NEW merged, merged = Merge(files),
                    NEW steps, steps = Range(FilesOf(merged, TargetOf(last.tool, merged))),
                    NEW alts, alts = Range(Alternatives(merged))
             PROVE  /\ Range(merged.declares) = AllDeclared
                    /\ \A d, e \in AllDeclared : d.name = e.name => d = e
                    /\ disk[Pest] = Generated([declares |-> merged.declares, entry |-> FirstRule(Entry)])
                    /\ \A s \in steps :
                          /\ PathOf(s) \in DOMAIN disk
                          /\ s.do = "write" => disk[PathOf(s)] = Generated(s.text)
                    /\ last.tool = "nh" =>
                          /\ \A p \in DOMAIN disk : p[1] = "generated" => \E s \in steps : PathOf(s) = p
                          /\ last.works = budget.works =>
                                \A a \in alts : ~IsError(Drift(a, disk[HandlerPath(a)]))
  BY Zenon DEF SuccessIsWhole
<1>1. IsWhole(merged, last.tool, last.works)
  BY DEF LastIsWhole
<1>2. GrammarIsWhole(merged) /\ disk[Pest] = Generated([declares |-> merged.declares, entry |-> FirstRule(Entry)])
  BY <1>1 DEF IsWhole, GrammarIsWhole, PestOf
<1>3. \A s \in steps : PathOf(s) \in DOMAIN disk /\ (s.do = "write" => disk[PathOf(s)] = Generated(s.text))
  BY <1>1 DEF IsWhole, Did
<1>4. last.tool = "nh" =>
        /\ \A p \in DOMAIN disk : p[1] = "generated" => \E s \in steps : PathOf(s) = p
        /\ last.works = budget.works => \A a \in alts : ~IsError(Drift(a, disk[HandlerPath(a)]))
  BY <1>1 DEF IsWhole, NoneStale
<1> QED BY <1>2, <1>3, <1>4 DEF GrammarIsWhole

\* The step a build is at, and what is left after it.
LEMMA StepAt ==
    ASSUME JobOK, Writing, Alternatives(job.merged) \in Seq(Range(Alternatives(job.merged))),
           NEW n, NEW plan, NEW merged, NEW target, At(n, plan, merged, target)
    PROVE  /\ Len(plan) \in Nat /\ DOMAIN plan = 1..Len(plan) /\ n \in 1..Len(plan)
           /\ Step = plan[n] /\ Step \in Range(plan)
           /\ Step.do = "report" <=> n = Len(plan)
           /\ n # Len(plan) => /\ n + 1 \in 1..Len(plan)
                               /\ Tail(job.todo) = SubSeq(plan, n + 1, Len(plan))
           /\ Ordered(plan)
           /\ \A s \in Range(plan) : s.do \in {"write", "create"} =>
                 s \in Range(FilesOf(merged, target)) \cup {PestWrite(merged)}
<1>1. /\ plan \in Seq(StepsFor(merged, target)) /\ Ordered(plan) /\ ReportIsLast(plan)
      /\ \A s \in Range(plan) : s.do \in {"write", "create"} =>
            s \in Range(FilesOf(merged, target)) \cup {PestWrite(merged)}
  <2>1. PICK made, tool : made = FilesOf(merged, target) /\ tool = job.tool
    OBVIOUS
  <2>2. /\ tool \in Tools /\ target = TargetOf(tool, merged) /\ plan = Plan(tool, merged)
        /\ Alternatives(merged) \in Seq(Range(Alternatives(merged)))
    BY <2>1 DEF JobOK, Writing, At
  <2> QED BY <2>1, <2>2, PlanIs
<1>2. Len(plan) \in Nat /\ DOMAIN plan = 1..Len(plan) /\ n \in 1..Len(plan)
  BY <1>1 DEF At
<1>3. PICK todo : todo = SubSeq(plan, n, Len(plan))
  OBVIOUS
<1>4. todo = [i \in 1..(Len(plan) - n + 1) |-> plan[i + n - 1]]
  BY <1>2, <1>3
<1>5. Len(todo) = Len(plan) - n + 1 /\ todo[1] = plan[n] /\ job.todo = todo
  BY <1>2, <1>3, <1>4 DEF At
<1>6. Step = plan[n]
  BY <1>5 DEF Step
<1>7. Step \in Range(plan) /\ (Step.do = "report" <=> n = Len(plan))
  BY <1>1, <1>2, <1>6 DEF ReportIsLast, Range
<1>8. ASSUME n # Len(plan)
      PROVE  n + 1 \in 1..Len(plan) /\ Tail(todo) = SubSeq(plan, n + 1, Len(plan))
  <2>1. n + 1 \in 1..Len(plan)
    <3>1. PICK size \in Nat : size = Len(plan)
      BY <1>2
    <3>2. n \in 1..size /\ n # size
      BY <1>2, <1>8, <3>1
    <3>3. n + 1 \in 1..size
      BY <3>2
    <3> QED BY <3>1, <3>3
  <2>2. \A i \in 1..Len(plan) - n : i + 1 \in 1..Len(plan) - n + 1 /\ i + 1 + n - 1 = i + (n + 1) - 1
    BY <1>2
  <2>3. Tail(todo) = [i \in 1..Len(plan) - n |-> todo[i + 1]]
    BY <1>2, <1>4, <1>5
  <2>4. SubSeq(plan, n + 1, Len(plan)) = [i \in 1..Len(plan) - n |-> plan[i + (n + 1) - 1]]
    BY <1>2, <2>1
  <2>5. \A i \in 1..Len(plan) - n : todo[i + 1] = plan[i + (n + 1) - 1]
    BY <1>4, <2>2
  <2> QED BY <2>1, <2>3, <2>4, <2>5
<1> QED BY <1>1, <1>2, <1>5, <1>6, <1>7, <1>8

\* What the author keeps is never what is written as generated.
LEMMA PathsOfSteps ==
    /\ \A s : s.do = "write" =>
          /\ ~IsHandler(PathOf(s))
          /\ \A alt : PathOf(s) # FlatPath(alt)
    /\ \A s : s.do = "create" => PathOf(s) = HandlerPath(s.alt)
    /\ \A alt : HandlerPath(alt)[1] = "handlers" /\ FlatPath(alt)[1] = "handlers"
    /\ \A merged : PathOf(PestWrite(merged)) = Pest /\ PestWrite(merged).do = "write"
    /\ Pest[1] = "pest" /\ ~IsHandler(Pest)
<1>1. ASSUME NEW s, s.do = "write"
      PROVE  ~IsHandler(PathOf(s)) /\ \A alt : PathOf(s) # FlatPath(alt)
  <2>1. PathOf(s) \in {Pest, <<"generated", s.name>>, <<"handlers", "mod">>, <<"handlers", s.name, "mod">>}
    BY <1>1 DEF PathOf
  <2>2. \A alt : PathOf(s) # FlatPath(alt)
    BY <2>1 DEF FlatPath, Pest
  <2> QED BY <1>1, <2>2, GeneratedElsewhere
<1>2. \A s : s.do = "create" => PathOf(s) = HandlerPath(s.alt)
  BY DEF PathOf
<1>3. \A alt : HandlerPath(alt)[1] = "handlers" /\ FlatPath(alt)[1] = "handlers"
  BY DEF HandlerPath, FlatPath
<1>4. \A merged : PestWrite(merged).do = "write" /\ PestWrite(merged).place = "pest"
  BY Fields DEF PestWrite
<1>5. \A merged : PathOf(PestWrite(merged)) = Pest
  BY <1>4 DEF PathOf
<1>6. Pest[1] = "pest" /\ ~IsHandler(Pest)
  BY DEF Pest, IsHandler
<1> QED BY <1>1, <1>2, <1>3, <1>4, <1>5, <1>6

\* What is done stays done as long as its file stays, and is as it was, and nothing
\* else is generated.
LEMMA StaysDone ==
    ASSUME NEW s, NEW merged, NEW target, Did(s, merged, target),
           s.do \in {"write", "create"} /\ PathOf(s) \in DOMAIN disk => PathOf(s) \in DOMAIN disk',
           s.do = "write" /\ PathOf(s) \in DOMAIN disk /\ disk[PathOf(s)] = Generated(s.text) =>
              disk'[PathOf(s)] = Generated(s.text),
           \A p \in DOMAIN disk' : p[1] = "generated" /\ p \notin DOMAIN disk =>
              \E f \in Range(FilesOf(merged, target)) : PathOf(f) = p
    PROVE  Did(s, merged, target)'
BY DEF Did, NoneStale

\* A step is done, and what was done before stays done.
DoneUpTo(n, plan, merged, target) == \A i \in 1..n : Did(plan[i], merged, target)
UnderWay(n, plan, merged, target) ==
    /\ JobOK /\ Writing /\ Alternatives(job.merged) \in Seq(Range(Alternatives(job.merged)))
    /\ At(n, plan, merged, target)

\* What the step in hand stands on.
LEMMA SoFar ==
    ASSUME NEW n, NEW plan, NEW merged, NEW target, UnderWay(n, plan, merged, target)
    PROVE  /\ Len(plan) \in Nat /\ DOMAIN plan = 1..Len(plan) /\ n \in 1..Len(plan) /\ Step = plan[n]
           /\ DoneUpTo(n - 1, plan, merged, target)
           /\ \A i \in 1..n : /\ plan[i] \in Range(plan)
                              /\ plan[i].do \in {"write", "create"} =>
                                    plan[i] \in Range(FilesOf(merged, target)) \cup {PestWrite(merged)}
           /\ Ordered(plan)
           /\ Produced = {PathOf(f) : f \in Range(FilesOf(merged, target))}
<1>1. /\ Len(plan) \in Nat /\ DOMAIN plan = 1..Len(plan) /\ n \in 1..Len(plan) /\ Step = plan[n] /\ Ordered(plan)
      /\ \A s \in Range(plan) : s.do \in {"write", "create"} =>
                 s \in Range(FilesOf(merged, target)) \cup {PestWrite(merged)}
  BY StepAt DEF UnderWay
<1>2. \A i \in 1..n : plan[i] \in Range(plan)
  BY <1>1 DEF Range
<1>3. DoneUpTo(n - 1, plan, merged, target)
  BY DEF UnderWay, At, DoneUpTo
<1>4. Produced = {PathOf(f) : f \in Range(FilesOf(merged, target))}
  BY DEF UnderWay, At, Produced
<1> QED BY <1>1, <1>2, <1>3, <1>4

\* Each of the steps does what it is for, and undoes none before it: a file written,
LEMMA WriteDone ==
    ASSUME NEW n, NEW plan, NEW merged, NEW target, UnderWay(n, plan, merged, target), WriteGenerated
    PROVE  DoneUpTo(n, plan, merged, target)'
<1>1. PICK w : w = plan[n]
  OBVIOUS
<1>2. PICK path : path = PathOf(w)
  OBVIOUS
<1>3. n \in Nat /\ w.do = "write" /\ disk' = With(disk, path, Generated(w.text))
  BY <1>1, <1>2, SoFar DEF WriteGenerated, Now, Step, Writes
<1>4. /\ DOMAIN disk' = DOMAIN disk \cup {path}
      /\ \A p \in DOMAIN disk' : disk'[p] = IF p = path THEN Generated(w.text) ELSE disk[p]
  BY <1>3 DEF With
<1>5. ASSUME NEW i \in 1..(n - 1)
      PROVE  Did(plan[i], merged, target)'
  <2>1. PICK s : s = plan[i]
    OBVIOUS
  <2>2. Did(s, merged, target) /\ i \in 1..n /\ n \in 1..n
    BY <1>3, <1>5, <2>1, SoFar DEF DoneUpTo
  <2>3. /\ s.do = "write" => s \in Range(FilesOf(merged, target)) \cup {PestWrite(merged)}
        /\ w \in Range(FilesOf(merged, target)) \cup {PestWrite(merged)}
    BY <1>1, <1>3, <2>1, <2>2, SoFar
  <2>4. ASSUME s.do = "write", PathOf(s) = path
        PROVE  s = w
    <3>1. Alternatives(merged) \in Seq(Range(Alternatives(merged)))
      BY DEF UnderWay, At
    <3>2. \A x \in Range(FilesOf(merged, target)) : x.do = "write" => x \in FileWrites(Alternatives(merged), target)
      BY <3>1, FilesAreMade
    <3>3. /\ s \in FileWrites(Alternatives(merged), target) \cup {PestWrite(merged)}
          /\ w \in FileWrites(Alternatives(merged), target) \cup {PestWrite(merged)}
      BY <1>3, <2>3, <2>4, <3>2
    <3> QED BY <1>2, <2>4, <3>3, WrittenOnce
  <2>5. path[1] = "generated" => \E f \in Range(FilesOf(merged, target)) : PathOf(f) = path
    BY <1>2, <2>3, PathsOfSteps
  <2>6. s.do = "write" /\ PathOf(s) \in DOMAIN disk /\ disk[PathOf(s)] = Generated(s.text) =>
              disk'[PathOf(s)] = Generated(s.text)
    BY <1>4, <2>4
  <2>7. Did(s, merged, target)'
    BY <1>4, <2>2, <2>5, <2>6, StaysDone
  <2> QED BY <2>1, <2>7
<1>6. Did(w, merged, target)'
  BY <1>2, <1>3, <1>4 DEF Did
<1>7. \A i \in 1..n : i \in 1..(n - 1) \/ i = n
  BY <1>3
<1> QED BY <1>1, <1>5, <1>6, <1>7 DEF DoneUpTo

\* a handler made,
LEMMA CreateDone ==
    ASSUME NEW n, NEW plan, NEW merged, NEW target, UnderWay(n, plan, merged, target), CreateStub
    PROVE  DoneUpTo(n, plan, merged, target)'
<1>1. PICK w : w = plan[n]
  OBVIOUS
<1>2. PICK path, held : path = PathOf(w) /\ held = Stub(w.alt.params)
  OBVIOUS
<1>3. n \in Nat /\ w.do = "create" /\ disk' = IF path \in DOMAIN disk THEN disk ELSE With(disk, path, held)
  BY <1>1, <1>2, SoFar DEF CreateStub, Now, Step
<1>4. /\ DOMAIN disk' = DOMAIN disk \cup {path}
      /\ \A p \in DOMAIN disk : disk'[p] = disk[p]
  BY <1>3 DEF With
<1>5. path[1] # "generated"
  BY <1>2, <1>3, PathsOfSteps
<1>6. ASSUME NEW i \in 1..(n - 1)
      PROVE  Did(plan[i], merged, target)'
  <2>1. Did(plan[i], merged, target)
    BY SoFar DEF DoneUpTo
  <2> QED BY <1>4, <1>5, <2>1, StaysDone
<1>7. Did(w, merged, target)'
  BY <1>2, <1>3, <1>4 DEF Did
<1>8. \A i \in 1..n : i \in 1..(n - 1) \/ i = n
  BY <1>3
<1> QED BY <1>1, <1>6, <1>7, <1>8 DEF DoneUpTo

\* The step is of another kind, and no file is added.
LEMMA NothingAdded ==
    ASSUME NEW s, NEW merged, NEW target, Did(s, merged, target), DOMAIN disk' \subseteq DOMAIN disk,
           s.do \in {"write", "create"} => PathOf(s) \in DOMAIN disk',
           \A p \in DOMAIN disk' : disk'[p] = disk[p]
    PROVE  Did(s, merged, target)'
BY StaysDone

\* what was replaced or stands in the way removed,
LEMMA Removed ==
    ASSUME NEW n, NEW plan, NEW merged, NEW target, UnderWay(n, plan, merged, target),
           RemoveReplaced \/ RemoveOld
    PROVE  DoneUpTo(n - 1, plan, merged, target)'
<1>1. n \in Nat /\ n \in 1..n /\ \A i \in 1..(n - 1) : i \in 1..n /\ i \in DOMAIN plan /\ n \in DOMAIN plan /\ i < n
  BY SoFar
<1>2. ASSUME disk' = disk
      PROVE  DoneUpTo(n - 1, plan, merged, target)'
  BY <1>2, SoFar DEF DoneUpTo, Did, NoneStale
<1>3. ASSUME NEW path, disk' = Without(disk, path),
             \A i \in 1..(n - 1) : plan[i].do \in {"write", "create"} /\ Did(plan[i], merged, target) => PathOf(plan[i]) # path
      PROVE  DoneUpTo(n - 1, plan, merged, target)'
  <2>1. DOMAIN disk' = DOMAIN disk \ {path} /\ \A p \in DOMAIN disk' : disk'[p] = disk[p]
    BY <1>3 DEF Without, Restrict
  <2>2. ASSUME NEW i \in 1..(n - 1)
        PROVE  Did(plan[i], merged, target)'
    <3>1. Did(plan[i], merged, target)
      BY SoFar DEF DoneUpTo
    <3>2. plan[i].do \in {"write", "create"} => PathOf(plan[i]) \in DOMAIN disk'
      BY <1>3, <2>1, <3>1 DEF Did
    <3> QED BY <2>1, <3>1, <3>2, NothingAdded
  <2> QED BY <2>2 DEF DoneUpTo
<1>4. CASE RemoveReplaced
  <2>1. PICK to : to = To
    OBVIOUS
  <2>2. Step.do = "migrate" /\ disk[to].kind = "stub" /\ disk' = Without(disk, to)
    BY <1>4, <2>1 DEF RemoveReplaced, Now, Step, Replaces, Delete
  <2>3. ASSUME NEW i \in 1..(n - 1), plan[i].do \in {"write", "create"}, Did(plan[i], merged, target)
        PROVE  PathOf(plan[i]) # to
    <3>1. plan[i].do # "create"
      BY <1>1, <2>2, SoFar DEF Ordered
    <3>2. disk[PathOf(plan[i])].kind = "generated"
      BY <2>3, <3>1, OfKinds DEF Did
    <3> QED BY <2>2, <3>2
  <2> QED BY <1>3, <2>2, <2>3
<1>5. CASE \E path \in Stale \cup Orphans : disk' = Without(disk, path)
  <2>1. PICK path \in Stale \cup Orphans : disk' = Without(disk, path)
    BY <1>5
  <2>2. path \notin Produced /\ path # Pest
    BY <2>1, PathsOfSteps DEF Stale, Orphans
  <2>3. ASSUME NEW i \in 1..(n - 1), plan[i].do \in {"write", "create"}
        PROVE  PathOf(plan[i]) # path
    <3>1. plan[i] \in Range(FilesOf(merged, target)) \cup {PestWrite(merged)}
      BY <1>1, <2>3, SoFar
    <3> QED BY <2>2, <3>1, SoFar, PathsOfSteps
  <2> QED BY <1>3, <2>1, <2>3
<1>6. CASE RemoveOld
  <2>1. PICK old : /\ old \subseteq Stale \cup Orphans
                   /\ disk' = disk \/ \E path \in old : disk' = Without(disk, path)
    <3>1. Prunable \subseteq Orphans
      BY DEF Prunable
    <3> QED BY <1>6, <3>1 DEF RemoveOld, Delete
  <2> QED BY <1>2, <1>5, <2>1
<1> QED BY <1>4, <1>6

\* a handler moved,
LEMMA MigrateDone ==
    ASSUME NEW n, NEW plan, NEW merged, NEW target, UnderWay(n, plan, merged, target), Migrate
    PROVE  DoneUpTo(n, plan, merged, target)'
<1>1. n \in Nat /\ \A i \in 1..(n - 1) : i \in 1..n /\ i \in DOMAIN plan /\ n \in DOMAIN plan /\ i < n
  BY SoFar
<1>2. Step.do = "migrate" /\ Step = plan[n]
  BY SoFar DEF Migrate, Now, Step
<1>3. ASSUME NEW i \in 1..(n - 1)
      PROVE  Did(plan[i], merged, target)'
  <2>1. PICK s : s = plan[i]
    OBVIOUS
  <2>2. Did(s, merged, target) /\ s.do # "create"
    BY <1>1, <1>2, <2>1, SoFar DEF DoneUpTo, Ordered
  <2>3. CASE disk' = disk
    BY <2>1, <2>2, <2>3 DEF Did, NoneStale
  <2>4. CASE To \notin DOMAIN disk /\ disk' = With(Without(disk, From), To, disk[From])
    <3>1. PICK from, to : from = From /\ to = To
      OBVIOUS
    <3>2. PICK d : d = Without(disk, from)
      OBVIOUS
    <3>3. DOMAIN d = DOMAIN disk \ {from} /\ \A p \in DOMAIN d : d[p] = disk[p]
      BY <3>2 DEF Without, Restrict
    <3>4. disk' = With(d, to, disk[from]) /\ to \notin DOMAIN disk
      BY <2>4, <3>1, <3>2
    <3>5. /\ DOMAIN disk' = (DOMAIN disk \ {from}) \cup {to}
          /\ \A p \in DOMAIN disk' : disk'[p] = IF p = to THEN disk[from] ELSE d[p]
      BY <3>3, <3>4 DEF With
    <3>6. to[1] # "generated" /\ \A x : x.do = "write" => PathOf(x) # from
      BY <3>1, PathsOfSteps DEF To, From
    <3>7. Did(s, merged, target)'
      BY <2>2, <3>3, <3>4, <3>5, <3>6, StaysDone
    <3> QED BY <2>1, <3>7
  <2> QED BY <2>3, <2>4 DEF Migrate
<1>4. Did(plan[n], merged, target)'
  BY <1>2 DEF Did
<1>5. \A i \in 1..n : i \in 1..(n - 1) \/ i = n
  BY <1>1
<1> QED BY <1>3, <1>4, <1>5 DEF DoneUpTo

\* and what is no longer generated removed.
LEMMA OldRemoved ==
    ASSUME NEW n, NEW plan, NEW merged, NEW target, UnderWay(n, plan, merged, target),
           RemoveOld, ~UNCHANGED job
    PROVE  Done /\ DoneUpTo(n, plan, merged, target)'
<1>1. n \in Nat /\ Step = plan[n]
  BY SoFar
<1>2. /\ Step.do = "sweep" \/ Step.do = "prune"
      /\ Step.do = "sweep" => Stale = {}
      /\ Done /\ disk' = disk
  BY DEF RemoveOld, Now, Step
<1>3. ASSUME Step.do = "sweep"
      PROVE  NoneStale(merged, target)
  <2>1. \A p \in DOMAIN disk : p[1] = "generated" => p \in Produced
    BY <1>2, <1>3 DEF Stale
  <2> QED BY <2>1, SoFar DEF NoneStale
<1>4. Did(plan[n], merged, target)
  BY <1>1, <1>2, <1>3 DEF Did
<1>5. DoneUpTo(n, plan, merged, target)
  <2>1. DoneUpTo(n - 1, plan, merged, target)
    BY SoFar
  <2>2. \A i \in 1..n : i \in 1..(n - 1) \/ i = n
    BY <1>1
  <2> QED BY <1>4, <2>1, <2>2 DEF DoneUpTo
<1> QED BY <1>2, <1>5 DEF DoneUpTo, Did, NoneStale

\* The author writes in one handler file.
LEMMA ImplementWrites ==
    ASSUME DiskOK, Implement
    PROVE  \E path : /\ IsHandler(path) /\ DOMAIN disk' = DOMAIN disk
                     /\ \A p \in DOMAIN disk : p # path => disk'[p] = disk[p]
<1>1. PICK path, params, by :
         path \in DOMAIN disk /\ IsHandler(path) /\ disk' = [disk EXCEPT ![path] = Work(by, params)]
  BY DEF Implement
<1> QED BY <1>1 DEF DiskOK

\* So what a build has done stands.
LEMMA ImplementKeeps ==
    ASSUME DiskOK, NEW s, NEW merged, NEW target, Did(s, merged, target), Implement
    PROVE  Did(s, merged, target)'
<1>1. PICK path : /\ IsHandler(path) /\ DOMAIN disk' = DOMAIN disk
                  /\ \A p \in DOMAIN disk : p # path => disk'[p] = disk[p]
  BY ImplementWrites
<1>2. s.do = "write" => PathOf(s) # path
  BY <1>1, PathsOfSteps
<1> QED BY <1>1, <1>2, StaysDone

\* The build stays at its step, or goes on to the next.
LEMMA Stands ==
    ASSUME NEW n, NEW plan, NEW merged, NEW target, UnderWay(n, plan, merged, target), job' = job,
           DoneUpTo(n - 1, plan, merged, target)'
    PROVE  At(n, plan, merged, target)'
BY DEF UnderWay, At, DoneUpTo

LEMMA Advances ==
    ASSUME NEW n, NEW plan, NEW merged, NEW target, UnderWay(n, plan, merged, target), Done,
           Step.do # "report", DoneUpTo(n, plan, merged, target)'
    PROVE  /\ At(n + 1, plan, merged, target)'
           /\ job'.merged = job.merged /\ job'.tool = job.tool /\ job'.since = job.since
<1>1. job = [f \in JobFields |-> job[f]] /\ job' = [job EXCEPT !.todo = Tail(@)]
  BY DEF UnderWay, JobOK, Writing, Done
<1>2. /\ job'.merged = job.merged /\ job'.tool = job.tool /\ job'.since = job.since
      /\ job'.todo = Tail(job.todo)
  BY <1>1 DEF JobFields
<1>3. n \in Nat /\ n + 1 \in 1..Len(plan) /\ Tail(job.todo) = SubSeq(plan, n + 1, Len(plan))
  BY StepAt DEF UnderWay
<1>4. (n + 1) - 1 = n
  BY <1>3
<1> QED BY <1>2, <1>3, <1>4 DEF UnderWay, At, DoneUpTo

\* With the same texts the merged grammar is as whole as before.
LEMMA SameGrammar ==
    ASSUME UNCHANGED sources
    PROVE  \A merged : GrammarIsWhole(merged)' <=> GrammarIsWhole(merged)
<1>1. Reached' = Reached
  BY SameGraph
<1>2. AllDeclared' = AllDeclared /\ FirstRule(Entry)' = FirstRule(Entry)
  BY <1>1 DEF AllDeclared, FirstRule
<1> QED BY <1>2 DEF GrammarIsWhole

\* The build goes on with the same grammar.
LEMMA StillWhole ==
    ASSUME NEW merged, merged = job.merged, merged = job'.merged, merged = Merge(files),
           Alternatives(merged) \in Seq(Range(Alternatives(merged))), GrammarIsWhole(merged),
           UNCHANGED <<sources, files>>,
           NEW n, NEW plan, NEW target, At(n, plan, merged, target)'
    PROVE  WholeSoFar'
<1>1. GrammarIsWhole(merged)'
  BY SameGrammar
<1>2. (merged = Merge(files))'
  OBVIOUS
<1>3. (merged = job.merged)'
  OBVIOUS
<1> QED BY <1>1, <1>2, <1>3 DEF WholeSoFar

\* The grammar is resolved, and the build goes on to write.
LEMMA ResolveStep ==
    ASSUME BInv, Resolve, Unedited, Writing'
    PROVE  WholeSoFar'
<1>1. PICK merged : merged = Merge(files)
  OBVIOUS
<1>2. /\ Loaded /\ job # NoJob /\ job.doing = "loading" /\ job = [f \in JobFields |-> job[f]] /\ job.tool \in Tools
  BY Types DEF Resolve, BInv, JobOK
<1>3. LInv
  BY <1>2 DEF BInv, AsItWas
<1>4. CASE Refused(merged) /\ End(FALSE)
  BY <1>4 DEF End, Writing
<1>5. CASE /\ ~Refused(merged)
           /\ job' = [job EXCEPT !.doing = "writing", !.merged = merged, !.todo = Plan(job.tool, merged)]
  <2>1. problems = <<>> /\ merged.problems = <<>>
    BY <1>5 DEF Refused
  <2>2. /\ IsMerged(merged, AllDeclared) /\ GrammarIsWhole(merged)
        /\ \A d \in AllDeclared : d.kind = "rule" => d.alternatives \in Seq(Range(d.alternatives))
    BY <1>1, <1>2, <1>3, <2>1, LoadedIsMerged
  <2>3. Alternatives(merged) \in Seq(Range(Alternatives(merged)))
    BY <2>2, AlternativesOf DEF IsMerged
  <2>4. PICK plan, target, tool : /\ tool = job.tool /\ plan = Plan(tool, merged)
                                  /\ target = TargetOf(tool, merged)
    OBVIOUS
  <2>5. plan \in Seq(StepsFor(merged, target)) /\ plan # <<>>
    <3>1. PICK made : made = FilesOf(merged, target)
      OBVIOUS
    <3> QED BY <1>2, <2>3, <2>4, <3>1, PlanIs
  <2>6. 1 \in 1..Len(plan) /\ plan = SubSeq(plan, 1, Len(plan))
    <3>1. Len(plan) \in Nat /\ Len(plan) # 0
      BY <2>5
    <3> QED BY <2>5, <3>1
  <2>7. job'.merged = merged /\ job'.todo = plan /\ job'.tool = tool
    BY <1>2, <1>5, <2>4 DEF JobFields
  <2>8. At(1, plan, merged, target)'
    BY <2>4, <2>6, <2>7 DEF At
  <2>9. GrammarIsWhole(merged)' /\ (merged = Merge(files))' /\ (merged = job.merged)'
    BY <1>1, <2>2, <2>7, SameGrammar DEF Resolve, loader
  <2> QED BY <2>3, <2>8, <2>9 DEF WholeSoFar
<1> QED BY <1>1, <1>4, <1>5 DEF Resolve

\* What a build under way has done, through every step.
LEMMA WholeSoFarStep ==
    ASSUME SInv, [Next]_allvars
    PROVE  WholeSoFar'
<1> SUFFICES ASSUME Writing', Unedited'
             PROVE  WholeSoFar'
  BY DEF WholeSoFar
<1>1. JobOK /\ DiskOK /\ budget \in Budgets
  BY Types DEF SInv, BInv
<1>2. /\ budget.edits \in Nat /\ budget'.edits \in Nat
      /\ Edit => budget'.edits < budget.edits
      /\ ~Edit => budget'.edits = budget.edits
  BY <1>1, BudgetStep
<1>3. CASE Begin
  BY <1>3 DEF Begin, Writing
<1>4. CASE Loading
  BY <1>4 DEF Loading, Writing
<1>5. CASE Edit
  <2>1. job' = job /\ job # NoJob /\ job.since = budget'.edits
    BY <1>5 DEF Edit, Writing, Unedited
  <2>2. job.since \in Nat /\ budget.edits <= job.since
    BY <1>1, <2>1 DEF JobOK
  <2> QED BY <1>2, <1>5, <2>1, <2>2
<1>6. CASE Resolve /\ ~Edit
  <2>1. Unedited
    <3>1. job # NoJob /\ job = [f \in JobFields |-> job[f]]
      BY <1>1, <1>6 DEF Resolve, JobOK
    <3>2. \A ok : ~End(ok)
      BY DEF End, Writing
    <3>3. \E merged, todo : job' = [job EXCEPT !.doing = "writing", !.merged = merged, !.todo = todo]
      BY <1>6, <3>2 DEF Resolve
    <3>4. job'.since = job.since
      BY <3>1, <3>3 DEF JobFields
    <3> QED BY <1>2, <1>6, <3>1, <3>4 DEF Unedited
  <2> QED BY <1>6, <2>1, ResolveStep DEF SInv
<1>7. CASE /\ \/ Implement \/ WriteGenerated \/ CreateStub \/ CheckTarget \/ RemoveReplaced \/ Migrate
              \/ RemoveOld \/ Report \/ Break \/ UNCHANGED allvars
           /\ ~Edit
  <2>1. /\ UNCHANGED <<sources, files>> /\ ~Edit
    <3>1. UNCHANGED <<sources, files>>
      BY <1>7 DEF Implement, WriteGenerated, CreateStub, CheckTarget, RemoveReplaced, Migrate,
                  RemoveOld, Report, Break, allvars, loader
    <3> QED BY <1>7, <3>1
  <2>2. \A ok : ~End(ok)
    BY DEF End, Writing
  <2>3. Writing /\ Unedited
    <3>1. job' = job \/ (job # NoJob /\ job.doing = "writing" /\ Done)
      BY <1>7, <2>2 DEF Implement, WriteGenerated, CreateStub, CheckTarget, RemoveReplaced, Migrate,
                  RemoveOld, Report, Break, allvars, Now
    <3>2. CASE job' = job
      BY <1>2, <2>1, <3>2 DEF Writing, Unedited
    <3>3. CASE job # NoJob /\ job.doing = "writing" /\ Done
      <4>1. job' = [job EXCEPT !.todo = Tail(@)] /\ job = [f \in JobFields |-> job[f]]
        BY <1>1, <3>3 DEF Done, JobOK
      <4>2. job'.since = job.since
        BY <4>1 DEF JobFields
      <4> QED BY <1>2, <2>1, <3>3, <4>2 DEF Writing, Unedited
    <3> QED BY <3>1, <3>2, <3>3
  <2>4. PICK merged : merged = job.merged
    OBVIOUS
  <2>5. /\ merged = Merge(files) /\ Alternatives(merged) \in Seq(Range(Alternatives(merged)))
        /\ GrammarIsWhole(merged)
        /\ \E n, plan, m, target : At(n, plan, m, target)
    BY <2>3, <2>4 DEF SInv, WholeSoFar
  <2>6. PICK n, plan, m, target : At(n, plan, m, target)
    BY <2>5
  <2>7. m = merged /\ UnderWay(n, plan, merged, target)
    BY <1>1, <2>3, <2>4, <2>5, <2>6 DEF At, UnderWay
  <2>8. ASSUME DoneUpTo(n - 1, plan, merged, target)', job' = job
        PROVE  WholeSoFar'
    <3>1. At(n, plan, merged, target)'
      BY <2>7, <2>8, Stands
    <3> QED BY <2>1, <2>4, <2>5, <2>8, <3>1, StillWhole
  <2>9. ASSUME DoneUpTo(n, plan, merged, target)', Done, Step.do # "report"
        PROVE  WholeSoFar'
    <3>1. At(n + 1, plan, merged, target)' /\ job'.merged = job.merged
      BY <2>7, <2>9, Advances
    <3> QED BY <2>1, <2>4, <2>5, <3>1, StillWhole
  <2>10. CASE Implement
    <3>1. ASSUME NEW i \in 1..(n - 1)
          PROVE  Did(plan[i], merged, target)'
      <4>1. Did(plan[i], merged, target)
        BY <2>7, SoFar DEF DoneUpTo
      <4> QED BY <1>1, <2>10, <4>1, ImplementKeeps
    <3> QED BY <2>8, <2>10, <3>1 DEF DoneUpTo, Implement
  <2>11. CASE WriteGenerated
    <3>1. Done /\ Step.do # "report"
      BY <2>11 DEF WriteGenerated, Now, Step
    <3> QED BY <2>7, <2>9, <2>11, <3>1, WriteDone
  <2>12. CASE CreateStub
    <3>1. Done /\ Step.do # "report"
      BY <2>12 DEF CreateStub, Now, Step
    <3> QED BY <2>7, <2>9, <2>12, <3>1, CreateDone
  <2>13. CASE Migrate
    <3>1. Done /\ Step.do # "report"
      BY <2>13 DEF Migrate, Now, Step
    <3> QED BY <2>7, <2>9, <2>13, <3>1, MigrateDone
  <2>14. CASE CheckTarget
    <3>1. Done /\ Step.do = "check target" /\ disk' = disk
      BY <2>2, <2>14 DEF CheckTarget, Now, Step
    <3>2. n \in Nat /\ Step = plan[n] /\ DoneUpTo(n - 1, plan, merged, target)
      BY <2>7, SoFar
    <3>3. DoneUpTo(n, plan, merged, target)
      <4>1. Did(plan[n], merged, target)
        BY <3>1, <3>2 DEF Did
      <4>2. \A i \in 1..n : i \in 1..(n - 1) \/ i = n
        BY <3>2
      <4> QED BY <3>2, <4>1, <4>2 DEF DoneUpTo
    <3>4. DoneUpTo(n, plan, merged, target)'
      BY <3>1, <3>3 DEF DoneUpTo, Did, NoneStale
    <3> QED BY <2>9, <3>1, <3>4
  <2>15. CASE RemoveReplaced
    <3>1. job' = job
      BY <2>15 DEF RemoveReplaced
    <3> QED BY <2>7, <2>8, <2>15, <3>1, Removed
  <2>16. CASE RemoveOld
    <3>1. Step.do # "report"
      BY <2>16 DEF RemoveOld, Now, Step
    <3> QED BY <2>7, <2>8, <2>9, <2>16, <3>1, Removed, OldRemoved
  <2>17. CASE Report \/ Break
    BY <2>2, <2>17 DEF Report, Break
  <2>18. CASE UNCHANGED allvars
    <3>1. job' = job /\ disk' = disk
      BY <2>18 DEF allvars
    <3>2. DoneUpTo(n - 1, plan, merged, target)'
      BY <2>7, <3>1, SoFar DEF DoneUpTo, Did, NoneStale
    <3> QED BY <2>8, <3>1, <3>2
  <2> QED BY <1>7, <2>10, <2>11, <2>12, <2>13, <2>14, <2>15, <2>16, <2>17, <2>18
<1> QED BY <1>3, <1>4, <1>5, <1>6, <1>7 DEF Next

\* Only a report ends a build well: everything has been done before it.
LEMMA ReportIsWhole ==
    ASSUME SInv, Report, last'.ok, last'.since = budget'.edits
    PROVE  IsWhole(Merge(files), last.tool, last.works)'
<1>1. JobOK /\ Writing /\ job.tool \in Tools
  BY Types DEF SInv, BInv, Report, Now, Writing, JobOK
<1>2. /\ last'.tool = job.tool /\ last'.since = job.since /\ last'.works = budget.works
      /\ job.tool = "cargo" \/ DriftErrors = {}
      /\ UNCHANGED <<sources, files, disk, budget>>
  BY DEF Report, End, loader
<1>3. Unedited
  BY <1>1, <1>2 DEF Unedited, Writing
<1>4. PICK merged, tool, target : merged = job.merged /\ tool = job.tool /\ target = TargetOf(tool, merged)
  OBVIOUS
<1>5. /\ merged = Merge(files) /\ Alternatives(merged) \in Seq(Range(Alternatives(merged)))
      /\ GrammarIsWhole(merged)
      /\ \E n, plan, m, t : At(n, plan, m, t)
  BY <1>1, <1>3, <1>4 DEF SInv, WholeSoFar
<1>6. PICK n, plan : At(n, plan, merged, target)
  BY <1>4, <1>5 DEF At
<1>7. UnderWay(n, plan, merged, target)
  BY <1>1, <1>4, <1>5, <1>6 DEF UnderWay
<1>8. n = Len(plan) /\ n \in Nat /\ plan[n].do = "report" /\ DOMAIN plan = 1..n
  <2>1. Step.do = "report"
    BY DEF Report, Now, Step
  <2> QED BY <1>7, <2>1, StepAt DEF UnderWay
<1>9. \A s \in Range(plan) : s.do # "report" => Did(s, merged, target)
  <2>1. \A i \in 1..n : i \in 1..(n - 1) \/ i = n
    BY <1>8
  <2>2. \A i \in 1..(n - 1) : Did(plan[i], merged, target)
    BY <1>7, SoFar DEF DoneUpTo
  <2> QED BY <1>8, <2>1, <2>2 DEF Range
<1>10. /\ PestWrite(merged) \in Range(plan)
       /\ Range(FilesOf(merged, target)) \subseteq Range(plan)
       /\ tool = "nh" => \E s \in Range(plan) : s.do = "sweep"
  <2>1. PICK made : made = FilesOf(merged, target)
    OBVIOUS
  <2>2. plan = Plan(tool, merged)
    BY <1>4, <1>6 DEF At
  <2> QED BY <1>1, <1>4, <1>5, <2>1, <2>2, PlanIs
<1>11. Pest \in DOMAIN disk /\ disk[Pest] = Generated(PestOf(merged))
  <2>1. Did(PestWrite(merged), merged, target) /\ PestWrite(merged).do = "write"
    BY <1>9, <1>10, PathsOfSteps
  <2>2. PestWrite(merged).text = PestOf(merged)
    BY Fields DEF PestWrite
  <2> QED BY <2>1, <2>2, PathsOfSteps DEF Did
<1>12. \A s \in Range(FilesOf(merged, target)) : s.do \in {"write", "create"} /\ Did(s, merged, target)
  BY <1>5, <1>9, <1>10, FilesAreMade
<1>13. tool = "nh" => NoneStale(merged, target)
  BY <1>9, <1>10 DEF Did
<1>14. ASSUME tool = "nh", NEW a \in Range(Alternatives(merged))
       PROVE  ~IsError(Drift(a, disk[HandlerPath(a)]))
  <2>1. Create(a) \in Creates(Alternatives(merged))
    BY <1>14 DEF Creates, Range
  <2>2. Create(a) \in Range(FilesOf(merged, target))
    BY <1>5, <2>1, FilesAre
  <2>3. Create(a).do = "create" /\ PathOf(Create(a)) = HandlerPath(a)
    BY Fields, PathsOfSteps
  <2>4. HandlerPath(a) \in DOMAIN disk
    BY <1>12, <2>2, <2>3 DEF Did
  <2>5. DriftErrors = {}
    BY <1>2, <1>4, <1>14
  <2> QED BY <1>4, <2>4, <2>5 DEF DriftErrors
<1>15. IsWhole(merged, tool, budget.works)
  BY <1>4, <1>5, <1>11, <1>12, <1>13, <1>14 DEF IsWhole
<1>16. IsWhole(merged, tool, budget.works)'
  <2>1. GrammarIsWhole(merged)'
    BY <1>2, <1>5, SameGrammar
  <2> QED BY <1>2, <1>15, <2>1 DEF IsWhole, Did, NoneStale
<1>17. (merged = Merge(files))' /\ (tool = last.tool)' /\ (budget.works = last.works)'
  BY <1>2, <1>4, <1>5
<1> QED BY <1>16, <1>17

\* What the last build left, through every step.
LEMMA LastStep ==
    ASSUME SInv, [Next]_allvars
    PROVE  LastOK' /\ LastIsWhole'
<1>1. JobOK /\ DiskOK /\ budget \in Budgets
  BY Types DEF SInv, BInv
<1>2. /\ budget.edits \in Nat /\ budget'.edits \in Nat /\ budget'.edits <= budget.edits
      /\ Edit => budget'.edits < budget.edits
      /\ ~Edit => budget'.edits = budget.edits
  BY <1>1, BudgetStep
<1>3. /\ budget.works \in Nat /\ budget'.works \in Nat /\ budget'.works <= budget.works
      /\ Implement => budget'.works < budget.works
  <2>1. budget.works \in Nat /\ budget'.works \in Nat
    BY <1>1, BudgetStep DEF Budgets
  <2>2. \A what \in {"edits", "works", "builds", "breaks"} : Spend(what) =>
           budget'.works = IF what = "works" THEN budget.works - 1 ELSE budget.works
    BY <1>1 DEF Spend, Budgets
  <2>3. \/ Spend("edits") \/ Implement \/ Spend("builds") \/ Spend("breaks") \/ UNCHANGED budget
    BY DEF Next, allvars, Edit, Begin, Break, Loading, Resolve, WriteGenerated, CreateStub, CheckTarget,
           RemoveReplaced, Migrate, RemoveOld, Report
  <2>4. Implement => Spend("works")
    BY DEF Implement
  <2> QED BY <2>1, <2>2, <2>3, <2>4
<1>4. CASE last'.ok = FALSE
  BY <1>4 DEF LastOK, LastIsWhole
<1>5. CASE Report
  <2>1. /\ last'.since = job.since /\ last'.works = budget.works /\ UNCHANGED budget
        /\ job # NoJob
    BY <1>5 DEF Report, End, Now
  <2>2. LastOK'
    BY <1>1, <1>2, <1>3, <2>1 DEF LastOK, JobOK
  <2>3. LastIsWhole'
    BY <1>5, ReportIsWhole DEF LastIsWhole
  <2> QED BY <2>2, <2>3
<1>6. ASSUME UNCHANGED last
      PROVE  LastOK'
  BY <1>2, <1>3, <1>6 DEF SInv, LastOK
<1>7. CASE UNCHANGED last /\ job' # NoJob
  BY <1>6, <1>7 DEF LastIsWhole
<1>8. CASE Edit
  <2>1. UNCHANGED last
    BY <1>8 DEF Edit
  <2>2. ~(last'.ok /\ last'.since = budget'.edits)
    BY <1>2, <1>8, <2>1 DEF SInv, LastOK
  <2> QED BY <1>6, <2>1, <2>2 DEF LastIsWhole
<1>9. CASE Implement /\ ~Edit
  <2>1. UNCHANGED <<last, job, sources, files>>
    BY <1>9 DEF Implement, loader
  <2> SUFFICES ASSUME job = NoJob, last.ok, last.since = budget.edits
               PROVE  IsWhole(Merge(files), last.tool, last.works)'
    BY <1>2, <1>6, <1>9, <2>1 DEF LastIsWhole
  <2>2. PICK merged, tool, works, target :
           merged = Merge(files) /\ tool = last.tool /\ works = last.works /\ target = TargetOf(tool, merged)
    OBVIOUS
  <2>3. IsWhole(merged, tool, works)
    BY <2>2 DEF SInv, LastIsWhole
  <2>4. works # budget'.works
    BY <1>3, <1>9, <2>2 DEF SInv, LastOK
  <2>5. \A s : Did(s, merged, target) => Did(s, merged, target)'
    BY <1>1, <1>9, ImplementKeeps
  <2>6. GrammarIsWhole(merged)'
    BY <2>1, <2>3, SameGrammar DEF IsWhole
  <2>7. DOMAIN disk' = DOMAIN disk /\ (Pest \in DOMAIN disk => disk'[Pest] = disk[Pest])
    <3>1. PICK path : /\ IsHandler(path) /\ DOMAIN disk' = DOMAIN disk
                      /\ \A p \in DOMAIN disk : p # path => disk'[p] = disk[p]
      BY <1>1, <1>9, ImplementWrites
    <3> QED BY <3>1, PathsOfSteps
  <2>8. IsWhole(merged, tool, works)'
    BY <2>2, <2>3, <2>4, <2>5, <2>6, <2>7 DEF IsWhole, NoneStale
  <2>9. (merged = Merge(files))' /\ (tool = last.tool)' /\ (works = last.works)'
    BY <2>1, <2>2
  <2> QED BY <2>8, <2>9
<1>10. CASE UNCHANGED allvars
  <2>1. UNCHANGED <<sources, files, disk, job, last, budget>>
    BY <1>10 DEF allvars, loader
  <2> SUFFICES ASSUME job = NoJob, last.ok, last.since = budget.edits
               PROVE  IsWhole(Merge(files), last.tool, last.works)'
    BY <1>6, <2>1 DEF LastIsWhole
  <2>2. PICK merged, tool, works : merged = Merge(files) /\ tool = last.tool /\ works = last.works
    OBVIOUS
  <2>3. IsWhole(merged, tool, works)
    BY <2>2 DEF SInv, LastIsWhole
  <2>4. GrammarIsWhole(merged)'
    BY <2>1, <2>3, SameGrammar DEF IsWhole
  <2>5. IsWhole(merged, tool, works)'
    BY <2>1, <2>3, <2>4 DEF IsWhole, Did, NoneStale
  <2>6. (merged = Merge(files))' /\ (tool = last.tool)' /\ (works = last.works)'
    BY <2>1, <2>2
  <2> QED BY <2>5, <2>6
<1>11. \A j : j = [f \in JobFields |-> j[f]] => j # NoJob
  BY DEF JobFields, NoJob
<1>12. CASE Begin
  <2>1. UNCHANGED last
    BY <1>12 DEF Begin
  <2>2. job' # NoJob
    BY <1>12 DEF Begin, NoJob
  <2> QED BY <1>7, <2>1, <2>2
<1>13. ASSUME Done, job # NoJob
       PROVE  UNCHANGED last /\ job' # NoJob
  <2>1. job = [f \in JobFields |-> job[f]] /\ job' = [job EXCEPT !.todo = Tail(@)] /\ UNCHANGED last
    BY <1>1, <1>13 DEF Done, JobOK
  <2>2. job' = [f \in JobFields |-> job'[f]]
    BY <2>1
  <2> QED BY <1>11, <2>1, <2>2
<1>14. CASE Loading \/ RemoveReplaced
  <2>1. UNCHANGED last /\ job' # NoJob
    BY <1>14 DEF Loading, RemoveReplaced, Now
  <2> QED BY <1>7, <2>1
<1>15. CASE WriteGenerated \/ CreateStub \/ Migrate
  BY <1>7, <1>13, <1>15 DEF WriteGenerated, CreateStub, Migrate, Now
<1>16. CASE RemoveOld
  BY <1>7, <1>13, <1>16 DEF RemoveOld, Now
<1>17. End(FALSE) => last'.ok = FALSE
  BY DEF End
<1>18. CASE CheckTarget
  BY <1>4, <1>7, <1>13, <1>17, <1>18 DEF CheckTarget, Now
<1>19. CASE Break
  BY <1>4, <1>17, <1>19 DEF Break
<1>20. CASE Resolve
  <2>1. CASE End(FALSE)
    BY <1>4, <1>17, <2>1
  <2>2. CASE ~End(FALSE)
    <3>1. PICK merged, todo : /\ job' = [job EXCEPT !.doing = "writing", !.merged = merged, !.todo = todo]
                              /\ UNCHANGED last
      BY <1>20, <2>2 DEF Resolve
    <3>2. job = [f \in JobFields |-> job[f]]
      BY <1>1, <1>20 DEF Resolve, JobOK
    <3>3. job' = [f \in JobFields |-> job'[f]]
      BY <3>1, <3>2
    <3> QED BY <1>7, <1>11, <3>1, <3>3
  <2> QED BY <2>1, <2>2
<1> QED BY <1>5, <1>8, <1>9, <1>10, <1>12, <1>14, <1>15, <1>16, <1>18, <1>19, <1>20 DEF Next

\* A build that ended well has left a whole project, whatever was there before and
\* however earlier builds ended (nh-build, try_run; main.rs, emit_rust): every name
\* declared once, everything generated made from the grammar as it is, a file for
\* every handler; by hand, nothing else generated, and no handler that is given its
\* parameters wrongly.
THEOREM BuildsAreWhole == Spec => []SuccessIsWhole
<1>1. Init => SInv
  <2> SUFFICES ASSUME Init PROVE SInv
    OBVIOUS
  <2>1. job = NoJob /\ last.ok = FALSE
    BY DEF Init
  <2> QED BY <2>1, BInvBegins DEF SInv, WholeSoFar, Writing, LastOK, LastIsWhole
<1>2. SInv /\ [Next]_allvars => SInv'
  BY BInvStep, WholeSoFarStep, LastStep DEF SInv
<1>3. SInv => SuccessIsWhole
  BY WholeIsSuccess DEF SInv
<1> QED BY <1>1, <1>2, <1>3, PTL DEF Spec
================================================================================
