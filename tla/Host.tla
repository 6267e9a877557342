-------------------------------- MODULE Host --------------------------------
(***************************************************************************)
(* A host that runs several programs at once on one thread, round-robin    *)
(* (examples/vm-host/src/lib.rs).  A task runs until it finishes, fails or *)
(* suspends; its machine is then dropped, and rebuilt from a snapshot when *)
(* the task's turn comes again.                                            *)
(*                                                                         *)
(* The machine of the running slice is a Machine, and its variables are    *)
(* Machine's.  The host itself is the rest: the tasks, and how far `run`   *)
(* has come.                                                               *)
(***************************************************************************)
EXTENDS Values, Sequences, FiniteSets

CONSTANTS
    Programs, Slots, MAX_DEPTH, MAX_REGS, ExtValues, Answers, Foreign,
    MaxTasks   \* bound: tasks ever loaded

ASSUME MaxTasksAssumption == MaxTasks \in Nat \ {0}

TaskIds == 1..MaxTasks

VARIABLES
    program, pc, frames, awaiting, output, globals, step, handed,
    tasks,       \* `Host::tasks`, in the order they were loaded
    host,        \* where `run` is
    cur,         \* the task whose turn it is
    progressed,  \* whether this pass has run a slice
    slices,      \* slices run since `run` was called
    toLoad,      \* the programs to be loaded, in order
    ran,         \* history: slices of each task since `run` was called
    final        \* history: the machine of each task when it was dropped for good

machine == <<program, pc, frames, awaiting, output, globals, step, handed>>
vars == <<machine, tasks, host, cur, progressed, slices, toLoad, ran, final>>

M == INSTANCE Machine

\* What a machine asks of its programs and of the values it is handed.
ASSUME HostAssumption ==
    /\ MAX_DEPTH \in Nat \ {0}
    /\ MAX_REGS \in Nat \ {0}
    /\ ExtValues \subseteq Value
    /\ Answers \subseteq Value /\ Answers # {}
    /\ Foreign \subseteq Value
    /\ \A p \in Programs : M!WellFormed(p)

\* Nothing in an Option.
Absent == [type |-> "absent"]

\* `Task`, just loaded.  (`failed` keeps no message.)
NewTask(p) ==
    [program |-> p, output |-> <<>>, waiting_on |-> Absent, done |-> FALSE,
     failed |-> FALSE, resume |-> Absent]

\* A slip: a task that failed has another go.
PassedOverIfDone(t) == t.done

\* The tasks `run` passes over.
PassedOver(t) == t.done \/ t.failed

Init ==
    /\ toLoad \in [TaskIds -> Programs]
    /\ program = toLoad[1]
    /\ pc = 0 /\ frames = M!Fresh(program).frames /\ awaiting = M!None
    /\ output = <<>> /\ step = "done" /\ handed = Nil
    /\ globals = [s \in Slots |-> Nil]
    /\ tasks = <<>>
    /\ host = "idle" /\ cur = 1 /\ progressed = FALSE /\ slices = 0
    /\ ran = [i \in TaskIds |-> 0]
    /\ final = [i \in TaskIds |-> M!Fresh(toLoad[i])]

----------------------------------------------------------------------------
\* `load`
Load ==
    /\ host = "idle"
    /\ Len(tasks) < MaxTasks
    /\ tasks' = Append(tasks, NewTask(toLoad[Len(tasks) + 1]))
    /\ UNCHANGED <<machine, host, cur, progressed, slices, toLoad, ran, final>>

\* `run` is called.
Run ==
    /\ host = "idle"
    /\ host' = "pass" /\ cur' = 1 /\ progressed' = FALSE /\ slices' = 0
    /\ ran' = [i \in TaskIds |-> 0]
    /\ UNCHANGED <<machine, tasks, toLoad, final>>

Turn(i) == host = "pass" /\ cur = i /\ i <= Len(tasks)

SkipTask(i) ==
    /\ Turn(i)
    /\ PassedOver(tasks[i])
    /\ cur' = cur + 1
    /\ UNCHANGED <<machine, tasks, host, progressed, slices, toLoad, ran, final>>

\* `Machine::new`, and `restore` if the task has left a snapshot.
Rebuilt(t) == IF t.resume = Absent THEN M!Fresh(t.program) ELSE t.resume

\* Some answer of the resolver's to what the task asked, handed back with
\* `resume_with`; nothing if it asked nothing.
Answered(t) ==
    LET m == Rebuilt(t)
        top == Len(m.frames)
    IN IF t.waiting_on = Absent \/ m.awaiting = M!None
       THEN {m}
       ELSE {[m EXCEPT !.frames[top].regs[m.awaiting + 1] = v, !.awaiting = M!None]
                : v \in Answers}

\* A slip: a pass that only goes on with parked tasks has made no progress.
BeginSliceUncounted(i) ==
    /\ Turn(i)
    /\ ~PassedOver(tasks[i])
    /\ progressed' = (progressed \/ tasks[i].resume = Absent)
    /\ slices' = slices + 1 /\ ran' = [ran EXCEPT ![i] = @ + 1]
    /\ \E m \in Answered(tasks[i]) :
          pc' = m.pc /\ frames' = m.frames /\ awaiting' = m.awaiting
    /\ program' = tasks[i].program /\ output' = <<>> /\ step' = "idle" /\ handed' = Nil
    /\ tasks' = [tasks EXCEPT ![i].resume = Absent, ![i].waiting_on = Absent]
    /\ host' = "slice"
    /\ UNCHANGED <<globals, cur, toLoad, final>>

\* A slip: the question is answered and left standing.
BeginSliceAsking(i) ==
    /\ Turn(i)
    /\ ~PassedOver(tasks[i])
    /\ progressed' = TRUE
    /\ slices' = slices + 1 /\ ran' = [ran EXCEPT ![i] = @ + 1]
    /\ \E m \in Answered(tasks[i]) :
          pc' = m.pc /\ frames' = m.frames /\ awaiting' = m.awaiting
    /\ program' = tasks[i].program /\ output' = <<>> /\ step' = "idle" /\ handed' = Nil
    /\ tasks' = [tasks EXCEPT ![i].resume = Absent]
    /\ host' = "slice"
    /\ UNCHANGED <<globals, cur, toLoad, final>>

\* `slice`, up to the call of `resume`.
BeginSlice(i) ==
    /\ Turn(i)
    /\ ~PassedOver(tasks[i])
    /\ progressed' = TRUE
    /\ slices' = slices + 1 /\ ran' = [ran EXCEPT ![i] = @ + 1]
    /\ \E m \in Answered(tasks[i]) :
          pc' = m.pc /\ frames' = m.frames /\ awaiting' = m.awaiting
    /\ program' = tasks[i].program /\ output' = <<>> /\ step' = "idle" /\ handed' = Nil
    /\ tasks' = [tasks EXCEPT ![i].resume = Absent, ![i].waiting_on = Absent]
    /\ host' = "slice"
    /\ UNCHANGED <<globals, cur, toLoad, final>>

\* `resume`: the machine of the slice runs.
RunMachine ==
    /\ host = "slice"
    /\ M!Resume \/ M!Exec
    /\ UNCHANGED <<tasks, host, cur, progressed, slices, toLoad, ran, final>>

\* A slip: the snapshot has the program counter and not the registers.
SnapshotOfPc == [M!Fresh(program) EXCEPT !.pc = pc, !.awaiting = awaiting]

\* `snapshot`
Snapshot == [pc |-> pc, frames |-> frames, awaiting |-> awaiting]

\* What the end of a slice leaves of task t.
Parked(t) ==
    LET said == [t EXCEPT !.output = @ \o output] IN
    CASE step = "done" -> [said EXCEPT !.done = TRUE]
      [] step = "failed" -> [said EXCEPT !.failed = TRUE]
      [] step = "awaiting" -> [said EXCEPT !.waiting_on = handed, !.resume = Snapshot]

\* A slip: a suspended task keeps its turn.
TurnAfterIfFinished == IF step = "awaiting" THEN cur ELSE cur + 1

TurnAfter == cur + 1

\* The rest of `slice`.
EndSlice ==
    /\ host = "slice"
    /\ step \in {"done", "failed", "awaiting"}
    /\ tasks' = [tasks EXCEPT ![cur] = Parked(@)]
    /\ final' = IF step = "awaiting" THEN final ELSE [final EXCEPT ![cur] = Snapshot]
    /\ host' = "pass" /\ cur' = TurnAfter
    /\ UNCHANGED <<machine, progressed, slices, toLoad, ran>>

\* Native code panicked under the machine, outside any `catch_unwind`: it
\* unwinds through `run` and out of the host.
Crash ==
    /\ host = "slice"
    /\ step = "panicked"
    /\ host' = "crashed"
    /\ UNCHANGED <<machine, tasks, cur, progressed, slices, toLoad, ran, final>>

\* A slip: `progressed` is not set back for the next pass.
EndPassStuck ==
    /\ host = "pass"
    /\ cur > Len(tasks)
    /\ IF progressed THEN cur' = 1 /\ UNCHANGED host ELSE host' = "idle" /\ UNCHANGED cur
    /\ UNCHANGED <<machine, tasks, progressed, slices, toLoad, ran, final>>

\* Every task has had its turn: go round again, or return if none ran.
EndPass ==
    /\ host = "pass"
    /\ cur > Len(tasks)
    /\ IF progressed
       THEN cur' = 1 /\ progressed' = FALSE /\ UNCHANGED host
       ELSE host' = "idle" /\ UNCHANGED <<cur, progressed>>
    /\ UNCHANGED <<machine, tasks, slices, toLoad, ran, final>>

\* The host's own thread, once `run` is called.
Running ==
    \/ \E i \in TaskIds : SkipTask(i) \/ BeginSlice(i)
    \/ RunMachine
    \/ EndSlice
    \/ Crash
    \/ EndPass

Next == Load \/ Run \/ Running

Spec == Init /\ [][Next]_vars
FairSpec == Spec /\ WF_vars(Running)

----------------------------------------------------------------------------
SnapshotType == [pc : Nat, frames : Seq(M!Frame), awaiting : Nat \cup {M!None}]
Task ==
    [program : Programs, output : Seq(Value), waiting_on : Value \cup {Absent},
     done : BOOLEAN, failed : BOOLEAN, resume : SnapshotType \cup {Absent}]

\* State typing of the host and of the machine in its hands.
TypeOK ==
    /\ M!TypeOK
    /\ tasks \in Seq(Task) /\ Len(tasks) <= MaxTasks
    /\ host \in {"idle", "pass", "slice", "crashed"}
    /\ cur \in 1..(Len(tasks) + 1)
    /\ progressed \in BOOLEAN
    /\ slices \in Nat
    /\ ran \in [TaskIds -> 0..slices]

Finished(t) == t.done \/ t.failed
Slicing(i) == host \in {"slice", "crashed"} /\ cur = i

\* A task is in one place at a time.  It is parked with both its question
\* and its snapshot, and never when finished or while its machine runs; it
\* ends one way only.
TasksConsistent ==
    \A i \in DOMAIN tasks :
        LET t == tasks[i] IN
        /\ (t.waiting_on = Absent) = (t.resume = Absent)
        /\ Finished(t) \/ Slicing(i) => t.resume = Absent
        /\ ~(t.done /\ t.failed)
        /\ Slicing(i) => ~Finished(t)

\* "Round-robin, one slice each": of two unfinished tasks, the one loaded
\* first has run as many slices as the other, or is one ahead.
RoundRobin ==
    host # "idle" =>
        \A i, j \in DOMAIN tasks :
            i < j /\ ~Finished(tasks[i]) /\ ~Finished(tasks[j]) =>
                ran[i] - ran[j] \in {0, 1}

\* "Runs every task to completion": when `run` returns, no task it was given
\* is parked or untouched, however often each one suspended.
ReturnsWhenAllFinished ==
    [][host = "pass" /\ host' = "idle" =>
          \A i \in DOMAIN tasks : Finished(tasks[i])]_vars

\* A task that has finished or failed is never run again, not by a later
\* `run` either: its record stays as it is.
FinishedForGood ==
    [][\A i \in DOMAIN tasks : Finished(tasks[i]) => tasks'[i] = tasks[i]]_vars

----------------------------------------------------------------------------
(***************************************************************************)
(* Task i as if it had a machine to itself for as long as it lives: the    *)
(* machine of the slice when it is its turn, its snapshot when it is       *)
(* parked.                                                                 *)
(***************************************************************************)
Loaded(i) == i \in DOMAIN tasks
IsParked(i) == Loaded(i) /\ tasks[i].resume # Absent
Kept(i) == IF IsParked(i) THEN tasks[i].resume ELSE final[i]
StepOf(i) ==
    CASE Slicing(i) -> step
      [] IsParked(i) -> "awaiting"
      [] Loaded(i) /\ tasks[i].done -> "done"
      [] Loaded(i) /\ tasks[i].failed -> "failed"
      [] OTHER -> "idle"
Said(i) == IF Loaded(i) THEN tasks[i].output ELSE <<>>

PcOf(i) == IF Slicing(i) THEN pc ELSE Kept(i).pc
FramesOf(i) == IF Slicing(i) THEN frames ELSE Kept(i).frames
AwaitingOf(i) == IF Slicing(i) THEN awaiting ELSE Kept(i).awaiting
OutputOf(i) == IF Slicing(i) THEN Said(i) \o output ELSE Said(i)
HandedOf(i) ==
    IF Slicing(i) THEN handed ELSE IF IsParked(i) THEN tasks[i].waiting_on ELSE Nil

Own(i) == INSTANCE Machine WITH
    program <- toLoad[i], pc <- PcOf(i), frames <- FramesOf(i), awaiting <- AwaitingOf(i),
    output <- OutputOf(i), step <- StepOf(i), handed <- HandedOf(i)

\* Snapshots are invisible: through every suspension, rebuilding and turn of
\* another task, each task is one machine running its program once, to which
\* the others are threads that store in the globals.  "Without the
\* registers, `await` would work only as the first thing a program does."
EachTaskIsOneMachine ==
    /\ \A i \in TaskIds : Own(i)!Init
    /\ [][\A i \in TaskIds : [Own(i)!Next]_(Own(i)!vars)]_vars

\* "A program that fails does not take the host, or its siblings, down."
HostSurvives == host # "crashed"

\* `run` returns, or a panic leaves it, if no program it was given loops.
RunReturns ==
    host # "idle" /\ (\A i \in DOMAIN tasks : M!NoLoops(tasks[i].program))
        ~> host \in {"idle", "crashed"}
=============================================================================
