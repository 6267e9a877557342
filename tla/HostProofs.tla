----------------------------- MODULE HostProofs -----------------------------
(***************************************************************************)
(* Proofs about Host.                                                      *)
(***************************************************************************)
EXTENDS Host, SequenceTheorems, TLAPS

\* The machine of the slice once more, with what is proved of every Machine.
MP == INSTANCE MachineProofs

----------------------------------------------------------------------------
\* M and MP are the same module with the same substitution.
LEMMA SameValues ==
    MP!Value = Value /\ M!Value = Value /\ MP!Nil = Nil /\ M!Nil = Nil
BY DEF MP!Value, M!Value, Value, MP!Nil, M!Nil, Nil

LEMMA SameWellFormed == \A p : M!WellFormed(p) <=> MP!WellFormed(p)
BY DEF M!WellFormed, MP!WellFormed, M!MaxOf, MP!MaxOf, M!Operations, MP!Operations,
       M!WithDst, MP!WithDst, M!WithA, MP!WithA, M!WithTarget, MP!WithTarget,
       M!NeverFallThrough, MP!NeverFallThrough, M!UnaryOps, MP!UnaryOps,
       M!BinaryOps, MP!BinaryOps, M!Arithmetic, MP!Arithmetic,
       M!Comparison, MP!Comparison, M!ConditionalJumps, MP!ConditionalJumps,
       M!Touches, MP!Touches, M!Leads, MP!Leads, M!Value, MP!Value

LEMMA SameAssumptions ==
    /\ MAX_DEPTH \in Nat \ {0}
    /\ MAX_REGS \in Nat \ {0}
    /\ ExtValues \subseteq MP!Value
    /\ Answers \subseteq MP!Value
    /\ Foreign \subseteq MP!Value
    /\ \A p \in Programs : MP!WellFormed(p)
BY HostAssumption, SameValues, SameWellFormed

LEMMA MachineKept == MP!IInv /\ [MP!Next]_MP!vars => MP!IInv'
BY SameAssumptions, TextAssumption, MP!IInvNext

LEMMA SameResume == M!Resume <=> MP!Resume
BY DEF M!Resume, MP!Resume

\* An instruction is the same in both.
LEMMA SameExec == M!Exec <=> MP!Exec
<1>1. M!Compute <=> MP!Compute
  BY DEF M!Compute, MP!Compute, M!Executing, MP!Executing, M!Instr, MP!Instr,
         M!Code, MP!Code, M!Computed, MP!Computed, M!Stop, MP!Stop, M!Next1,
         MP!Next1, M!WithReg, MP!WithReg, M!Reg, MP!Reg, M!Top, MP!Top,
         M!UnaryOps, MP!UnaryOps, M!BinaryOps, MP!BinaryOps, M!Arithmetic,
         MP!Arithmetic, M!Comparison, MP!Comparison, M!Value, MP!Value,
         M!Error, MP!Error, M!Panic, MP!Panic, M!Unary, MP!Unary, M!Binary,
         MP!Binary, M!IsNum, MP!IsNum, M!IsStr, MP!IsStr, M!Num, MP!Num,
         M!Bool, MP!Bool, M!Str, MP!Str, M!Truthy, MP!Truthy, M!Display,
         MP!Display, M!OfNumbers, MP!OfNumbers, M!IntegerDivide,
         MP!IntegerDivide, M!Quotient, MP!Quotient, M!Remainder, MP!Remainder,
         M!AsI64, MP!AsI64
<1>2. M!Jump <=> MP!Jump
  BY DEF M!Jump, MP!Jump, M!Executing, MP!Executing, M!Instr, MP!Instr,
         M!Code, MP!Code, M!ConditionalJumps, MP!ConditionalJumps,
         M!JumpTaken, MP!JumpTaken, M!JumpTo, MP!JumpTo, M!Next1, MP!Next1,
         M!Truthy, MP!Truthy, M!Reg, MP!Reg, M!Top, MP!Top
<1>3. M!PrintOp <=> MP!PrintOp
  BY DEF M!PrintOp, MP!PrintOp, M!Executing, MP!Executing, M!Instr, MP!Instr,
         M!Code, MP!Code, M!Next1, MP!Next1, M!Reg, MP!Reg, M!Top, MP!Top
<1>4. M!Halt <=> MP!Halt
  BY DEF M!Halt, MP!Halt, M!Executing, MP!Executing, M!Instr, MP!Instr,
         M!Code, MP!Code, M!Stop, MP!Stop
<1>5. M!LoadGlobal <=> MP!LoadGlobal
  BY DEF M!LoadGlobal, MP!LoadGlobal, M!Executing, MP!Executing, M!Instr,
         MP!Instr, M!Code, MP!Code, M!Next1, MP!Next1, M!Stop, MP!Stop,
         M!WithReg, MP!WithReg, M!Top, MP!Top
<1>6. M!StoreGlobal <=> MP!StoreGlobal
  BY DEF M!StoreGlobal, MP!StoreGlobal, M!Executing, MP!Executing, M!Instr,
         MP!Instr, M!Code, MP!Code, M!Next1, MP!Next1, M!Stop, MP!Stop, M!Reg,
         MP!Reg, M!Top, MP!Top
<1>7. M!Call <=> MP!Call
  BY DEF M!Call, MP!Call, M!Executing, MP!Executing, M!Instr, MP!Instr,
         M!Code, MP!Code, M!CallRefused, MP!CallRefused, M!CalleeFrame,
         MP!CalleeFrame, M!MaxOf, MP!MaxOf, M!JumpTo, MP!JumpTo, M!Stop,
         MP!Stop, M!Reg, MP!Reg, M!Top, MP!Top, M!Nil, MP!Nil
<1>8. M!Return <=> MP!Return
  BY DEF M!Return, MP!Return, M!Executing, MP!Executing, M!Instr, MP!Instr,
         M!Code, MP!Code, M!ReturnValue, MP!ReturnValue, M!JumpTo, MP!JumpTo,
         M!Stop, MP!Stop, M!Reg, MP!Reg, M!Top, MP!Top, M!Nil, MP!Nil
<1>9. M!Await <=> MP!Await
  BY DEF M!Await, MP!Await, M!Executing, MP!Executing, M!Instr, MP!Instr,
         M!Code, MP!Code, M!Suspend, MP!Suspend, M!Stop, MP!Stop, M!Reg,
         MP!Reg, M!Top, MP!Top
<1>10. M!ExtGoesOn <=> MP!ExtGoesOn
  BY DEF M!ExtGoesOn, MP!ExtGoesOn, M!Executing, MP!Executing, M!Instr,
         MP!Instr, M!Code, MP!Code, M!ExtWrites, MP!ExtWrites, M!Next1,
         MP!Next1, M!JumpTo, MP!JumpTo
<1>11. M!ExtSuspends <=> MP!ExtSuspends
  BY DEF M!ExtSuspends, MP!ExtSuspends, M!Executing, MP!Executing, M!Instr,
         MP!Instr, M!Code, MP!Code, M!ExtWrites, MP!ExtWrites, M!Suspend,
         MP!Suspend, M!Stop, MP!Stop
<1>12. M!ExtStops <=> MP!ExtStops
  BY DEF M!ExtStops, MP!ExtStops, M!Executing, MP!Executing, M!Instr,
         MP!Instr, M!Code, MP!Code, M!ExtWrites, MP!ExtWrites, M!Stop, MP!Stop
<1>13. M!FallOffEnd <=> MP!FallOffEnd
  BY DEF M!FallOffEnd, MP!FallOffEnd, M!Code, MP!Code
<1> QED BY <1>1, <1>2, <1>3, <1>4, <1>5, <1>6, <1>7, <1>8, <1>9, <1>10, <1>11, <1>12, <1>13 DEF M!Exec, MP!Exec
LEMMA SameState ==
    /\ M!None = MP!None /\ M!Frame = MP!Frame
    /\ \A p : M!Fresh(p) = MP!Fresh(p)
    /\ M!TypeOK <=> MP!TypeOK
BY DEF M!None, MP!None, M!Frame, MP!Frame, M!Fresh, MP!Fresh, M!NewFrame, MP!NewFrame,
       M!MaxOf, MP!MaxOf, M!Nil, MP!Nil, M!Value, MP!Value, M!TypeOK, MP!TypeOK,
       M!Steps, MP!Steps, M!Stopped, MP!Stopped

----------------------------------------------------------------------------
\* A machine that program p may be resumed from: what it takes of a snapshot
\* for the machine restored from it to be one that could have run so far.
AtRest(p, m) ==
    /\ m.frames \in Seq(MP!Frame) /\ m.frames # <<>>
    /\ m.pc \in Nat
    /\ MP!Chain(p, m.frames)
    /\ MP!Fit(p, m.frames, m.pc)
    /\ m.awaiting # MP!None =>
          m.awaiting \in MP!Registers(m.frames[Len(m.frames)])

\* Each task runs the program it was loaded with, and its snapshot, if it
\* has one, is of a machine of that program.
ParkedWell ==
    \A i \in DOMAIN tasks :
        /\ tasks[i].program = toLoad[i]
        /\ tasks[i].resume # Absent => AtRest(toLoad[i], tasks[i].resume)

\* The machine in the host's hands is that of the task whose turn it is.
InHand ==
    host \in {"slice", "crashed"} =>
        cur \in DOMAIN tasks /\ program = toLoad[cur]

\* The inductive invariant: typing, the machine's own, and the above.
HInv ==
    /\ toLoad \in [TaskIds -> Programs]
    /\ MP!IInv
    /\ TypeOK
    /\ ParkedWell
    /\ InHand
    /\ TasksConsistent

LEMMA TypeOfMachine == (MP!IInv => M!TypeOK) /\ (MP!IInv' => M!TypeOK')
<1>1. MP!IInv => M!TypeOK
  BY SameState DEF MP!IInv
<1> QED BY <1>1, PTL

----------------------------------------------------------------------------
LEMMA OneIsSome == \A s : Len(s) = 1 => s # <<>>
OBVIOUS

\* A machine just made is at rest, and so is a suspended one.
LEMMA FreshAtRest ==
    ASSUME NEW p \in Programs
    PROVE  AtRest(p, M!Fresh(p)) /\ M!Fresh(p).awaiting = MP!None
<1>1. MP!Fresh(p) \in MP!Starts(p)
  BY DEF MP!Starts
<1>2. /\ MP!Fresh(p).frames \in Seq(MP!Frame) /\ Len(MP!Fresh(p).frames) = 1
      /\ MP!Fresh(p).pc \in Nat /\ MP!Fresh(p).awaiting = MP!None
      /\ MP!Fit(p, MP!Fresh(p).frames, MP!Fresh(p).pc)
  BY <1>1, SameAssumptions, TextAssumption, MP!StartFits
<1>3. MP!Chain(p, MP!Fresh(p).frames)
  BY <1>2, HostAssumption DEF MP!Chain
<1>4. M!Fresh(p) = MP!Fresh(p)
  BY SameState
<1>5. MP!Fresh(p).frames # <<>>
  BY <1>2, OneIsSome
<1> QED BY <1>2, <1>3, <1>4, <1>5 DEF AtRest

LEMMA SuspendedAtRest ==
    ASSUME MP!IInv, step = "awaiting"
    PROVE  AtRest(program, Snapshot) /\ Snapshot \in SnapshotType
<1>1. Snapshot.pc = pc /\ Snapshot.frames = frames /\ Snapshot.awaiting = awaiting
  BY DEF Snapshot
<1>2. MP!Fit(program, frames, pc)
  BY DEF MP!IInv, MP!Stopped
<1>3. AtRest(program, Snapshot)
  BY <1>1, <1>2 DEF AtRest, MP!IInv, MP!TypeOK, MP!AwaitingFits, MP!Top
<1>4. Snapshot \in SnapshotType
  BY SameState DEF Snapshot, SnapshotType, MP!IInv, MP!TypeOK
<1> QED BY <1>3, <1>4

\* The answer to a suspended machine leaves it at rest, and asking nothing.
LEMMA AnsweredAtRest ==
    ASSUME NEW p \in Programs, NEW m \in SnapshotType, AtRest(p, m),
           m.awaiting # MP!None, NEW v \in Answers,
           NEW n, n = [m EXCEPT !.frames[Len(m.frames)].regs[m.awaiting + 1] = v,
                                !.awaiting = M!None]
    PROVE  AtRest(p, n) /\ n.awaiting = MP!None
<1> DEFINE fs == [m.frames EXCEPT ![Len(m.frames)].regs[m.awaiting + 1] = v]
<1>1. n.frames = fs /\ n.pc = m.pc /\ n.awaiting = MP!None
  BY SameState DEF SnapshotType
<1>2. v \in MP!Value
  BY SameAssumptions
<1>3. MP!SameShape(m.frames, fs)
  BY <1>2, SameAssumptions, TextAssumption, MP!WriteTop DEF AtRest
<1>4. p.room \in [0..Len(p.code) -> 1..MAX_REGS] /\ Len(p.code) \in Nat
  BY SameAssumptions DEF MP!WellFormed
<1>5. MP!Fit(p, m.frames, m.pc) /\ m.pc \in 0..Len(p.code)
  BY DEF AtRest, MP!Fit
<1>6. p.room[m.pc] <= p.room[m.pc]
  <2>1. p.room[m.pc] \in 1..MAX_REGS
    BY <1>4, <1>5
  <2> QED BY <2>1, HostAssumption
<1> HIDE DEF fs
<1>7. MP!Fit(p, fs, m.pc)
  BY <1>3, <1>4, <1>5, <1>6, SameAssumptions, TextAssumption, MP!ShapeFits DEF AtRest
<1>8. MP!Chain(p, fs)
  BY <1>3, SameAssumptions, TextAssumption, MP!ShapeChain DEF AtRest
<1>9. fs \in Seq(MP!Frame) /\ fs # <<>>
  BY <1>3 DEF AtRest, MP!SameShape
<1> QED BY <1>1, <1>7, <1>8, <1>9 DEF AtRest

----------------------------------------------------------------------------
LEMMA HInvInit == Init => HInv
<1> SUFFICES ASSUME Init PROVE HInv
  OBVIOUS
<1>1. toLoad[1] \in Programs /\ program \in Programs
  BY MaxTasksAssumption DEF Init, TaskIds
<1>2. /\ AtRest(program, M!Fresh(program))
      /\ M!Fresh(program).awaiting = MP!None /\ M!Fresh(program).pc = 0
      /\ MP!None = M!None
  BY <1>1, FreshAtRest, SameState DEF M!Fresh
<1>3. MP!Chain(program, frames) /\ frames \in Seq(MP!Frame) /\ frames # <<>>
  BY <1>2 DEF Init, AtRest
<1>4. Nil \in MP!Value /\ <<>> \in Seq(MP!Value)
  BY DEF Nil, MP!Value
<1>5. MP!IInv
  BY <1>1, <1>2, <1>3, <1>4
     DEF Init, MP!IInv, MP!TypeOK, MP!Steps, MP!Stopped, MP!AwaitingFits
<1>6. TypeOK
  <2>1. tasks \in Seq(Task) /\ Len(tasks) = 0
    BY DEF Init
  <2>2. Len(tasks) <= MaxTasks /\ cur \in 1..(Len(tasks) + 1)
    BY <2>1, MaxTasksAssumption DEF Init
  <2>3. slices \in Nat /\ ran \in [TaskIds -> 0..slices]
    BY DEF Init
  <2> QED BY <1>5, <2>1, <2>2, <2>3, TypeOfMachine DEF Init, TypeOK
<1> QED BY <1>5, <1>6 DEF Init, HInv, ParkedWell, InHand, TasksConsistent

\* Actions that leave the machine alone.
LEMMA MachineLeft == MP!IInv /\ UNCHANGED machine => MP!IInv'
BY MachineKept DEF machine, MP!vars

LEMMA StepLoad == HInv /\ Load => HInv'
<1> SUFFICES ASSUME HInv, Load PROVE HInv'
  OBVIOUS
<1> DEFINE new == NewTask(toLoad[Len(tasks) + 1])
<1>1. Len(tasks) \in Nat /\ Len(tasks) + 1 \in TaskIds /\ tasks \in Seq(Task)
  BY MaxTasksAssumption DEF Load, HInv, TypeOK, TaskIds
<1>2. toLoad[Len(tasks) + 1] \in Programs
  BY <1>1 DEF HInv
<1>3. /\ new \in Task /\ new.program = toLoad[Len(tasks) + 1]
      /\ new.resume = Absent /\ new.waiting_on = Absent
      /\ new.done = FALSE /\ new.failed = FALSE
  BY <1>2 DEF NewTask, Task
<1> HIDE DEF new
<1>4. /\ tasks' \in Seq(Task) /\ Len(tasks') = Len(tasks) + 1
      /\ DOMAIN tasks' = 1..(Len(tasks) + 1) /\ DOMAIN tasks = 1..Len(tasks)
      /\ \A i \in DOMAIN tasks' : tasks'[i] = IF i = Len(tasks) + 1 THEN new ELSE tasks[i]
  BY <1>1, <1>3 DEF Load, new
<1>5. MP!IInv' /\ toLoad' = toLoad
  BY MachineLeft DEF HInv, Load
<1>6. host = "idle" /\ UNCHANGED <<host, cur, progressed, slices, ran>>
  BY DEF Load
<1>7. TypeOK'
  <2>1. Len(tasks') <= MaxTasks
    BY <1>1, <1>4, MaxTasksAssumption DEF TaskIds
  <2>2. cur' \in 1..(Len(tasks') + 1)
    BY <1>1, <1>4, <1>6 DEF HInv, TypeOK
  <2> QED BY <1>4, <1>5, <1>6, <2>1, <2>2, TypeOfMachine DEF HInv, TypeOK
<1>8. ParkedWell'
  BY <1>3, <1>4, <1>5 DEF HInv, ParkedWell
<1>9. InHand' /\ TasksConsistent'
  BY <1>1, <1>3, <1>4, <1>6 DEF HInv, InHand, TasksConsistent, Slicing, Finished
<1> QED BY <1>5, <1>7, <1>8, <1>9 DEF HInv

LEMMA StepQuiet ==
    HInv /\ (Run \/ (\E i \in TaskIds : SkipTask(i)) \/ EndPass \/ Crash) => HInv'
<1> SUFFICES ASSUME HInv, Run \/ (\E i \in TaskIds : SkipTask(i)) \/ EndPass \/ Crash
             PROVE  HInv'
  OBVIOUS
<1>1. /\ UNCHANGED <<machine, tasks, toLoad>>
      /\ host' \in {"idle", "pass", "crashed"}
      /\ host' = "crashed" => host = "slice" /\ cur' = cur
  BY DEF Run, SkipTask, EndPass, Crash, Turn
<1>2. MP!IInv' /\ program' = program
  BY <1>1, MachineLeft DEF HInv, machine
<1>3. Len(tasks) \in Nat
  BY DEF HInv, TypeOK
<1>4. cur' \in 1..(Len(tasks') + 1)
  <2>1. tasks' = tasks /\ cur \in 1..(Len(tasks) + 1)
    BY <1>1 DEF HInv, TypeOK
  <2>2. cur' \in {1, cur} \/ (cur' = cur + 1 /\ cur <= Len(tasks))
    BY DEF Run, SkipTask, EndPass, Crash, Turn
  <2> QED BY <1>3, <2>1, <2>2
<1>5. progressed' \in BOOLEAN /\ slices' \in Nat /\ ran' \in [TaskIds -> 0..slices']
  <2>1. progressed \in BOOLEAN /\ slices \in Nat /\ ran \in [TaskIds -> 0..slices]
    BY DEF HInv, TypeOK
  <2>2. CASE Run
    <3>1. slices' = 0 /\ ran' = [i \in TaskIds |-> 0] /\ progressed' = FALSE
      BY <2>2 DEF Run
    <3>2. ran' \in [TaskIds -> {0}] /\ 0..slices' = {0}
      BY <3>1
    <3> QED BY <3>1, <3>2
  <2>3. CASE ~Run
    BY <2>1, <2>3 DEF SkipTask, EndPass, Crash
  <2> QED BY <2>2, <2>3
<1>6. TypeOK'
  BY <1>1, <1>2, <1>4, <1>5, TypeOfMachine DEF HInv, TypeOK
<1>7. ParkedWell' /\ InHand' /\ TasksConsistent'
  BY <1>1, <1>2 DEF HInv, ParkedWell, InHand, TasksConsistent, Slicing, Finished
<1> QED BY <1>1, <1>2, <1>6, <1>7 DEF HInv

LEMMA StepRunMachine == HInv /\ RunMachine => HInv'
<1> SUFFICES ASSUME HInv, RunMachine PROVE HInv'
  OBVIOUS
<1>1. MP!Next
  BY SameResume, SameExec DEF RunMachine, MP!Next
<1>2. MP!IInv'
  BY <1>1, MachineKept DEF HInv
<1>3. program' = program
  BY <1>1 DEF MP!Next, MP!Exec, MP!Resume, MP!Answer, MP!ResumeWith, MP!OtherStores,
       MP!Compute, MP!Jump, MP!PrintOp, MP!Halt, MP!LoadGlobal, MP!StoreGlobal, MP!Call,
       MP!Return, MP!Await, MP!ExtGoesOn, MP!ExtSuspends, MP!ExtStops, MP!FallOffEnd
<1>4. UNCHANGED <<tasks, host, cur, progressed, slices, toLoad, ran, final>>
  BY DEF RunMachine
<1>5. TypeOK'
  BY <1>2, <1>4, TypeOfMachine DEF HInv, TypeOK
<1>6. ParkedWell' /\ InHand' /\ TasksConsistent'
  BY <1>3, <1>4 DEF HInv, ParkedWell, InHand, TasksConsistent, Slicing, Finished
<1> QED BY <1>2, <1>4, <1>5, <1>6 DEF HInv

\* The task whose machine is in hand, replaced.
LEMMA ReplaceTask ==
    ASSUME HInv, NEW i \in DOMAIN tasks, NEW t \in Task, t.program = toLoad[i],
           t.resume # Absent => AtRest(toLoad[i], t.resume),
           tasks' = [tasks EXCEPT ![i] = t], toLoad' = toLoad
    PROVE  /\ tasks' \in Seq(Task) /\ Len(tasks') = Len(tasks)
           /\ DOMAIN tasks' = DOMAIN tasks
           /\ \A j \in DOMAIN tasks : tasks'[j] = IF j = i THEN t ELSE tasks[j]
           /\ ParkedWell'
<1>1. tasks \in Seq(Task) /\ DOMAIN tasks = 1..Len(tasks)
  BY DEF HInv, TypeOK
<1>2. /\ tasks' \in Seq(Task) /\ Len(tasks') = Len(tasks)
      /\ \A j \in 1..Len(tasks) : tasks'[j] = IF j = i THEN t ELSE tasks[j]
  BY <1>1, ExceptSeq
<1>3. DOMAIN tasks' = DOMAIN tasks
  BY <1>1, <1>2
<1> QED BY <1>1, <1>2, <1>3 DEF HInv, ParkedWell

LEMMA StepBeginSlice == ASSUME NEW i \in TaskIds PROVE HInv /\ BeginSlice(i) => HInv'
<1> SUFFICES ASSUME HInv, BeginSlice(i) PROVE HInv'
  OBVIOUS
<1> DEFINE t == tasks[i]
           new == [t EXCEPT !.resume = Absent, !.waiting_on = Absent]
<1>1. /\ host = "pass" /\ cur = i /\ i \in DOMAIN tasks /\ t \in Task
      /\ t.program = toLoad[i] /\ toLoad[i] \in Programs
      /\ ~t.done /\ ~t.failed
      /\ t.resume # Absent => AtRest(toLoad[i], t.resume) /\ t.waiting_on # Absent
  <2>1. host = "pass" /\ cur = i /\ i <= Len(tasks) /\ ~t.done /\ ~t.failed
    BY DEF BeginSlice, Turn, PassedOver
  <2>2. i \in DOMAIN tasks /\ t \in Task
    BY <2>1, MaxTasksAssumption, ElementOfSeq DEF HInv, TypeOK, TaskIds
  <2>3. toLoad[i] \in Programs
    BY DEF HInv
  <2> QED BY <2>1, <2>2, <2>3 DEF HInv, ParkedWell, TasksConsistent
<1>2. PICK m \in Answered(t) : pc' = m.pc /\ frames' = m.frames /\ awaiting' = m.awaiting
  BY DEF BeginSlice
<1>3. AtRest(toLoad[i], m) /\ m.awaiting = MP!None
  <2>1. CASE t.resume = Absent
    <3>1. Rebuilt(t) = M!Fresh(toLoad[i])
      BY <1>1, <2>1 DEF Rebuilt
    <3>2. Rebuilt(t).awaiting = M!None
      BY <1>1, <3>1, FreshAtRest, SameState
    <3>3. m = M!Fresh(toLoad[i])
      BY <1>2, <3>1, <3>2 DEF Answered
    <3> QED BY <1>1, <3>3, FreshAtRest
  <2>2. CASE t.resume # Absent
    <3>1. /\ Rebuilt(t) = t.resume /\ t.resume \in SnapshotType
          /\ AtRest(toLoad[i], t.resume) /\ t.waiting_on # Absent
      BY <1>1, <2>2 DEF Rebuilt, Task
    <3>2. CASE t.resume.awaiting = M!None
      BY <1>2, <3>1, <3>2, SameState DEF Answered
    <3>3. CASE t.resume.awaiting # M!None
      <4>1. PICK v \in Answers :
                m = [t.resume EXCEPT
                        !.frames[Len(t.resume.frames)].regs[t.resume.awaiting + 1] = v,
                        !.awaiting = M!None]
        BY <1>2, <3>1, <3>3 DEF Answered
      <4>2. t.resume.awaiting # MP!None
        BY <3>3, SameState
      <4> HIDE DEF t
      <4> QED BY ONLY <1>1, <3>1, <4>1, <4>2, AnsweredAtRest
    <3> QED BY <3>2, <3>3
  <2> QED BY <2>1, <2>2
<1>4. /\ program' = toLoad[i] /\ output' = <<>> /\ step' = "idle" /\ handed' = Nil
      /\ globals' = globals /\ toLoad' = toLoad /\ host' = "slice" /\ cur' = cur
      /\ progressed' = TRUE /\ slices' = slices + 1 /\ ran' = [ran EXCEPT ![i] = @ + 1]
  BY <1>1 DEF BeginSlice
<1>5. MP!IInv'
  <2>1. Nil \in MP!Value /\ <<>> \in Seq(MP!Value)
    BY DEF Nil, MP!Value
  <2>2. MP!TypeOK'
    BY <1>1, <1>2, <1>3, <1>4, <2>1 DEF HInv, MP!IInv, MP!TypeOK, MP!Steps, AtRest
  <2>3. MP!Chain(program, frames)' /\ MP!Fit(program, frames, pc)'
    BY <1>2, <1>3, <1>4 DEF AtRest
  <2> QED BY <1>2, <1>3, <2>2, <2>3 DEF MP!IInv, MP!AwaitingFits
<1>6. tasks' = [tasks EXCEPT ![i] = new]
  BY DEF BeginSlice
<1>7. /\ new \in Task /\ new.program = toLoad[i]
      /\ new.resume = Absent /\ new.waiting_on = Absent /\ ~new.done /\ ~new.failed
  BY <1>1 DEF Task
<1> HIDE DEF new
<1>8. /\ tasks' \in Seq(Task) /\ Len(tasks') = Len(tasks) /\ DOMAIN tasks' = DOMAIN tasks
      /\ \A j \in DOMAIN tasks : tasks'[j] = IF j = i THEN new ELSE tasks[j]
      /\ ParkedWell'
  BY <1>1, <1>4, <1>6, <1>7, ReplaceTask
<1>9. TypeOK'
  <2>1. slices' \in Nat /\ ran' \in [TaskIds -> 0..slices']
    BY <1>4 DEF HInv, TypeOK
  <2> QED BY <1>4, <1>5, <1>8, <2>1, TypeOfMachine DEF HInv, TypeOK
<1>10. InHand' /\ TasksConsistent'
  BY <1>1, <1>4, <1>7, <1>8 DEF HInv, InHand, TasksConsistent, Slicing, Finished
<1> QED BY <1>4, <1>5, <1>8, <1>9, <1>10 DEF HInv

LEMMA StepEndSlice == HInv /\ EndSlice => HInv'
<1> SUFFICES ASSUME HInv, EndSlice PROVE HInv'
  OBVIOUS
<1> DEFINE t == tasks[cur]
           new == Parked(t)
<1>1. /\ host = "slice" /\ host' = "pass" /\ cur' = cur + 1 /\ UNCHANGED machine
      /\ toLoad' = toLoad /\ step \in {"done", "failed", "awaiting"}
      /\ UNCHANGED <<progressed, slices, ran>>
      /\ tasks' = [tasks EXCEPT ![cur] = new]
  BY DEF EndSlice, TurnAfter
<1>2. /\ cur \in DOMAIN tasks /\ t \in Task /\ t.program = toLoad[cur]
      /\ program = toLoad[cur] /\ ~t.done /\ ~t.failed
      /\ t.waiting_on = Absent /\ t.resume = Absent /\ tasks \in Seq(Task)
  <2>1. cur \in DOMAIN tasks /\ program = toLoad[cur]
    BY <1>1 DEF HInv, InHand
  <2>2. t \in Task /\ tasks \in Seq(Task)
    BY <2>1, ElementOfSeq DEF HInv, TypeOK
  <2> QED BY <1>1, <2>1, <2>2 DEF HInv, ParkedWell, TasksConsistent, Slicing, Finished
<1>3. output \in Seq(Value) /\ handed \in Value
  BY SameValues DEF HInv, MP!IInv, MP!TypeOK
<1>4. handed # Absent
  BY <1>3 DEF Value, Absent
<1>5. /\ new \in Task /\ new.program = toLoad[cur]
      /\ new.resume # Absent => AtRest(toLoad[cur], new.resume)
      /\ (new.waiting_on = Absent) = (new.resume = Absent)
      /\ Finished(new) => new.resume = Absent
      /\ ~(new.done /\ new.failed)
  <2>1. t.output \o output \in Seq(Value)
    BY <1>2, <1>3, ConcatProperties DEF Task
  <2>2. CASE step = "done"
    <3>1. new = [t EXCEPT !.output = t.output \o output, !.done = TRUE]
      BY <2>2 DEF Parked
    <3> HIDE DEF new
    <3> QED BY <1>2, <2>1, <3>1 DEF Task, Finished
  <2>3. CASE step = "failed"
    <3>1. new = [t EXCEPT !.output = t.output \o output, !.failed = TRUE]
      BY <2>3 DEF Parked
    <3> HIDE DEF new
    <3> QED BY <1>2, <2>1, <3>1 DEF Task, Finished
  <2>4. CASE step = "awaiting"
    <3>1. new = [t EXCEPT !.output = t.output \o output, !.waiting_on = handed,
                          !.resume = Snapshot]
      BY <2>4 DEF Parked
    <3>2. AtRest(program, Snapshot) /\ Snapshot \in SnapshotType
      BY <2>4, SuspendedAtRest DEF HInv
    <3>3. Snapshot # Absent
      BY DEF Snapshot, Absent
    <3> HIDE DEF new
    <3>4. new.resume = Snapshot /\ new.waiting_on = handed /\ new.program = toLoad[cur]
          /\ ~new.done /\ ~new.failed
      BY <1>2, <3>1 DEF Task
    <3>5. new \in Task
      BY <1>2, <1>3, <2>1, <3>1, <3>2 DEF Task
    <3> QED BY <1>2, <1>4, <3>2, <3>3, <3>4, <3>5 DEF Finished
  <2> QED BY <1>1, <2>2, <2>3, <2>4
<1> HIDE DEF new
<1>6. /\ tasks' \in Seq(Task) /\ Len(tasks') = Len(tasks) /\ DOMAIN tasks' = DOMAIN tasks
      /\ \A j \in DOMAIN tasks : tasks'[j] = IF j = cur THEN new ELSE tasks[j]
      /\ ParkedWell'
  BY <1>1, <1>2, <1>5, ReplaceTask
<1>7. MP!IInv'
  BY <1>1, MachineLeft DEF HInv
<1>8. TypeOK'
  <2>1. cur' \in 1..(Len(tasks') + 1)
    BY <1>1, <1>2, <1>6
  <2> QED BY <1>1, <1>6, <1>7, <2>1, TypeOfMachine DEF HInv, TypeOK
<1>9. InHand' /\ TasksConsistent'
  BY <1>1, <1>5, <1>6 DEF HInv, InHand, TasksConsistent, Slicing, Finished
<1> QED BY <1>1, <1>6, <1>7, <1>8, <1>9 DEF HInv

LEMMA HInvNext == HInv /\ [Next]_vars => HInv'
<1> SUFFICES ASSUME HInv, [Next]_vars PROVE HInv'
  OBVIOUS
<1>1. CASE UNCHANGED vars
  <2>1. MP!IInv'
    BY <1>1, MachineLeft DEF HInv, vars
  <2>2. TypeOK'
    BY <1>1, <2>1, TypeOfMachine DEF HInv, TypeOK, vars
  <2> QED BY <1>1, <2>1, <2>2
          DEF HInv, ParkedWell, InHand, TasksConsistent, Slicing, Finished, vars, machine
<1> QED BY <1>1, StepLoad, StepQuiet, StepRunMachine, StepBeginSlice, StepEndSlice
        DEF Next, Running

LEMMA HInvariance == Spec => []HInv
BY HInvInit, HInvNext, PTL DEF Spec

\* The state of the host and of the machine in its hands is typed.
THEOREM HostTypeCorrect == Spec => []TypeOK
<1>1. HInv => TypeOK
  BY DEF HInv
<1> QED BY <1>1, HInvariance, PTL

\* A task is in one place at a time.
THEOREM TasksStayConsistent == Spec => []TasksConsistent
<1>1. HInv => TasksConsistent
  BY DEF HInv
<1> QED BY <1>1, HInvariance, PTL

----------------------------------------------------------------------------
\* Whether task i has had its turn of the current pass.
HadTurn(i) == i < cur \/ (host \in {"slice", "crashed"} /\ i = cur)

\* In a pass, the unfinished tasks that have had their turn are one slice
\* ahead of those that have not.  Between two that have not, or that have,
\* nothing: that is what makes RoundRobin inductive.
Turns ==
    host # "idle" =>
        \A i, j \in DOMAIN tasks :
            i < j /\ ~Finished(tasks[i]) /\ ~Finished(tasks[j]) =>
                ran[i] - ran[j] = IF HadTurn(i) /\ ~HadTurn(j) THEN 1 ELSE 0

LEMMA TurnsInit == Init => Turns
BY DEF Init, Turns

LEMMA TurnsNext == HInv /\ Turns /\ [Next]_vars => Turns'
<1> SUFFICES ASSUME HInv, Turns, [Next]_vars PROVE Turns'
  OBVIOUS
<1>1. /\ DOMAIN tasks = 1..Len(tasks) /\ Len(tasks) \in Nat /\ DOMAIN tasks \subseteq TaskIds
      /\ cur \in 1..(Len(tasks) + 1) /\ \A i \in DOMAIN tasks : ran[i] \in Int
      /\ ran \in [TaskIds -> 0..slices]
  BY MaxTasksAssumption DEF HInv, TypeOK, TaskIds
<1>2. CASE UNCHANGED <<tasks, host, cur, ran>>
  BY <1>2 DEF Turns, HadTurn, Finished
<1>3. CASE Load
  BY <1>3 DEF Load, Turns
<1>4. CASE Run
  BY <1>1, <1>4 DEF Run, Turns, HadTurn
<1>5. ASSUME NEW k \in TaskIds, SkipTask(k) PROVE Turns'
  BY <1>1, <1>5 DEF SkipTask, Turn, PassedOver, Turns, HadTurn, Finished
<1>6. ASSUME NEW k \in TaskIds, BeginSlice(k) PROVE Turns'
  <2>1. /\ host = "pass" /\ host' = "slice" /\ cur = k /\ cur' = k
        /\ k \in DOMAIN tasks /\ ~Finished(tasks[k])
        /\ \A i \in TaskIds : ran'[i] = IF i = k THEN ran[k] + 1 ELSE ran[i]
    BY <1>1, <1>6 DEF BeginSlice, Turn, PassedOver, Finished
  <2>2. /\ DOMAIN tasks' = DOMAIN tasks
        /\ \A i \in DOMAIN tasks : Finished(tasks'[i]) = Finished(tasks[i])
    <3>1. tasks' = [tasks EXCEPT ![k] = [tasks[k] EXCEPT !.resume = Absent,
                                                         !.waiting_on = Absent]]
      BY <1>6 DEF BeginSlice
    <3>2. tasks[k] \in Task
      BY <1>1, <2>1, ElementOfSeq DEF HInv, TypeOK
    <3> QED BY <2>1, <3>1, <3>2 DEF Finished, Task
  <2> QED BY <1>1, <2>1, <2>2 DEF Turns, HadTurn
<1>7. CASE EndSlice
  <2>1. /\ host = "slice" /\ host' = "pass" /\ cur' = cur + 1 /\ ran' = ran
        /\ DOMAIN tasks' = DOMAIN tasks
        /\ \A i \in DOMAIN tasks : i # cur => tasks'[i] = tasks[i]
    BY <1>7 DEF EndSlice, TurnAfter
  <2>2. ~Finished(tasks[cur])
    BY <1>7, <2>1 DEF HInv, TasksConsistent, InHand, Slicing
  <2>3. \A i \in DOMAIN tasks : ~Finished(tasks'[i]) => ~Finished(tasks[i])
    BY <2>1, <2>2
  <2>4. \A i \in DOMAIN tasks : HadTurn(i)' = HadTurn(i)
    BY <1>1, <2>1 DEF HadTurn
  <2> QED BY <2>1, <2>3, <2>4 DEF Turns
<1>8. CASE Crash
  BY <1>8 DEF Crash, Turns, HadTurn, Finished
<1>9. CASE EndPass
  BY <1>1, <1>9 DEF EndPass, Turns, HadTurn, Finished
<1> QED BY <1>2, <1>3, <1>4, <1>5, <1>6, <1>7, <1>8, <1>9
        DEF Next, Running, RunMachine, vars

\* Of two unfinished tasks, the one loaded first has run as many slices of
\* this call of `run` as the other, or is one ahead.
THEOREM TurnsAreTaken == Spec => []RoundRobin
<1>1. Turns => RoundRobin
  BY DEF Turns, RoundRobin
<1> QED BY <1>1, TurnsInit, TurnsNext, HInvariance, PTL DEF Spec

\* No pass that has run nothing has passed over an unfinished task.
NothingMissed ==
    /\ host = "slice" => progressed
    /\ host = "pass" /\ ~progressed =>
          \A i \in DOMAIN tasks : i < cur => Finished(tasks[i])

LEMMA NothingMissedNext == HInv /\ NothingMissed /\ [Next]_vars => NothingMissed'
<1> SUFFICES ASSUME HInv, NothingMissed, [Next]_vars PROVE NothingMissed'
  OBVIOUS
<1>1. cur \in 1..(Len(tasks) + 1) /\ Len(tasks) \in Nat /\ DOMAIN tasks = 1..Len(tasks)
  BY DEF HInv, TypeOK
<1>2. CASE UNCHANGED <<tasks, host, cur, progressed>>
  BY <1>2 DEF NothingMissed, Finished
<1>3. CASE Load \/ Crash
  BY <1>3 DEF Load, Crash, NothingMissed
<1>4. CASE Run
  BY <1>1, <1>4 DEF Run, NothingMissed
<1>5. ASSUME NEW k \in TaskIds, SkipTask(k) PROVE NothingMissed'
  BY <1>1, <1>5 DEF SkipTask, Turn, PassedOver, NothingMissed, Finished
<1>6. ASSUME NEW k \in TaskIds, BeginSlice(k) PROVE NothingMissed'
  BY <1>6 DEF BeginSlice, NothingMissed
<1>7. CASE EndSlice
  BY <1>7 DEF EndSlice, NothingMissed
<1>8. CASE EndPass
  BY <1>1, <1>8 DEF EndPass, NothingMissed
<1> QED BY <1>2, <1>3, <1>4, <1>5, <1>6, <1>7, <1>8
        DEF Next, Running, RunMachine, vars

\* When `run` returns, every task it was given has finished.
THEOREM RunReturnsWhenAllFinished == Spec => ReturnsWhenAllFinished
<1>1. Init => NothingMissed
  BY DEF Init, NothingMissed
<1>2. ASSUME HInv, NothingMissed, [Next]_vars, host = "pass", host' = "idle"
      PROVE  \A i \in DOMAIN tasks : Finished(tasks[i])
  <2>1. cur > Len(tasks) /\ ~progressed
    BY <1>2 DEF Next, Running, Load, Run, SkipTask, BeginSlice, RunMachine, EndSlice,
                Crash, EndPass, vars
  <2>2. \A i \in DOMAIN tasks : i < cur
    BY <1>2, <2>1 DEF HInv, TypeOK
  <2> QED BY <1>2, <2>1, <2>2 DEF NothingMissed
<1> QED BY <1>1, <1>2, NothingMissedNext, HInvariance, PTL DEF Spec, ReturnsWhenAllFinished

\* The record of a task that has finished stays as it is.
THEOREM FinishedTasksStay == Spec => FinishedForGood
<1>1. HInv /\ [Next]_vars => \A i \in DOMAIN tasks : Finished(tasks[i]) => tasks'[i] = tasks[i]
  <2> SUFFICES ASSUME HInv, [Next]_vars, NEW i \in DOMAIN tasks, Finished(tasks[i])
               PROVE  tasks'[i] = tasks[i]
    OBVIOUS
  <2>1. tasks \in Seq(Task)
    BY DEF HInv, TypeOK
  <2>2. CASE Load
    BY <2>1, <2>2 DEF Load
  <2>3. ASSUME NEW k \in TaskIds, BeginSlice(k) PROVE tasks'[i] = tasks[i]
    <3>1. i # k
      BY <2>3 DEF BeginSlice, PassedOver, Finished
    <3> QED BY <2>3, <3>1 DEF BeginSlice
  <2>4. CASE EndSlice
    <3>1. i # cur
      BY <2>4 DEF EndSlice, HInv, TasksConsistent, Slicing
    <3> QED BY <2>4, <3>1 DEF EndSlice
  <2> QED BY <2>1, <2>2, <2>3, <2>4
          DEF Next, Running, Run, SkipTask, RunMachine, Crash, EndPass, vars
<1> QED BY <1>1, HInvariance, PTL DEF Spec, FinishedForGood

----------------------------------------------------------------------------
(* Through the host's snapshots and turns each task is one machine.        *)

\* What task i's own machine is before and after a step of the slice: the
\* machine in hand, but for what the task had said in earlier slices.
Alike(i) ==
    /\ toLoad[i] = program /\ PcOf(i) = pc /\ FramesOf(i) = frames
    /\ AwaitingOf(i) = awaiting /\ StepOf(i) = step /\ HandedOf(i) = handed

LEMMA AppendToSaid ==
    ASSUME NEW S, NEW s \in Seq(S), NEW t \in Seq(S), NEW v
    PROVE  s \o Append(t, v) = Append(s \o t, v)
OBVIOUS

\* Task i's own machine and the machine in hand are at the same instruction,
\* with the same registers and the same ways on.
LEMMA SameView ==
    ASSUME NEW i \in TaskIds, Alike(i), Alike(i)'
    PROVE  /\ Own(i)!Top = M!Top /\ Own(i)!Code = M!Code
           /\ Own(i)!Instr = M!Instr
           /\ \A ops : Own(i)!Executing(ops) <=> M!Executing(ops)
           /\ Own(i)!Next1 <=> M!Next1
           /\ \A t : Own(i)!JumpTo(t) <=> M!JumpTo(t)
           /\ \A why : Own(i)!Stop(why) <=> M!Stop(why)
           /\ \A r : Own(i)!Reg(r) = M!Reg(r)
           /\ \A j : Own(i)!Computed(j) = M!Computed(j)
           /\ \A r, v : Own(i)!WithReg(r, v) = M!WithReg(r, v)
<1>1. Own(i)!Top = M!Top /\ Own(i)!Code = M!Code
  BY DEF Alike, M!Top, Own!Top, M!Code, Own!Code
<1>2. Own(i)!Instr = M!Instr
  BY DEF Alike, M!Instr, Own!Instr, M!Code, Own!Code
<1>3. \A ops : Own(i)!Executing(ops) <=> M!Executing(ops)
  BY DEF Alike, M!Executing, Own!Executing, M!Instr, Own!Instr, M!Code,
         Own!Code
<1>4. Own(i)!Next1 <=> M!Next1
  BY DEF Alike, M!Next1, Own!Next1
<1>5. \A t : Own(i)!JumpTo(t) <=> M!JumpTo(t)
  BY DEF Alike, M!JumpTo, Own!JumpTo
<1>6. \A why : Own(i)!Stop(why) <=> M!Stop(why)
  BY DEF Alike, M!Stop, Own!Stop
<1>7. \A r : Own(i)!Reg(r) = M!Reg(r)
  BY DEF Alike, M!Reg, Own!Reg, M!Top, Own!Top
<1>8. \A j : Own(i)!Computed(j) = M!Computed(j)
  BY DEF Alike, M!Computed, Own!Computed, M!Reg, Own!Reg, M!Top, Own!Top,
         M!UnaryOps, Own!UnaryOps, M!BinaryOps, Own!BinaryOps, M!Arithmetic,
         Own!Arithmetic, M!Comparison, Own!Comparison, M!Error, Own!Error,
         M!Panic, Own!Panic, M!Unary, Own!Unary, M!Binary, Own!Binary,
         M!IsNum, Own!IsNum, M!IsStr, Own!IsStr, M!Num, Own!Num, M!Bool,
         Own!Bool, M!Str, Own!Str, M!Truthy, Own!Truthy, M!Display,
         Own!Display, M!OfNumbers, Own!OfNumbers, M!IntegerDivide,
         Own!IntegerDivide, M!Quotient, Own!Quotient, M!Remainder,
         Own!Remainder, M!AsI64, Own!AsI64
<1>9. \A r, v : Own(i)!WithReg(r, v) = M!WithReg(r, v)
  BY DEF Alike, M!WithReg, Own!WithReg
<1> QED BY <1>1, <1>2, <1>3, <1>4, <1>5, <1>6, <1>7, <1>8, <1>9

\* What an extension writes to the registers is a function of the stack.
LEMMA SameWrites ==
    ASSUME NEW fs, NEW gs, fs = gs, NEW written, NEW to
    PROVE  [fs EXCEPT ![Len(fs)].regs =
                [k \in DOMAIN @ |-> IF k - 1 \in written THEN to[k - 1] ELSE @[k]]]
         = [gs EXCEPT ![Len(gs)].regs =
                [k \in DOMAIN @ |-> IF k - 1 \in written THEN to[k - 1] ELSE @[k]]]
OBVIOUS

\* A step of the machine in hand is a step of the task's own machine, whose
\* output begins with what the task said before.
LEMMA OwnStep ==
    ASSUME NEW i \in TaskIds, Alike(i), Alike(i)', M!Resume \/ M!Exec, MP!IInv, MP!IInv',
           NEW said \in Seq(Value), OutputOf(i) = said \o output,
           OutputOf(i)' = said \o output'
    PROVE  Own(i)!Resume \/ Own(i)!Exec
<1>1. output' = output => OutputOf(i)' = OutputOf(i)
  OBVIOUS
<1>2. \A v : output' = Append(output, v) => OutputOf(i)' = Append(OutputOf(i), v)
  BY AppendToSaid, SameValues DEF MP!IInv, MP!TypeOK
<1>3. M!ExtWrites => Own(i)!ExtWrites
  <2> SUFFICES ASSUME M!ExtWrites PROVE Own(i)!ExtWrites
    OBVIOUS
  <2>1. Own(i)!Instr = M!Instr /\ FramesOf(i) = frames /\ FramesOf(i)' = frames'
    BY SameView DEF Alike
  <2>2. PICK written \in SUBSET M!Instr.uses : \E to \in [written -> ExtValues] :
            frames' = [frames EXCEPT ![Len(frames)].regs =
                [k \in DOMAIN @ |-> IF k - 1 \in written THEN to[k - 1] ELSE @[k]]]
    BY DEF M!ExtWrites
  <2>3. PICK to \in [written -> ExtValues] :
            frames' = [frames EXCEPT ![Len(frames)].regs =
                [k \in DOMAIN @ |-> IF k - 1 \in written THEN to[k - 1] ELSE @[k]]]
    BY <2>2
  <2>4. [FramesOf(i) EXCEPT ![Len(FramesOf(i))].regs =
                [k \in DOMAIN @ |-> IF k - 1 \in written THEN to[k - 1] ELSE @[k]]]
      = [frames EXCEPT ![Len(frames)].regs =
                [k \in DOMAIN @ |-> IF k - 1 \in written THEN to[k - 1] ELSE @[k]]]
    BY <2>1, SameWrites
  <2>5. FramesOf(i)' = [FramesOf(i) EXCEPT ![Len(FramesOf(i))].regs =
                [k \in DOMAIN @ |-> IF k - 1 \in written THEN to[k - 1] ELSE @[k]]]
    BY <2>1, <2>3, <2>4
  <2>6. written \in SUBSET Own(i)!Instr.uses
    BY <2>1
  <2>7. OutputOf(i)' \in {OutputOf(i)} \cup {Append(OutputOf(i), v) : v \in ExtValues}
    BY <1>1, <1>2 DEF M!ExtWrites
  <2> QED BY <2>5, <2>6, <2>7 DEF Own!ExtWrites
<1>4. ASSUME M!Compute PROVE Own(i)!Compute
  BY <1>1, <1>4, SameView DEF Alike, M!Compute, Own!Compute, M!UnaryOps,
         Own!UnaryOps, M!BinaryOps, Own!BinaryOps, M!Arithmetic,
         Own!Arithmetic, M!Comparison, Own!Comparison, M!Value, Own!Value,
         M!Error, Own!Error, M!Panic, Own!Panic
<1>5. ASSUME M!Jump PROVE Own(i)!Jump
  BY <1>1, <1>5, SameView DEF Alike, M!Jump, Own!Jump, M!ConditionalJumps,
         Own!ConditionalJumps, M!JumpTaken, Own!JumpTaken, M!Truthy,
         Own!Truthy
<1>6. ASSUME M!PrintOp PROVE Own(i)!PrintOp
  BY <1>2, <1>6, SameView DEF Alike, M!PrintOp, Own!PrintOp
<1>7. ASSUME M!Halt PROVE Own(i)!Halt
  BY <1>1, <1>7, SameView DEF Alike, M!Halt, Own!Halt
<1>8. ASSUME M!LoadGlobal PROVE Own(i)!LoadGlobal
  BY <1>1, <1>8, SameView DEF Alike, M!LoadGlobal, Own!LoadGlobal
<1>9. ASSUME M!StoreGlobal PROVE Own(i)!StoreGlobal
  BY <1>1, <1>9, SameView DEF Alike, M!StoreGlobal, Own!StoreGlobal
<1>10. ASSUME M!Call PROVE Own(i)!Call
  BY <1>1, <1>10, SameView DEF Alike, M!Call, Own!Call, M!CallRefused,
         Own!CallRefused, M!CalleeFrame, Own!CalleeFrame, M!MaxOf, Own!MaxOf,
         M!Nil, Own!Nil
<1>11. ASSUME M!Return PROVE Own(i)!Return
  BY <1>1, <1>11 DEF Alike, M!Return, Own!Return, M!Executing, Own!Executing,
         M!Instr, Own!Instr, M!Code, Own!Code, M!ReturnValue, Own!ReturnValue,
         M!JumpTo, Own!JumpTo, M!Stop, Own!Stop, M!Reg, Own!Reg, M!Top,
         Own!Top, M!Nil, Own!Nil
<1>12. ASSUME M!Await PROVE Own(i)!Await
  BY <1>1, <1>12, SameView DEF Alike, M!Await, Own!Await, M!Suspend,
         Own!Suspend
<1>13. ASSUME M!ExtGoesOn PROVE Own(i)!ExtGoesOn
  BY <1>1, <1>3, <1>13, SameView DEF Alike, M!ExtGoesOn, Own!ExtGoesOn
<1>14. ASSUME M!ExtSuspends PROVE Own(i)!ExtSuspends
  BY <1>1, <1>3, <1>14, SameView DEF Alike, M!ExtSuspends, Own!ExtSuspends,
         M!Suspend, Own!Suspend
<1>15. ASSUME M!ExtStops PROVE Own(i)!ExtStops
  BY <1>1, <1>3, <1>15, SameView DEF Alike, M!ExtStops, Own!ExtStops
<1>16. ASSUME M!FallOffEnd PROVE Own(i)!FallOffEnd
  BY <1>1, <1>16, SameView DEF Alike, M!FallOffEnd, Own!FallOffEnd, M!Code,
         Own!Code
<1>17. ASSUME M!Resume PROVE Own(i)!Resume
  BY <1>1, <1>17, SameView DEF Alike, M!Resume, Own!Resume
<1> QED BY <1>4, <1>5, <1>6, <1>7, <1>8, <1>9, <1>10, <1>11, <1>12, <1>13, <1>14, <1>15, <1>16, <1>17 DEF M!Exec, Own!Exec

----------------------------------------------------------------------------
\* A task that is neither parked nor finished nor in hand has not begun.
NotBegun(i) ==
    ~Slicing(i) /\ (Loaded(i) => ~Finished(tasks[i]) /\ tasks[i].resume = Absent)

\* What the mapping needs besides HInv: a value is handed out only while the
\* machine awaits, and a task that has not begun is a new machine.
Mapped ==
    /\ step # "awaiting" => handed = Nil
    /\ DOMAIN final = TaskIds
    /\ \A i \in TaskIds : NotBegun(i) => final[i] = M!Fresh(toLoad[i]) /\ Said(i) = <<>>

LEMMA MappedInit == Init => Mapped
BY DEF Init, Mapped, Said, Loaded

LEMMA NotYetAwaiting ==
    ASSUME M!Resume \/ M!Exec, step # "awaiting" => handed = Nil
    PROVE  step' # "awaiting" => handed' = Nil
<1>1. M!Resume \/ handed' = handed \/ step' = "awaiting"
  BY DEF M!Exec, M!Compute, M!Jump, M!PrintOp, M!Halt, M!LoadGlobal, M!StoreGlobal,
         M!Call, M!Return, M!Await, M!ExtGoesOn, M!ExtSuspends, M!ExtStops,
         M!FallOffEnd, M!Suspend, M!Stop
<1>2. M!Resume \/ step = "running"
  BY DEF M!Exec, M!Compute, M!Jump, M!PrintOp, M!Halt, M!LoadGlobal, M!StoreGlobal,
         M!Call, M!Return, M!Await, M!ExtGoesOn, M!ExtSuspends, M!ExtStops,
         M!FallOffEnd, M!Executing
<1>3. M!Resume => step = "idle" /\ handed' = handed
  BY DEF M!Resume
<1> QED BY <1>1, <1>2, <1>3

LEMMA MappedNext == HInv /\ Mapped /\ [Next]_vars => Mapped'
<1> SUFFICES ASSUME HInv, Mapped, [Next]_vars PROVE Mapped'
  OBVIOUS
<1>1. /\ DOMAIN tasks = 1..Len(tasks) /\ Len(tasks) \in Nat /\ tasks \in Seq(Task)
      /\ InHand
  BY DEF HInv, TypeOK
<1> toLoad' = toLoad
  BY DEF Next, Running, Load, Run, SkipTask, BeginSlice, RunMachine, EndSlice, Crash,
         EndPass, vars
<1>2. CASE UNCHANGED <<machine, tasks, host, cur, final>>
  BY <1>1, <1>2 DEF Mapped, NotBegun, Slicing, Loaded, Finished, Said, machine
<1>3. CASE Run \/ EndPass \/ \E k \in TaskIds : SkipTask(k)
  <2>1. /\ UNCHANGED <<machine, tasks, final>>
        /\ \A i \in TaskIds : ~Slicing(i) /\ ~Slicing(i)'
    BY <1>3 DEF Run, EndPass, SkipTask, Turn, Slicing
  <2> QED BY <1>1, <2>1 DEF Mapped, NotBegun, Loaded, Finished, Said, machine
<1>4. CASE Crash
  BY <1>1, <1>4 DEF Crash, Mapped, NotBegun, Slicing, Loaded, Finished, Said, machine
<1>5. CASE Load
  <2>1. /\ UNCHANGED <<machine, final, host, cur>> /\ host = "idle"
        /\ DOMAIN tasks' = 1..(Len(tasks) + 1)
        /\ tasks'[Len(tasks) + 1].output = <<>>
        /\ \A i \in DOMAIN tasks : tasks'[i] = tasks[i]
    BY <1>1, <1>5 DEF Load, NewTask
  <2>2. ASSUME NEW i \in TaskIds, NotBegun(i)'
        PROVE  NotBegun(i) /\ Said(i)' = Said(i)
    BY <1>1, <2>1, <2>2 DEF NotBegun, Slicing, Loaded, Finished, Said
  <2> QED BY <1>1, <2>1, <2>2 DEF Mapped, machine
<1>6. ASSUME NEW k \in TaskIds, BeginSlice(k) PROVE Mapped'
  <2>1. /\ handed' = Nil /\ final' = final /\ host = "pass" /\ host' = "slice"
        /\ cur = k /\ cur' = k
        /\ DOMAIN tasks' = DOMAIN tasks
        /\ \A i \in DOMAIN tasks : i # k => tasks'[i] = tasks[i]
    BY <1>6 DEF BeginSlice, Turn
  <2>2. ASSUME NEW i \in TaskIds, NotBegun(i)'
        PROVE  NotBegun(i) /\ Said(i)' = Said(i)
    BY <1>1, <2>1, <2>2 DEF NotBegun, Slicing, Loaded, Finished, Said
  <2> QED BY <1>1, <2>1, <2>2 DEF Mapped
<1>7. CASE RunMachine
  <2>1. UNCHANGED <<tasks, host, cur, final>> /\ (M!Resume \/ M!Exec)
    BY <1>7 DEF RunMachine
  <2>2. step' # "awaiting" => handed' = Nil
    BY <2>1, NotYetAwaiting DEF Mapped
  <2> QED BY <1>1, <2>1, <2>2 DEF Mapped, NotBegun, Slicing, Loaded, Finished, Said
<1>8. CASE EndSlice
  <2>1. /\ UNCHANGED machine /\ host = "slice" /\ host' = "pass" /\ cur \in DOMAIN tasks
        /\ DOMAIN tasks' = DOMAIN tasks
        /\ \A i \in DOMAIN tasks : i # cur => tasks'[i] = tasks[i]
        /\ tasks'[cur] = Parked(tasks[cur]) /\ step \in {"done", "failed", "awaiting"}
        /\ DOMAIN final' = DOMAIN final
        /\ \A i \in TaskIds : i # cur => final'[i] = final[i]
    BY <1>1, <1>8 DEF EndSlice, InHand, Mapped
  <2>2. Finished(Parked(tasks[cur])) \/ Parked(tasks[cur]).resume # Absent
    <3>1. tasks[cur] \in Task
      BY <1>1, <2>1, ElementOfSeq
    <3>2. Snapshot # Absent
      BY DEF Snapshot, Absent
    <3> QED BY <2>1, <3>1, <3>2 DEF Parked, Task, Finished
  <2>3. ASSUME NEW i \in TaskIds, NotBegun(i)'
        PROVE  i # cur /\ NotBegun(i) /\ Said(i)' = Said(i)
    <3>1. i # cur
      BY <2>1, <2>2, <2>3 DEF NotBegun, Loaded, Finished
    <3> QED BY <2>1, <2>3, <3>1 DEF NotBegun, Slicing, Loaded, Finished, Said
  <2> QED BY <1>1, <2>1, <2>3 DEF Mapped, machine
<1> QED BY <1>2, <1>3, <1>4, <1>5, <1>6, <1>7, <1>8 DEF Next, Running, vars

----------------------------------------------------------------------------
LEMMA OwnInit == Init => \A i \in TaskIds : Own(i)!Init
<1> SUFFICES ASSUME Init, NEW i \in TaskIds PROVE Own(i)!Init
  OBVIOUS
<1>1. /\ ~Slicing(i) /\ ~Loaded(i)
      /\ final[i] = M!Fresh(toLoad[i]) /\ toLoad[i] \in Programs
  BY DEF Init, Slicing, Loaded
<1>2. /\ PcOf(i) = M!Fresh(toLoad[i]).pc /\ FramesOf(i) = M!Fresh(toLoad[i]).frames
      /\ AwaitingOf(i) = M!Fresh(toLoad[i]).awaiting
      /\ OutputOf(i) = <<>> /\ StepOf(i) = "idle" /\ HandedOf(i) = Nil
  BY <1>1 DEF PcOf, FramesOf, AwaitingOf, OutputOf, StepOf, HandedOf, Kept, IsParked, Said
<1>3. Own(i)!Fresh(toLoad[i]) = M!Fresh(toLoad[i])
  BY DEF M!Fresh, Own!Fresh, M!NewFrame, Own!NewFrame, M!MaxOf, Own!MaxOf, M!Nil,
         Own!Nil, M!None, Own!None
<1>4. Own(i)!Fresh(toLoad[i]) \in Own(i)!Starts(toLoad[i])
  BY DEF Own!Starts
<1>5. Own(i)!Nil = Nil /\ globals = [s \in Slots |-> Nil]
  BY DEF Own!Nil, Nil, Init
<1> QED BY <1>1, <1>2, <1>3, <1>4, <1>5 DEF Own!Init

\* Task i's own machine is left alone.
Still(i) ==
    UNCHANGED <<toLoad, PcOf(i), FramesOf(i), AwaitingOf(i), OutputOf(i), StepOf(i),
                HandedOf(i)>>

LEMMA StillIsStutter ==
    ASSUME NEW i \in TaskIds, Still(i), globals' = globals
    PROVE  UNCHANGED Own(i)!vars
BY DEF Still, Own!vars

\* A task whose record, turn and last machine are the same, and that is not
\* in hand.
LEMMA NotInHand ==
    ASSUME NEW i \in TaskIds, ~Slicing(i), ~Slicing(i)', toLoad' = toLoad,
           Loaded(i)' = Loaded(i), Loaded(i) => tasks'[i] = tasks[i], final'[i] = final[i]
    PROVE  Still(i)
BY DEF Still, PcOf, FramesOf, AwaitingOf, OutputOf, StepOf, HandedOf, Kept, IsParked, Said,
       Loaded

\* The task in hand is as its machine is.
LEMMA InHandAlike ==
    ASSUME NEW i \in TaskIds, Slicing(i), program = toLoad[i], TasksConsistent, InHand
    PROVE  Alike(i) /\ OutputOf(i) = Said(i) \o output
<1>1. ~IsParked(i) /\ ~(Loaded(i) /\ tasks[i].done) /\ ~(Loaded(i) /\ tasks[i].failed)
  BY DEF TasksConsistent, InHand, Slicing, Finished, IsParked, Loaded
<1> QED BY <1>1 DEF Alike, PcOf, FramesOf, AwaitingOf, StepOf, HandedOf, OutputOf

\* What the machine in hand does to the globals, others see as another thread's.
LEMMA OthersSeeStores ==
    ASSUME MP!IInv, M!Resume \/ M!Exec, Value \subseteq Foreign
    PROVE  \/ globals' = globals
           \/ \E s \in Slots, v \in Foreign : globals' = [globals EXCEPT ![s] = v]
<1>1. CASE M!StoreGlobal
  <2>1. MP!StoreGlobal /\ MP!Executing({"StoreGlobal"})
    BY <1>1 DEF M!StoreGlobal, MP!StoreGlobal, M!Executing, MP!Executing, M!Instr,
                MP!Instr, M!Code, MP!Code, M!Next1, MP!Next1, M!Stop, MP!Stop, M!Reg,
                MP!Reg, M!Top, MP!Top
  <2>2. MP!Instr.a \in MP!Registers(MP!Top)
    <3>1. step = "running" /\ pc < Len(MP!Code) /\ MP!Instr.op = "StoreGlobal"
      BY <2>1 DEF MP!Executing
    <3>2. MP!Touches(MP!Instr) \subseteq MP!Registers(MP!Top)
      BY <3>1, SameAssumptions, TextAssumption, MP!AtInstr
    <3> QED BY <3>1, <3>2 DEF MP!Touches, MP!WithA
  <2>3. MP!Reg(MP!Instr.a) \in MP!Value
    BY <2>2, SameAssumptions, TextAssumption, MP!RegIsValue
  <2> QED BY <2>1, <2>3, SameValues DEF MP!StoreGlobal
<1>2. CASE ~M!StoreGlobal
  BY <1>2 DEF M!Resume, M!Exec, M!Compute, M!Jump, M!PrintOp, M!Halt, M!LoadGlobal,
              M!Call, M!Return, M!Await, M!ExtGoesOn, M!ExtSuspends, M!ExtStops,
              M!FallOffEnd
<1> QED BY <1>1, <1>2

LEMMA OwnRunMachine ==
    ASSUME HInv, HInv', RunMachine, Value \subseteq Foreign, NEW i \in TaskIds
    PROVE  [Own(i)!Next]_(Own(i)!vars)
<1>1. /\ M!Resume \/ M!Exec
      /\ UNCHANGED <<tasks, host, cur, toLoad, final>> /\ host = "slice"
  BY DEF RunMachine
<1>2. /\ InHand /\ InHand' /\ TasksConsistent /\ MP!IInv /\ MP!IInv' /\ tasks \in Seq(Task)
  BY DEF HInv, TypeOK
<1>3. CASE Slicing(i)
  <2>1. /\ Slicing(i)' /\ program = toLoad[i] /\ program' = toLoad'[i]
        /\ Said(i)' = Said(i) /\ Said(i) \in Seq(Value)
    <3>1. i \in DOMAIN tasks /\ cur = i
      BY <1>1, <1>2, <1>3 DEF InHand, Slicing
    <3>2. tasks[i] \in Task
      BY <1>2, <3>1, ElementOfSeq
    <3> QED BY <1>1, <1>2, <1>3, <3>1, <3>2 DEF InHand, Slicing, Said, Loaded, Task
  <2>2. Alike(i) /\ OutputOf(i) = Said(i) \o output
    BY <1>2, <1>3, <2>1, InHandAlike
  <2>3. Alike(i)' /\ OutputOf(i)' = Said(i) \o output'
    <3>1. /\ ~IsParked(i)' /\ ~(Loaded(i) /\ tasks[i].done)'
          /\ ~(Loaded(i) /\ tasks[i].failed)'
      BY <2>1 DEF HInv, TasksConsistent, InHand, Slicing, Finished, IsParked, Loaded
    <3> QED BY <2>1, <3>1 DEF Alike, PcOf, FramesOf, AwaitingOf, StepOf, HandedOf, OutputOf
  <2>4. Own(i)!Resume \/ Own(i)!Exec
    BY <1>1, <1>2, <2>1, <2>2, <2>3, OwnStep
  <2> QED BY <2>4 DEF Own!Next
<1>4. CASE ~Slicing(i)
  <2>1. Still(i)
    <3>1. ~Slicing(i)' /\ Loaded(i)' = Loaded(i)
      BY <1>1, <1>4 DEF Slicing, Loaded
    <3> QED BY <1>1, <1>4, <3>1, NotInHand
  <2>2. CASE globals' = globals
    BY <2>1, <2>2, StillIsStutter
  <2>3. CASE \E s \in Slots, v \in Foreign : globals' = [globals EXCEPT ![s] = v]
    <3>1. Own(i)!OtherStores
      BY <2>1, <2>3 DEF Own!OtherStores, Still
    <3> QED BY <3>1 DEF Own!Next
  <2> QED BY <1>1, <1>2, <2>2, <2>3, OthersSeeStores
<1> QED BY <1>3, <1>4

LEMMA OwnBeginSlice ==
    ASSUME HInv, HInv', Mapped, NEW k \in TaskIds, BeginSlice(k), NEW i \in TaskIds
    PROVE  [Own(i)!Next]_(Own(i)!vars)
<1>1. /\ host = "pass" /\ host' = "slice" /\ cur = k /\ cur' = k /\ k \in DOMAIN tasks
      /\ UNCHANGED <<globals, toLoad, final>> /\ DOMAIN tasks' = DOMAIN tasks
      /\ program' = tasks[k].program /\ output' = <<>> /\ step' = "idle" /\ handed' = Nil
      /\ ~tasks[k].done /\ ~tasks[k].failed
      /\ \A j \in DOMAIN tasks : j # k => tasks'[j] = tasks[j]
  BY MaxTasksAssumption DEF BeginSlice, Turn, PassedOver, HInv, TypeOK, TaskIds
<1>2. CASE i # k
  <2>1. ~Slicing(i) /\ ~Slicing(i)'
    BY <1>1, <1>2 DEF Slicing
  <2>2. Still(i)
    BY <1>1, <1>2, <2>1, NotInHand DEF Loaded
  <2> QED BY <1>1, <2>2, StillIsStutter
<1>3. CASE i = k
  <2> DEFINE t == tasks[k]
  <2>1. t \in Task /\ t.program = toLoad[k] /\ TasksConsistent
    BY <1>1, ElementOfSeq DEF HInv, TypeOK, ParkedWell
  <2>2. ~Slicing(k) /\ Slicing(k)' /\ Loaded(k) /\ Loaded(k)'
    BY <1>1 DEF Slicing, Loaded
  <2>3. Alike(k)' /\ OutputOf(k)' = Said(k)' \o <<>>
    <3>1. /\ ~IsParked(k)' /\ ~(Loaded(k) /\ tasks[k].done)'
          /\ ~(Loaded(k) /\ tasks[k].failed)'
      BY <2>2 DEF HInv, TasksConsistent, Finished, IsParked, Loaded
    <3>2. program' = toLoad'[k]
      BY <1>1, <2>1
    <3> QED BY <1>1, <2>2, <3>1, <3>2
            DEF Alike, PcOf, FramesOf, AwaitingOf, StepOf, HandedOf, OutputOf
  <2>4. OutputOf(k)' = OutputOf(k)
    <3>1. tasks' = [tasks EXCEPT ![k] = [t EXCEPT !.resume = Absent,
                                                  !.waiting_on = Absent]]
      BY <1>3 DEF BeginSlice
    <3>2. Said(k)' = Said(k) /\ Said(k) \in Seq(Value)
      BY <1>1, <2>1, <2>2, <3>1 DEF Said, Task
    <3> QED BY <2>2, <2>3, <3>2, ConcatEmptySeq DEF OutputOf
  <2>5. PICK m \in Answered(t) : pc' = m.pc /\ frames' = m.frames /\ awaiting' = m.awaiting
    BY DEF BeginSlice
  <2>6. CASE t.resume = Absent
    <3>1. NotBegun(k) /\ ~IsParked(k) /\ t.waiting_on = Absent
      BY <1>1, <2>1, <2>2, <2>6 DEF NotBegun, Finished, IsParked, TasksConsistent
    <3>2. final[k] = M!Fresh(toLoad[k])
      BY <3>1 DEF Mapped
    <3>3. m = M!Fresh(toLoad[k])
      BY <2>1, <2>5, <2>6, <3>1 DEF Answered, Rebuilt
    <3>4. /\ PcOf(k) = m.pc /\ FramesOf(k) = m.frames /\ AwaitingOf(k) = m.awaiting
          /\ StepOf(k) = "idle" /\ HandedOf(k) = Nil
      BY <1>1, <2>2, <3>1, <3>2, <3>3
         DEF PcOf, FramesOf, AwaitingOf, StepOf, HandedOf, Kept, IsParked
    <3>5. Still(k)
      BY <1>1, <2>3, <2>4, <2>5, <3>4 DEF Still, Alike
    <3> QED BY <1>1, <1>3, <3>5, StillIsStutter
  <2>7. CASE t.resume # Absent
    <3>1. /\ IsParked(k) /\ t.waiting_on # Absent /\ Rebuilt(t) = t.resume
          /\ t.resume \in SnapshotType
      BY <1>1, <2>1, <2>2, <2>7 DEF IsParked, TasksConsistent, Rebuilt, Task
    <3>2. /\ PcOf(k) = t.resume.pc /\ FramesOf(k) = t.resume.frames
          /\ AwaitingOf(k) = t.resume.awaiting
          /\ StepOf(k) = "awaiting"
      BY <1>1, <2>2, <3>1
         DEF PcOf, FramesOf, AwaitingOf, StepOf, Kept, IsParked
    <3>3. Own(i)!None = M!None
      BY DEF Own!None, M!None
    <3>4. PICK v \in Answers :
              /\ m.pc = t.resume.pc /\ m.awaiting = M!None
              /\ m.frames = IF t.resume.awaiting = M!None THEN t.resume.frames
                            ELSE [t.resume.frames EXCEPT
                                    ![Len(t.resume.frames)].regs[t.resume.awaiting + 1] = v]
      <4>1. CASE t.resume.awaiting = M!None
        <5>1. m = t.resume
          BY <2>5, <3>1, <4>1 DEF Answered
        <5> QED BY <4>1, <5>1, HostAssumption
      <4>2. CASE t.resume.awaiting # M!None
        <5>1. PICK v \in Answers :
                  m = [t.resume EXCEPT
                          !.frames[Len(t.resume.frames)].regs[t.resume.awaiting + 1] = v,
                          !.awaiting = M!None]
          BY <2>5, <3>1, <4>2 DEF Answered
        <5>2. /\ m.pc = t.resume.pc /\ m.awaiting = M!None
              /\ m.frames = [t.resume.frames EXCEPT
                                ![Len(t.resume.frames)].regs[t.resume.awaiting + 1] = v]
          BY <3>1, <5>1 DEF SnapshotType
        <5> QED BY <4>2, <5>2
      <4> QED BY <4>1, <4>2
    <3>5. /\ PcOf(k)' = PcOf(k) /\ AwaitingOf(k)' = M!None /\ StepOf(k)' = "idle"
          /\ HandedOf(k)' = Nil
          /\ FramesOf(k)' = IF AwaitingOf(k) = M!None THEN FramesOf(k)
                            ELSE [FramesOf(k) EXCEPT
                                    ![Len(FramesOf(k))].regs[AwaitingOf(k) + 1] = v]
      BY <1>1, <2>3, <2>5, <3>2, <3>4 DEF Alike
    <3>6. Own(i)!ResumeWith(v)
      BY <1>1, <1>3, <2>4, <3>2, <3>3, <3>5 DEF Own!ResumeWith, Own!WithReg, Own!Nil, Nil
    <3> QED BY <3>6 DEF Own!Next, Own!Answer
  <2> QED BY <2>6, <2>7
<1> QED BY <1>2, <1>3

LEMMA OwnEndSlice ==
    ASSUME HInv, HInv', Mapped, EndSlice, NEW i \in TaskIds
    PROVE  [Own(i)!Next]_(Own(i)!vars)
<1>1. /\ host = "slice" /\ host' = "pass" /\ cur \in DOMAIN tasks /\ cur \in TaskIds
      /\ UNCHANGED machine /\ toLoad' = toLoad /\ DOMAIN tasks' = DOMAIN tasks
      /\ step \in {"done", "failed", "awaiting"}
      /\ \A j \in DOMAIN tasks : j # cur => tasks'[j] = tasks[j]
      /\ tasks'[cur] = Parked(tasks[cur])
      /\ final' = IF step = "awaiting" THEN final ELSE [final EXCEPT ![cur] = Snapshot]
  BY MaxTasksAssumption DEF EndSlice, HInv, InHand, TypeOK, TaskIds
<1>2. \A j \in TaskIds : ~Slicing(j)'
  BY <1>1 DEF Slicing
<1>3. globals' = globals
  BY <1>1 DEF machine
<1>4. CASE i # cur
  <2>1. ~Slicing(i) /\ Loaded(i)' = Loaded(i) /\ final'[i] = final[i]
    BY <1>1, <1>4 DEF Slicing, Loaded
  <2>2. Still(i)
    BY <1>1, <1>2, <1>4, <2>1, NotInHand DEF Loaded
  <2> QED BY <1>3, <2>2, StillIsStutter
<1>5. CASE i = cur
  <2> DEFINE t == tasks[i]
             new == Parked(t)
  <2>1. /\ Slicing(i) /\ program = toLoad[i] /\ InHand /\ TasksConsistent
        /\ t \in Task /\ t.resume = Absent /\ ~t.done /\ ~t.failed
    BY <1>1, <1>5, ElementOfSeq DEF HInv, TypeOK, InHand, TasksConsistent, Slicing, Finished
  <2>2. Alike(i) /\ OutputOf(i) = t.output \o output
    BY <1>1, <1>5, <2>1, InHandAlike DEF Said, Loaded
  <2>3. /\ Snapshot.pc = pc /\ Snapshot.frames = frames /\ Snapshot.awaiting = awaiting
        /\ Snapshot # Absent
    BY DEF Snapshot, Absent
  <2>4. /\ new.output = t.output \o output
        /\ step = "done" => new.done /\ new.resume = Absent
        /\ step = "failed" => ~new.done /\ new.failed /\ new.resume = Absent
        /\ step = "awaiting" => new.resume = Snapshot /\ new.waiting_on = handed
    BY <1>1, <1>5, <2>1 DEF Parked, Task
  <2> HIDE DEF new
  <2>5. OutputOf(i)' = OutputOf(i)
    BY <1>1, <1>5, <1>2, <2>2, <2>4 DEF OutputOf, Said, Loaded, new
  <2>6. Loaded(i)' /\ tasks'[i] = new
    BY <1>1, <1>5 DEF Loaded, new
  <2>7. CASE step = "awaiting"
    <3>1. IsParked(i)' /\ Kept(i)' = Snapshot
      BY <2>3, <2>4, <2>6, <2>7 DEF IsParked, Kept
    <3>2. /\ PcOf(i)' = pc /\ FramesOf(i)' = frames /\ AwaitingOf(i)' = awaiting
          /\ StepOf(i)' = "awaiting" /\ HandedOf(i)' = handed
      <4>1. ~new.done /\ ~new.failed
        BY <2>1, <2>7 DEF new, Parked, Task
      <4> QED BY <1>1, <1>5, <1>2, <2>3, <2>4, <2>6, <2>7, <3>1, <4>1
              DEF PcOf, FramesOf, AwaitingOf, StepOf, HandedOf
    <3>3. Still(i)
      BY <1>1, <1>5, <2>2, <2>5, <2>7, <3>2 DEF Still, Alike
    <3> QED BY <1>3, <3>3, StillIsStutter
  <2>8. CASE step # "awaiting"
    <3>1. ~IsParked(i)' /\ Kept(i)' = Snapshot
      BY <1>1, <1>5, <2>4, <2>6, <2>8 DEF IsParked, Kept, Mapped
    <3>2. /\ PcOf(i)' = pc /\ FramesOf(i)' = frames /\ AwaitingOf(i)' = awaiting
          /\ HandedOf(i)' = Nil
      BY <1>1, <1>5, <1>2, <2>3, <3>1 DEF PcOf, FramesOf, AwaitingOf, HandedOf
    <3>3. StepOf(i)' = step
      <4>1. step = "done" => ~new.failed
        BY <2>1 DEF new, Parked, Task
      <4> QED BY <1>1, <1>5, <1>2, <2>4, <2>6, <2>8, <3>1, <4>1 DEF StepOf
    <3>4. handed = Nil
      BY <2>8 DEF Mapped
    <3>5. Still(i)
      BY <1>1, <1>5, <2>2, <2>5, <3>2, <3>3, <3>4 DEF Still, Alike
    <3> QED BY <1>3, <3>5, StillIsStutter
  <2> QED BY <2>7, <2>8
<1> QED BY <1>4, <1>5

LEMMA OwnNext ==
    ASSUME HInv, HInv', Mapped, [Next]_vars, Value \subseteq Foreign, NEW i \in TaskIds
    PROVE  [Own(i)!Next]_(Own(i)!vars)
<1>1. DOMAIN tasks = 1..Len(tasks) /\ Len(tasks) \in Nat /\ tasks \in Seq(Task)
  BY DEF HInv, TypeOK
<1>2. CASE UNCHANGED <<machine, tasks, host, cur, toLoad, final>>
  <2>1. Still(i) /\ globals' = globals
    BY <1>2 DEF Still, PcOf, FramesOf, AwaitingOf, OutputOf, StepOf, HandedOf, Kept,
                IsParked, Said, Loaded, Slicing, machine
  <2> QED BY <2>1, StillIsStutter
<1>3. CASE Run \/ EndPass \/ \E k \in TaskIds : SkipTask(k)
  <2>1. /\ UNCHANGED <<machine, tasks, toLoad, final>> /\ globals' = globals
        /\ ~Slicing(i) /\ ~Slicing(i)'
    BY <1>3 DEF Run, EndPass, SkipTask, Turn, Slicing, machine
  <2>2. Still(i)
    BY <2>1, NotInHand DEF Loaded
  <2> QED BY <2>1, <2>2, StillIsStutter
<1>4. CASE Crash
  <2>1. /\ UNCHANGED <<machine, tasks, toLoad, final>>
        /\ Slicing(i)' = Slicing(i)
    BY <1>4 DEF Crash, Slicing
  <2>2. Still(i) /\ globals' = globals
    BY <2>1 DEF Still, PcOf, FramesOf, AwaitingOf, OutputOf, StepOf, HandedOf, Kept,
                IsParked, Said, Loaded, machine
  <2> QED BY <2>2, StillIsStutter
<1>5. CASE Load
  <2>1. /\ UNCHANGED <<machine, toLoad, final>> /\ ~Slicing(i) /\ ~Slicing(i)'
        /\ globals' = globals
    BY <1>5 DEF Load, Slicing, machine
  <2>2. CASE i # Len(tasks) + 1
    <3>1. Loaded(i)' = Loaded(i) /\ (Loaded(i) => tasks'[i] = tasks[i])
      BY <1>1, <1>5, <2>2 DEF Load, Loaded
    <3>2. Still(i)
      BY <2>1, <3>1, NotInHand
    <3> QED BY <2>1, <3>2, StillIsStutter
  <2>3. CASE i = Len(tasks) + 1
    <3>1. /\ ~Loaded(i) /\ Loaded(i)' /\ tasks'[i] = NewTask(toLoad[i])
      BY <1>1, <1>5, <2>3 DEF Load, Loaded
    <3>2. /\ tasks'[i].resume = Absent /\ tasks'[i].output = <<>>
          /\ ~tasks'[i].done /\ ~tasks'[i].failed
      BY <3>1 DEF NewTask
    <3>3. ~IsParked(i) /\ ~IsParked(i)' /\ Kept(i)' = Kept(i) /\ Said(i)' = Said(i)
      BY <2>1, <3>1, <3>2 DEF IsParked, Kept, Said
    <3>4. StepOf(i) = "idle" /\ StepOf(i)' = "idle"
      BY <2>1, <3>1, <3>2, <3>3 DEF StepOf
    <3>5. Still(i)
      BY <2>1, <3>3, <3>4 DEF Still, PcOf, FramesOf, AwaitingOf, OutputOf, HandedOf
    <3> QED BY <2>1, <3>5, StillIsStutter
  <2> QED BY <2>2, <2>3
<1> QED BY <1>2, <1>3, <1>4, <1>5, OwnBeginSlice, OwnRunMachine, OwnEndSlice
        DEF Next, Running, vars

\* Through every suspension, rebuilding and turn of another task, each task
\* is one machine that runs its program once, and the other tasks are to it
\* what other threads are to a machine: they store in the globals.  What
\* others may store is then any value, and not the few values of a run.
THEOREM TasksAreMachines ==
    ASSUME Value \subseteq Foreign
    PROVE  Spec => EachTaskIsOneMachine
<1>1. HInv /\ HInv' /\ Mapped /\ [Next]_vars =>
          \A i \in TaskIds : [Own(i)!Next]_(Own(i)!vars)
  BY OwnNext
<1>2. Spec => [](HInv /\ Mapped)
  BY HInvariance, MappedInit, MappedNext, PTL DEF Spec
<1> QED BY <1>1, <1>2, OwnInit, PTL DEF Spec, EachTaskIsOneMachine
=============================================================================
