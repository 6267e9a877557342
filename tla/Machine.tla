------------------------------ MODULE Machine ------------------------------
(***************************************************************************)
(* One machine of nh-vm running one program (nh-vm/src/machine.rs): the    *)
(* frame stack, calls and returns, the shared globals, suspension and the  *)
(* answer that ends it.                                                    *)
(*                                                                         *)
(* One action is one instruction.  Whoever drives the machine resumes it   *)
(* and answers it; other machines on other threads write globals between   *)
(* any two instructions.  The program is any element of Programs, so the   *)
(* instructions come in whatever order a compiler may have put them.       *)
(***************************************************************************)
EXTENDS Values, Sequences, FiniteSets

CONSTANTS
    Programs,   \* compiled programs
    Slots,      \* global slots of the store
    MAX_DEPTH,  \* frames a call stack may hold
    MAX_REGS,   \* registers a frame may hold: `Reg` is a u16
    ExtValues,  \* values an extension may write or hand out
    Answers,    \* values a driver may answer a suspension with
    Foreign     \* values other threads may store in a global

ASSUME MachineAssumption ==
    /\ MAX_DEPTH \in Nat \ {0}
    /\ MAX_REGS \in Nat \ {0}
    /\ ExtValues \subseteq Value
    /\ Answers \subseteq Value
    /\ Foreign \subseteq Value

None == -1

MaxOf(a, b) == IF a >= b THEN a ELSE b

----------------------------------------------------------------------------
(***************************************************************************)
(* Programs (nh-vm/src/program.rs): code, functions by key, and the        *)
(* registers of the top-level frame.  `room` is not in the program but in  *)
(* the compiler's mind: at least how many registers the frame has whenever *)
(* the machine is at an address.                                           *)
(***************************************************************************)
UnaryOps == {"Move", "Not", "Neg", "BitNot"}
BinaryOps == Arithmetic \cup Comparison
ConditionalJumps == {"JumpIfFalse", "JumpIfTrue"}

WithDst == {"LoadK", "LoadGlobal", "Await", "Call", "Ext"} \cup UnaryOps \cup BinaryOps
WithA == {"Print", "StoreGlobal", "Await", "Return"}
            \cup UnaryOps \cup BinaryOps \cup ConditionalJumps
WithTarget == {"Jump", "Ext"} \cup ConditionalJumps
NeverFallThrough == {"Jump", "Halt", "Return", "ReturnUnit"}
Operations == WithDst \cup WithA \cup WithTarget \cup NeverFallThrough

\* The registers of the top frame that instruction i may reach.
Touches(i) ==
    (IF i.op \in WithDst THEN {i.dst} ELSE {})
        \cup (IF i.op \in WithA THEN {i.a} ELSE {})
        \cup (IF i.op \in BinaryOps THEN {i.b} ELSE {})
        \cup (IF i.op = "Call" THEN i.base .. (i.base + i.argc - 1) ELSE {})
        \cup (IF i.op = "Ext" THEN i.uses ELSE {})

\* The addresses instruction i, at address a, may lead to in its own frame.
Leads(i, a) ==
    (IF i.op \in NeverFallThrough THEN {} ELSE {a + 1})
        \cup (IF i.op \in WithTarget THEN {i.target} ELSE {})

\* What a compiler guarantees of the code it emits: every instruction finds
\* its registers in the frame that runs it.
WellFormed(p) ==
    /\ Len(p.code) \in Nat
    /\ p.frame \in 0..MAX_REGS
    /\ p.room \in [0..Len(p.code) -> 1..MAX_REGS]
    /\ p.room[0] <= MaxOf(p.frame, 1)
    /\ \A name \in DOMAIN p.fns :
          /\ p.fns[name].addr \in 0..Len(p.code)
          /\ p.fns[name].arity \in 0..MAX_REGS
          /\ p.fns[name].frame \in 0..MAX_REGS
          /\ p.room[p.fns[name].addr] <= MaxOf(p.fns[name].frame, 1)
    /\ \A a \in 0..(Len(p.code) - 1) :
          LET i == p.code[a + 1] IN
          /\ i.op \in Operations
          /\ Touches(i) \subseteq 0..(p.room[a] - 1)
          /\ \A t \in Leads(i, a) :
                t \in 0..Len(p.code) /\ p.room[t] <= p.room[a]
          /\ i.op = "LoadK" => i.value \in Value
          /\ i.op = "Call" => i.argc \in 0..MAX_REGS /\ i.base \in Nat
          /\ i.op = "Ext" => i.asks \in BOOLEAN

ASSUME ProgramsAssumption == \A p \in Programs : WellFormed(p)

VARIABLES
    program,   \* the program being run
    pc,        \* address of the next instruction
    frames,    \* one frame per active call, the top one last
    awaiting,  \* register that will take the driver's answer, or None
    output,    \* what has been printed
    globals,   \* the shared store: one atomic cell per slot
    step,      \* why the machine is not running, or "running"
    handed     \* the value handed out while awaiting, Nil otherwise

vars == <<program, pc, frames, awaiting, output, globals, step, handed>>

Stopped == {"done", "failed", "panicked"}
Steps == {"idle", "running", "awaiting"} \cup Stopped

\* The registers of a frame, from 0 on.
Registers(frame) == 0..(Len(frame.regs) - 1)

\* A frame of n registers, all unset.
NewFrame(n, ret_pc, ret_reg, fn_addr) ==
    [regs |-> [k \in 1..n |-> Nil],
     ret_pc |-> ret_pc, ret_reg |-> ret_reg, fn_addr |-> fn_addr]

\* `new`: a machine that has run nothing, at the top of the code.
Fresh(p) ==
    [pc |-> 0, frames |-> <<NewFrame(MaxOf(p.frame, 1), 0, 0, None)>>,
     awaiting |-> None]

\* A slip: the frame is sized for the program.
EnteringProgram(p, name) ==
    [Fresh(p) EXCEPT !.pc = p.fns[name].addr,
                     !.frames[1].fn_addr = p.fns[name].addr]

\* `entering`: a machine that begins in a function, with a frame for it.
Entering(p, name) ==
    LET f == p.fns[name]
    IN [pc |-> f.addr,
        frames |-> <<NewFrame(MaxOf(f.frame, 1), 0, 0, f.addr)>>,
        awaiting |-> None]

Starts(p) == {Fresh(p)} \cup {Entering(p, name) : name \in DOMAIN p.fns}

Init ==
    /\ program \in Programs
    /\ \E m \in Starts(program) :
          pc = m.pc /\ frames = m.frames /\ awaiting = m.awaiting
    /\ output = <<>>
    /\ globals = [s \in Slots |-> Nil]
    /\ step = "idle"
    /\ handed = Nil

----------------------------------------------------------------------------
\* The loop of `resume`.

Code == program.code
Instr == Code[pc + 1]
Executing(ops) == step = "running" /\ pc < Len(Code) /\ Instr.op \in ops

Top == frames[Len(frames)]
Reg(r) == Top.regs[r + 1]
WithReg(r, v) == [frames EXCEPT ![Len(frames)].regs[r + 1] = v]

\* The flows an instruction may end in.
Next1 == pc' = pc + 1 /\ UNCHANGED step
JumpTo(t) == pc' = t /\ UNCHANGED step
Stop(why) == pc' = pc + 1 /\ step' = why

\* A driver calls `resume`.
Resume ==
    /\ step = "idle"
    /\ step' = "running"
    /\ UNCHANGED <<program, pc, frames, awaiting, output, globals, handed>>

\* A slip: off by one, so a program that ends without Halt hangs.
FallOffEndLate ==
    /\ step = "running"
    /\ pc > Len(Code)
    /\ step' = "done"
    /\ UNCHANGED <<program, pc, frames, awaiting, output, globals, handed>>

\* Running off the end of the code ends the program.
FallOffEnd ==
    /\ step = "running"
    /\ pc >= Len(Code)
    /\ step' = "done"
    /\ UNCHANGED <<program, pc, frames, awaiting, output, globals, handed>>

----------------------------------------------------------------------------
\* `exec`: instructions that stay inside the top frame.

Computed(i) ==
    CASE i.op = "LoadK" -> i.value
      [] i.op \in UnaryOps -> Unary(i.op, Reg(i.a))
      [] i.op \in BinaryOps -> Binary(i.op, Reg(i.a), Reg(i.b))

\* A slip: the outcome goes to the destination before it is looked at.
ComputeUnchecked ==
    /\ Executing({"LoadK"} \cup UnaryOps \cup BinaryOps)
    /\ frames' = WithReg(Instr.dst, Computed(Instr))
    /\ CASE Computed(Instr) = Error -> Stop("failed")
         [] Computed(Instr) = Panic -> Stop("panicked")
         [] OTHER -> Next1
    /\ UNCHANGED <<program, awaiting, output, globals, handed>>

\* A slip: the destination is cleared before the operands are checked.
ComputeClearing ==
    /\ Executing({"LoadK"} \cup UnaryOps \cup BinaryOps)
    /\ LET out == Computed(Instr) IN
          \/ /\ out \in Value
             /\ frames' = WithReg(Instr.dst, out)
             /\ Next1
          \/ out = Error /\ Stop("failed") /\ frames' = WithReg(Instr.dst, Nil)
          \/ out = Panic /\ Stop("panicked") /\ UNCHANGED frames
    /\ UNCHANGED <<program, awaiting, output, globals, handed>>

Compute ==
    /\ Executing({"LoadK"} \cup UnaryOps \cup BinaryOps)
    /\ LET out == Computed(Instr) IN
          \/ /\ out \in Value
             /\ frames' = WithReg(Instr.dst, out)
             /\ Next1
          \/ out = Error /\ Stop("failed") /\ UNCHANGED frames
          \/ out = Panic /\ Stop("panicked") /\ UNCHANGED frames
    /\ UNCHANGED <<program, awaiting, output, globals, handed>>

JumpTaken(i) ==
    \/ i.op = "Jump"
    \/ i.op = "JumpIfFalse" /\ ~Truthy(Reg(i.a))
    \/ i.op = "JumpIfTrue" /\ Truthy(Reg(i.a))

Jump ==
    /\ Executing({"Jump"} \cup ConditionalJumps)
    /\ IF JumpTaken(Instr) THEN JumpTo(Instr.target) ELSE Next1
    /\ UNCHANGED <<program, frames, awaiting, output, globals, handed>>

PrintOp ==
    /\ Executing({"Print"})
    /\ output' = Append(output, Reg(Instr.a))
    /\ Next1
    /\ UNCHANGED <<program, frames, awaiting, globals, handed>>

Halt ==
    /\ Executing({"Halt"})
    /\ Stop("done")
    /\ UNCHANGED <<program, frames, awaiting, output, globals, handed>>

----------------------------------------------------------------------------
\* `exec`: the two instructions that reach the shared store, one slot each.
\* The store is a fixed table: a slot it has not got is a native panic.

LoadGlobal ==
    /\ Executing({"LoadGlobal"})
    /\ IF Instr.slot \in Slots
       THEN Next1 /\ frames' = WithReg(Instr.dst, globals[Instr.slot])
       ELSE Stop("panicked") /\ UNCHANGED frames
    /\ UNCHANGED <<program, awaiting, output, globals, handed>>

StoreGlobal ==
    /\ Executing({"StoreGlobal"})
    /\ IF Instr.slot \in Slots
       THEN Next1 /\ globals' = [globals EXCEPT ![Instr.slot] = Reg(Instr.a)]
       ELSE Stop("panicked") /\ UNCHANGED globals
    /\ UNCHANGED <<program, frames, awaiting, output, handed>>

\* Another machine, on another thread, stores in a slot.
OtherStores ==
    /\ \E s \in Slots, v \in Foreign : globals' = [globals EXCEPT ![s] = v]
    /\ UNCHANGED <<program, pc, frames, awaiting, output, step, handed>>

----------------------------------------------------------------------------
\* `exec`: calls.

\* A slip: the stack may grow one frame too far.
CallRefusedLate(i) ==
    \/ i.key \notin DOMAIN program.fns
    \/ program.fns[i.key].arity # i.argc
    \/ Len(frames) > MAX_DEPTH

\* Why a call is refused, in the order the machine looks.
CallRefused(i) ==
    \/ i.key \notin DOMAIN program.fns
    \/ program.fns[i.key].arity # i.argc
    \/ Len(frames) >= MAX_DEPTH

\* The callee's frame: its parameters are the caller's argc registers from
\* base on, and the rest is unset.
CalleeFrame(i) ==
    LET f == program.fns[i.key]
        n == MaxOf(MaxOf(f.frame, i.argc), 1)
    IN [regs |-> [k \in 1..n |-> IF k <= i.argc THEN Reg(i.base + k - 1) ELSE Nil],
        ret_pc |-> pc + 1, ret_reg |-> i.dst, fn_addr |-> f.addr]

Call ==
    /\ Executing({"Call"})
    /\ IF CallRefused(Instr)
       THEN Stop("failed") /\ UNCHANGED frames
       ELSE /\ frames' = Append(frames, CalleeFrame(Instr))
            /\ JumpTo(program.fns[Instr.key].addr)
    /\ UNCHANGED <<program, awaiting, output, globals, handed>>

\* A slip: the value goes to the bottom frame.
ReturnToBottom(v) ==
    IF Len(frames) = 1
    THEN Stop("done") /\ UNCHANGED frames
    ELSE /\ frames' = [SubSeq(frames, 1, Len(frames) - 1)
                          EXCEPT ![1].regs[Top.ret_reg + 1] = v]
         /\ JumpTo(Top.ret_pc)

\* `ret`: from the bottom frame the program ends; otherwise the caller's
\* register takes the value and the caller goes on after its call.
ReturnValue(v) ==
    LET caller == Len(frames) - 1 IN
    IF Len(frames) = 1
    THEN Stop("done") /\ UNCHANGED frames
    ELSE /\ frames' = [SubSeq(frames, 1, caller)
                          EXCEPT ![caller].regs[Top.ret_reg + 1] = v]
         /\ JumpTo(Top.ret_pc)

Return ==
    /\ Executing({"Return", "ReturnUnit"})
    /\ ReturnValue(IF Instr.op = "Return" THEN Reg(Instr.a) ELSE Nil)
    /\ UNCHANGED <<program, awaiting, output, globals, handed>>

----------------------------------------------------------------------------
\* `exec`: suspension, and a language's own instructions.

\* Stop and hand v out, with the answer to go to reg, or nowhere.
Suspend(v, reg) ==
    /\ Stop("awaiting")
    /\ handed' = v
    /\ awaiting' = reg

Await ==
    /\ Executing({"Await"})
    /\ Suspend(Reg(Instr.a), Instr.dst)
    /\ UNCHANGED <<program, frames, output, globals>>

\* An extension reaches the registers of the top frame (those its operands
\* name), the output, the store, where others may store at any time anyway,
\* and the outcome of the instruction.  It may tell its driver something, or
\* ask: it then names the register with `resume_into` and suspends, as the
\* comment on that function requires.
ExtWrites ==
    /\ \E written \in SUBSET Instr.uses : \E to \in [written -> ExtValues] :
          frames' = [frames EXCEPT ![Len(frames)].regs =
                        [k \in DOMAIN @ |-> IF k - 1 \in written THEN to[k - 1] ELSE @[k]]]
    /\ output' \in {output} \cup {Append(output, v) : v \in ExtValues}

ExtGoesOn ==
    /\ Executing({"Ext"})
    /\ ExtWrites
    /\ Next1 \/ JumpTo(Instr.target)
    /\ UNCHANGED <<program, awaiting, globals, handed>>

ExtSuspends ==
    /\ Executing({"Ext"})
    /\ ExtWrites
    /\ \E v \in ExtValues :
          Suspend(v, IF Instr.asks THEN Instr.dst ELSE awaiting)
    /\ UNCHANGED <<program, globals>>

\* It halts the program, or returns an error, or panics: `catch_unwind`
\* makes the last two the same failure, with the registers as they were left.
ExtStops ==
    /\ Executing({"Ext"})
    /\ ExtWrites
    /\ Stop("done") \/ Stop("failed")
    /\ UNCHANGED <<program, awaiting, globals, handed>>

----------------------------------------------------------------------------
\* A slip: the register that asked is read, and not taken.
ResumeWithoutTaking(v) ==
    /\ step = "awaiting"
    /\ step' = "idle"
    /\ frames' = IF awaiting = None THEN frames ELSE WithReg(awaiting, v)
    /\ handed' = Nil
    /\ UNCHANGED <<program, pc, awaiting, output, globals>>

\* `resume_with`: the answer goes to the register that asked, in the top
\* frame, and is dropped if none did.
ResumeWith(v) ==
    /\ step = "awaiting"
    /\ step' = "idle"
    /\ frames' = IF awaiting = None THEN frames ELSE WithReg(awaiting, v)
    /\ awaiting' = None
    /\ handed' = Nil
    /\ UNCHANGED <<program, pc, output, globals>>

Answer == \E v \in Answers : ResumeWith(v)

Exec ==
    \/ Compute
    \/ Jump
    \/ PrintOp
    \/ Halt
    \/ LoadGlobal
    \/ StoreGlobal
    \/ Call
    \/ Return
    \/ Await
    \/ ExtGoesOn
    \/ ExtSuspends
    \/ ExtStops
    \/ FallOffEnd

Next == Exec \/ Resume \/ Answer \/ OtherStores

Spec == Init /\ [][Next]_vars
FairSpec == Spec /\ WF_vars(Exec)

----------------------------------------------------------------------------
Frame ==
    [regs : Seq(Value), ret_pc : Nat, ret_reg : Nat, fn_addr : Nat \cup {None}]

\* State typing.  There is always a bottom frame.
TypeOK ==
    /\ program \in Programs
    /\ pc \in Nat
    /\ frames \in Seq(Frame) /\ frames # <<>>
    /\ awaiting \in Nat \cup {None}
    /\ output \in Seq(Value)
    /\ globals \in [Slots -> Value]
    /\ step \in Steps
    /\ handed \in Value

\* The stack is the calls in flight: each frame above the bottom runs the
\* function that the instruction before its return address calls, and owes
\* its value to that instruction's register.  "Guard the stack rather than
\* letting infinite recursion take the process down": they are never more
\* than MAX_DEPTH.
StackIsCalls ==
    /\ Len(frames) <= MAX_DEPTH
    /\ \A d \in 2..Len(frames) :
          LET call == Code[frames[d].ret_pc] IN
          /\ frames[d].ret_pc \in 1..Len(Code)
          /\ call.op = "Call" /\ call.key \in DOMAIN program.fns
          /\ call.dst = frames[d].ret_reg
          /\ program.fns[call.key].addr = frames[d].fn_addr

\* No instruction, return or answer reaches a register its frame has not
\* got, wherever calls, returns, jumps and suspensions have led: the
\* compiler sizes each frame once and the machine never checks an index.
NoStrayRegister ==
    /\ step = "running" /\ pc < Len(Code) => Touches(Instr) \subseteq Registers(Top)
    /\ step \notin Stopped =>
          \A d \in 2..Len(frames) : frames[d].ret_reg \in Registers(frames[d - 1])
    /\ awaiting # None => awaiting \in Registers(Top)

\* "Registers belong to one machine and never escape it", nor one call: what
\* a call, its callees, their suspensions and failures do leaves every frame
\* below the running one as it was, until its own callee returns to it.
CallersUntouched ==
    [][\A d \in DOMAIN frames :
          d < Len(frames) /\ d < Len(frames') => frames'[d] = frames[d]]_vars

\* An answer goes where the suspended instruction asked for it and nowhere
\* else.  If it asked for none ("there is nowhere to put the answer then, so
\* it is dropped"), no register changes: not even the one an earlier
\* suspension had asked for.
AnswerGoesToAsker ==
    [][step = "awaiting" /\ step' = "idle" =>
          LET asker == Code[pc] IN
          IF asker.op = "Await" \/ asker.asks
          THEN \E v \in Answers : frames' = WithReg(asker.dst, v)
          ELSE frames' = frames]_vars

\* A program that fails for a reason of its own leaves everything others can
\* see, and its own registers, as they were before the instruction.
FailureIsClean ==
    [][step = "running" /\ step' = "failed" /\ Instr.op # "Ext" =>
          UNCHANGED <<frames, output, globals, awaiting>>]_vars

\* No jump of the program goes back: it has no loops, but may recurse.
NoLoops(p) ==
    \A a \in DOMAIN p.code : p.code[a].op \in WithTarget => p.code[a].target >= a

\* Whoever resumes a machine gets it back, runaway recursion included: a
\* program without loops stops or suspends.
SliceEnds == step = "running" /\ NoLoops(program) ~> step # "running"
=============================================================================
