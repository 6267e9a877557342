--------------------------- MODULE MachineProofs ---------------------------
(***************************************************************************)
(* Proofs about Machine.  The machine checks no register index and no      *)
(* return address; that it needs no check follows from what the compiler   *)
(* guarantees of a program (WellFormed) by one induction over its steps.   *)
(***************************************************************************)
EXTENDS Machine, SequenceTheorems, TLAPS

\* new differs from the stack fs in the registers of its top frame only, and
\* has as many of them.
SameShape(fs, new) ==
    /\ new \in Seq(Frame)
    /\ Len(new) = Len(fs)
    /\ \A d \in 1..Len(fs) :
          /\ new[d].ret_pc = fs[d].ret_pc
          /\ new[d].ret_reg = fs[d].ret_reg
          /\ new[d].fn_addr = fs[d].fn_addr
          /\ Len(new[d].regs) = Len(fs[d].regs)
    /\ \A d \in 1..(Len(fs) - 1) : new[d] = fs[d]

\* Every frame of fs has the registers that the code of p needs where it
\* will go on: the top frame at address a, the others at the address their
\* callee returns to, with the value that it owes.
Fit(p, fs, a) ==
    /\ a \in 0..Len(p.code)
    /\ p.room[a] <= Len(fs[Len(fs)].regs)
    /\ \A d \in 2..Len(fs) :
          /\ fs[d].ret_pc \in 0..Len(p.code)
          /\ p.room[fs[d].ret_pc] <= Len(fs[d - 1].regs)
          /\ fs[d].ret_reg \in Registers(fs[d - 1])

\* The calls that StackIsCalls says the frames of fs are.
CallOf(p, f) ==
    LET call == p.code[f.ret_pc] IN
    /\ f.ret_pc \in 1..Len(p.code)
    /\ call.op = "Call" /\ call.key \in DOMAIN p.fns
    /\ call.dst = f.ret_reg
    /\ p.fns[call.key].addr = f.fn_addr
Chain(p, fs) ==
    /\ Len(fs) <= MAX_DEPTH
    /\ \A d \in 2..Len(fs) : CallOf(p, fs[d])

\* The register waiting for an answer belongs to a suspended top frame.
AwaitingFits ==
    awaiting # None => step = "awaiting" /\ awaiting \in Registers(Top)

\* The inductive invariant.
IInv ==
    /\ TypeOK
    /\ Chain(program, frames)
    /\ step \notin Stopped => Fit(program, frames, pc)
    /\ AwaitingFits

----------------------------------------------------------------------------
\* A function on 1..n is a sequence of n elements.
LEMMA FunctionIsSeq ==
    ASSUME NEW S, NEW n \in Nat, NEW f \in [1..n -> S]
    PROVE  f \in Seq(S) /\ Len(f) = n
OBVIOUS

\* Other registers in the top frame leave the shape of the stack.
LEMMA ReplaceTop ==
    ASSUME NEW fs \in Seq(Frame), fs # <<>>,
           NEW regs \in Seq(Value), Len(regs) = Len(fs[Len(fs)].regs)
    PROVE  SameShape(fs, [fs EXCEPT ![Len(fs)].regs = regs])
<1> DEFINE n == Len(fs)
           top == fs[n]
           newtop == [top EXCEPT !.regs = regs]
           new == [fs EXCEPT ![n] = newtop]
<1>1. n \in Nat /\ n \in 1..n /\ top \in Frame
  BY ElementOfSeq
<1>2. /\ newtop \in Frame
      /\ newtop.ret_pc = top.ret_pc /\ newtop.ret_reg = top.ret_reg
      /\ newtop.fn_addr = top.fn_addr /\ newtop.regs = regs
  BY <1>1 DEF Frame
<1>3. /\ new \in Seq(Frame)
      /\ Len(new) = n
      /\ \A d \in 1..n : new[d] = IF d = n THEN newtop ELSE fs[d]
  <2> HIDE DEF newtop
  <2> QED BY <1>1, <1>2, ExceptSeq
<1>4. [fs EXCEPT ![Len(fs)].regs = regs] = new
  OBVIOUS
<1>5. \A d \in 1..(n - 1) : d \in 1..n /\ d # n
  BY <1>1
<1> HIDE DEF new, newtop
<1> QED BY <1>2, <1>3, <1>4, <1>5 DEF SameShape

\* So does a write to one of its registers.
LEMMA WriteTop ==
    ASSUME NEW fs \in Seq(Frame), fs # <<>>,
           NEW r \in Registers(fs[Len(fs)]), NEW v \in Value
    PROVE  SameShape(fs, [fs EXCEPT ![Len(fs)].regs[r + 1] = v])
<1> DEFINE regs == [fs[Len(fs)].regs EXCEPT ![r + 1] = v]
<1>1. fs[Len(fs)] \in Frame
  BY ElementOfSeq
<1>2. fs[Len(fs)].regs \in Seq(Value) /\ r + 1 \in 1..Len(fs[Len(fs)].regs)
  BY <1>1 DEF Frame, Registers
<1>3. regs \in Seq(Value) /\ Len(regs) = Len(fs[Len(fs)].regs)
  BY <1>2, ExceptSeq
<1>4. [fs EXCEPT ![Len(fs)].regs[r + 1] = v] = [fs EXCEPT ![Len(fs)].regs = regs]
  OBVIOUS
<1> HIDE DEF regs
<1> QED BY <1>3, <1>4, ReplaceTop

\* A stack that fits at one address fits, in any stack of its shape, at one
\* that needs no more registers.
LEMMA ShapeFits ==
    ASSUME NEW p, NEW fs \in Seq(Frame), fs # <<>>, NEW new, SameShape(fs, new),
           NEW a, NEW b \in 0..Len(p.code), Fit(p, fs, a),
           p.room \in [0..Len(p.code) -> 1..MAX_REGS], p.room[b] <= p.room[a]
    PROVE  Fit(p, new, b)
<1>1. Len(fs) \in Nat /\ Len(fs) \in 1..Len(fs) /\ Len(new) = Len(fs)
  BY DEF SameShape
<1>2. ASSUME NEW d \in 1..Len(fs)
      PROVE  Len(fs[d].regs) \in Nat /\ Registers(new[d]) = Registers(fs[d])
  <2>1. fs[d] \in Frame
    BY ElementOfSeq
  <2>2. fs[d].regs \in Seq(Value)
    BY <2>1 DEF Frame
  <2> QED BY <2>2, SMTT(30) DEF SameShape, Registers
<1>3. p.room[a] \in Int /\ p.room[b] \in Int
  <2>1. a \in 0..Len(p.code)
    BY DEF Fit
  <2>2. p.room[a] \in 1..MAX_REGS /\ p.room[b] \in 1..MAX_REGS
    BY <2>1
  <2>3. 1..MAX_REGS \subseteq Int
    BY MachineAssumption
  <2> QED BY <2>2, <2>3
<1>4. p.room[b] <= Len(new[Len(new)].regs)
  BY <1>1, <1>2, <1>3 DEF Fit, SameShape
<1>5. ASSUME NEW d \in 2..Len(new)
      PROVE  /\ new[d].ret_pc \in 0..Len(p.code)
             /\ p.room[new[d].ret_pc] <= Len(new[d - 1].regs)
             /\ new[d].ret_reg \in Registers(new[d - 1])
  <2>1. d \in 1..Len(fs) /\ d - 1 \in 1..Len(fs) /\ d \in 2..Len(fs)
    BY <1>1
  <2> QED BY <2>1, <1>2 DEF Fit, SameShape
<1> QED BY <1>4, <1>5 DEF Fit

\* And it is still the same calls.
LEMMA ShapeChain ==
    ASSUME NEW p, NEW fs \in Seq(Frame), NEW new, SameShape(fs, new), Chain(p, fs)
    PROVE  Chain(p, new)
<1>1. Len(new) = Len(fs) /\ Len(fs) \in Nat
  BY DEF SameShape
<1>2. ASSUME NEW d \in 2..Len(new)
      PROVE  CallOf(p, new[d])
  <2>1. d \in 1..Len(fs) /\ d \in 2..Len(fs)
    BY <1>1
  <2> QED BY <2>1 DEF CallOf, Chain, SameShape
<1> QED BY <1>1, <1>2 DEF Chain

----------------------------------------------------------------------------
\* There is a frame on top, and its registers hold values.
LEMMA TopIsFrame ==
    ASSUME frames \in Seq(Frame), frames # <<>>
    PROVE  /\ Len(frames) \in Nat /\ Len(frames) \in 1..Len(frames)
           /\ Top \in Frame
           /\ Top.regs \in Seq(Value)
<1>1. Len(frames) \in Nat /\ Len(frames) \in 1..Len(frames)
  OBVIOUS
<1>2. Top \in Frame
  BY <1>1, ElementOfSeq DEF Top
<1> QED BY <1>1, <1>2 DEF Frame

\* What WellFormed says of the instruction the machine is at.
LEMMA AtInstr ==
    ASSUME IInv, step = "running", pc < Len(Code)
    PROVE  /\ Len(Code) \in Nat /\ pc \in 0..(Len(Code) - 1)
           /\ program.room \in [0..Len(Code) -> 1..MAX_REGS]
           /\ Instr.op \in Operations
           /\ Touches(Instr) \subseteq Registers(Top)
           /\ \A t \in Leads(Instr, pc) :
                 t \in 0..Len(Code) /\ program.room[t] <= program.room[pc]
           /\ Instr.op = "LoadK" => Instr.value \in Value
           /\ Instr.op = "Call" => Instr.argc \in 0..MAX_REGS /\ Instr.base \in Nat
           /\ Instr.op = "Ext" => Instr.asks \in BOOLEAN
<1>1. WellFormed(program)
  BY ProgramsAssumption DEF IInv, TypeOK
<1>2. Fit(program, frames, pc)
  BY DEF IInv, Stopped
<1>3. Len(Code) \in Nat /\ pc \in 0..(Len(Code) - 1)
  BY <1>1, <1>2 DEF WellFormed, Fit, Code
<1>4. /\ Instr.op \in Operations
      /\ Touches(Instr) \subseteq 0..(program.room[pc] - 1)
      /\ \A t \in Leads(Instr, pc) :
            t \in 0..Len(Code) /\ program.room[t] <= program.room[pc]
      /\ Instr.op = "LoadK" => Instr.value \in Value
      /\ Instr.op = "Call" => Instr.argc \in 0..MAX_REGS /\ Instr.base \in Nat
      /\ Instr.op = "Ext" => Instr.asks \in BOOLEAN
      /\ program.room \in [0..Len(Code) -> 1..MAX_REGS]
  BY <1>1, <1>3 DEF WellFormed, Instr, Code
<1>5. Top.regs \in Seq(Value)
  BY TopIsFrame DEF IInv, TypeOK
<1>6. 0..(program.room[pc] - 1) \subseteq Registers(Top)
  <2>1. program.room[pc] \in 1..MAX_REGS /\ MAX_REGS \in Nat
    BY <1>3, <1>4, MachineAssumption
  <2>2. program.room[pc] <= Len(Top.regs)
    BY <1>2 DEF Fit, Top
  <2> QED BY <2>1, <2>2, <1>5 DEF Registers
<1> QED BY <1>3, <1>4, <1>6

\* The register that an instruction reads holds a value.
LEMMA RegIsValue ==
    ASSUME IInv, NEW r \in Registers(Top)
    PROVE  Reg(r) \in Value
<1>1. Top.regs \in Seq(Value)
  BY TopIsFrame DEF IInv, TypeOK
<1> QED BY <1>1, ElementOfSeq DEF Reg, Registers

\* A step that goes on in the same frame, or stops there, keeps everything
\* that IInv says of the stack.
LEMMA StackKept ==
    ASSUME IInv, step = "running", pc < Len(Code), program' = program,
           SameShape(frames, frames'),
           \/ pc' \in Leads(Instr, pc)
           \/ pc' \in Nat /\ step' \in Stopped
    PROVE  /\ frames' \in Seq(Frame) /\ frames' # <<>>
           /\ pc' \in Nat
           /\ Chain(program, frames)'
           /\ step' \notin Stopped => Fit(program, frames, pc)'
<1>1. /\ frames \in Seq(Frame) /\ frames # <<>> /\ Chain(program, frames)
      /\ Fit(program, frames, pc)
  BY DEF IInv, TypeOK, Stopped
<1>2. Chain(program, frames')
  BY <1>1, ShapeChain
<1>3. /\ Len(Code) \in Nat
      /\ program.room \in [0..Len(Code) -> 1..MAX_REGS]
      /\ \A t \in Leads(Instr, pc) :
            t \in 0..Len(Code) /\ program.room[t] <= program.room[pc]
  BY AtInstr
<1>4. ASSUME pc' \in Leads(Instr, pc)
      PROVE  pc' \in Nat /\ Fit(program, frames', pc')
  <2>1. pc' \in 0..Len(Code) /\ program.room[pc'] <= program.room[pc]
    BY <1>3, <1>4
  <2>2. Fit(program, frames', pc')
    BY <1>1, <1>3, <2>1, ShapeFits DEF Code
  <2> QED BY <1>3, <2>1, <2>2
<1>5. frames' \in Seq(Frame) /\ frames' # <<>>
  BY <1>1 DEF SameShape
<1> QED BY <1>2, <1>4, <1>5 DEF Fit, Chain

\* A step that leaves the frames and the awaited register, and goes on in
\* the same frame or stops.
LEMMA PlainStep ==
    ASSUME IInv, step = "running", pc < Len(Code), program' = program,
           SameShape(frames, frames'), awaiting' = awaiting,
           output' \in Seq(Value), globals' \in [Slots -> Value], handed' = handed,
           \/ pc' \in Leads(Instr, pc) /\ step' = step
           \/ pc' = pc + 1 /\ step' \in Stopped
    PROVE  IInv'
<1>1. pc' \in Leads(Instr, pc) \/ (pc' \in Nat /\ step' \in Stopped)
  BY AtInstr
<1>2. /\ frames' \in Seq(Frame) /\ frames' # <<>> /\ pc' \in Nat
      /\ Chain(program, frames)'
      /\ step' \notin Stopped => Fit(program, frames, pc)'
  BY <1>1, StackKept
<1>3. TypeOK'
  BY <1>2 DEF IInv, TypeOK, Steps
<1>4. AwaitingFits'
  BY DEF IInv, AwaitingFits
<1> QED BY <1>2, <1>3, <1>4 DEF IInv

----------------------------------------------------------------------------
\* A machine starts with a frame that fits the code it starts at.
LEMMA StartFits ==
    ASSUME NEW p \in Programs, NEW m \in Starts(p)
    PROVE  /\ m.frames \in Seq(Frame) /\ Len(m.frames) = 1
           /\ m.pc \in Nat /\ m.awaiting = None
           /\ Fit(p, m.frames, m.pc)
<1>1. WellFormed(p)
  BY ProgramsAssumption
<1>2. ASSUME NEW n \in Nat \ {0}, NEW addr \in Nat \cup {None}
      PROVE  /\ <<NewFrame(n, 0, 0, addr)>> \in Seq(Frame)
             /\ Len(<<NewFrame(n, 0, 0, addr)>>) = 1
             /\ Len(<<NewFrame(n, 0, 0, addr)>>[1].regs) = n
  <2> DEFINE regs == [k \in 1..n |-> Nil]
  <2>1. regs \in Seq(Value) /\ Len(regs) = n
    <3>1. regs \in [1..n -> Value]
      BY DEF Value, Nil
    <3> QED BY <3>1, FunctionIsSeq
  <2>2. NewFrame(n, 0, 0, addr) \in Frame /\ NewFrame(n, 0, 0, addr).regs = regs
    <3> HIDE DEF regs
    <3>1. NewFrame(n, 0, 0, addr) =
             [regs |-> regs, ret_pc |-> 0, ret_reg |-> 0, fn_addr |-> addr]
      BY DEF NewFrame, regs
    <3> QED BY <3>1, <2>1 DEF Frame
  <2> QED BY <2>1, <2>2
<1>3. CASE m = Fresh(p)
  <2> DEFINE n == MaxOf(p.frame, 1)
  <2>1. n \in Nat \ {0} /\ p.room[0] <= n /\ Len(p.code) \in Nat
    BY <1>1, MachineAssumption DEF WellFormed, MaxOf
  <2>2. m.pc = 0 /\ m.frames = <<NewFrame(n, 0, 0, None)>> /\ m.awaiting = None
    BY <1>3 DEF Fresh
  <2> HIDE DEF n
  <2> QED BY <2>1, <2>2, <1>2 DEF Fit, None
<1>4. ASSUME NEW name \in DOMAIN p.fns, m = Entering(p, name)
      PROVE  /\ m.frames \in Seq(Frame) /\ Len(m.frames) = 1
             /\ m.pc \in Nat /\ m.awaiting = None
             /\ Fit(p, m.frames, m.pc)
  <2> DEFINE n == MaxOf(p.fns[name].frame, 1)
             addr == p.fns[name].addr
  <2>1. /\ n \in Nat \ {0} /\ addr \in 0..Len(p.code) /\ p.room[addr] <= n
        /\ Len(p.code) \in Nat
    BY <1>1, MachineAssumption DEF WellFormed, MaxOf
  <2>2. m.pc = addr /\ m.frames = <<NewFrame(n, 0, 0, addr)>> /\ m.awaiting = None
    BY <1>4 DEF Entering
  <2> HIDE DEF n, addr
  <2> QED BY <2>1, <2>2, <1>2 DEF Fit
<1> QED BY <1>3, <1>4 DEF Starts

LEMMA IInvInit == Init => IInv
<1> SUFFICES ASSUME Init PROVE IInv
  OBVIOUS
<1>1. /\ frames \in Seq(Frame) /\ Len(frames) = 1 /\ pc \in Nat /\ awaiting = None
      /\ Fit(program, frames, pc)
  BY StartFits DEF Init
<1>2. Nil \in Value
  BY DEF Nil, Value
<1>3. TypeOK
  <2>1. frames # <<>> /\ <<>> \in Seq(Value) /\ [s \in Slots |-> Nil] \in [Slots -> Value]
    BY <1>1, <1>2
  <2> QED BY <1>1, <1>2, <2>1 DEF Init, TypeOK, Steps
<1>4. Chain(program, frames)
  BY <1>1, MachineAssumption DEF Chain
<1> QED BY <1>1, <1>3, <1>4 DEF IInv, AwaitingFits

----------------------------------------------------------------------------
\* Steps inside one frame.

LEMMA SameShapeRefl ==
    ASSUME NEW fs \in Seq(Frame)
    PROVE  SameShape(fs, fs)
BY DEF SameShape

LEMMA WithRegShape ==
    ASSUME IInv, NEW r \in Registers(Top), NEW v \in Value
    PROVE  SameShape(frames, WithReg(r, v))
BY WriteTop DEF IInv, TypeOK, WithReg, Top

LEMMA FallsThrough ==
    ASSUME NEW i, i.op \notin NeverFallThrough, NEW a
    PROVE  a + 1 \in Leads(i, a)
BY DEF Leads

LEMMA StepResume == IInv /\ Resume => IInv'
BY DEF IInv, Resume, TypeOK, Steps, Stopped, Chain, CallOf, Fit, AwaitingFits, None,
       Registers, Top

LEMMA StepFallOffEnd == IInv /\ FallOffEnd => IInv'
BY DEF IInv, FallOffEnd, TypeOK, Steps, Stopped, Chain, CallOf, Fit, AwaitingFits

LEMMA StepOtherStores == IInv /\ OtherStores => IInv'
<1> SUFFICES ASSUME IInv, OtherStores PROVE IInv'
  OBVIOUS
<1>1. globals' \in [Slots -> Value]
  BY MachineAssumption DEF OtherStores, IInv, TypeOK
<1> QED BY <1>1 DEF IInv, OtherStores, TypeOK, Chain, CallOf, Fit, AwaitingFits, Top

LEMMA StepCompute == IInv /\ Compute => IInv'
<1> SUFFICES ASSUME IInv, Compute PROVE IInv'
  OBVIOUS
<1> DEFINE out == Computed(Instr)
<1>1. /\ step = "running" /\ pc < Len(Code)
      /\ Instr.op \in {"LoadK"} \cup UnaryOps \cup BinaryOps
      /\ program' = program /\ awaiting' = awaiting /\ handed' = handed
      /\ output' \in Seq(Value) /\ globals' \in [Slots -> Value]
  BY DEF Compute, Executing, IInv, TypeOK
<1>2. Instr.dst \in Registers(Top)
  BY <1>1, AtInstr DEF Touches, WithDst
<1>3. pc + 1 \in Leads(Instr, pc)
  BY <1>1, FallsThrough DEF UnaryOps, BinaryOps, Arithmetic, Comparison, NeverFallThrough
<1>4. \/ /\ out \in Value /\ frames' = WithReg(Instr.dst, out)
         /\ pc' = pc + 1 /\ step' = step
      \/ frames' = frames /\ pc' = pc + 1 /\ step' \in Stopped
  BY DEF Compute, Next1, Stop, Stopped
<1> HIDE DEF out
<1>5. SameShape(frames, frames')
  BY <1>2, <1>4, WithRegShape, SameShapeRefl DEF IInv, TypeOK
<1> QED BY <1>1, <1>3, <1>4, <1>5, PlainStep

LEMMA StepJump == IInv /\ Jump => IInv'
<1> SUFFICES ASSUME IInv, Jump PROVE IInv'
  OBVIOUS
<1>1. /\ step = "running" /\ pc < Len(Code)
      /\ Instr.op \in {"Jump"} \cup ConditionalJumps
      /\ program' = program /\ awaiting' = awaiting /\ handed' = handed
      /\ output' \in Seq(Value) /\ globals' \in [Slots -> Value]
      /\ SameShape(frames, frames')
  BY SameShapeRefl DEF Jump, Executing, IInv, TypeOK
<1>2. step' = step /\ pc' = IF JumpTaken(Instr) THEN Instr.target ELSE pc + 1
  BY DEF Jump, JumpTo, Next1
<1>3. ~JumpTaken(Instr) => Instr.op # "Jump"
  BY DEF JumpTaken
<1>4. pc' \in Leads(Instr, pc)
  BY <1>1, <1>2, <1>3 DEF Leads, WithTarget, NeverFallThrough, ConditionalJumps
<1> QED BY <1>1, <1>2, <1>4, PlainStep

LEMMA StepPrint == IInv /\ PrintOp => IInv'
<1> SUFFICES ASSUME IInv, PrintOp PROVE IInv'
  OBVIOUS
<1>1. /\ step = "running" /\ pc < Len(Code) /\ Instr.op = "Print"
      /\ program' = program /\ awaiting' = awaiting /\ handed' = handed
      /\ globals' \in [Slots -> Value] /\ SameShape(frames, frames')
      /\ pc' = pc + 1 /\ step' = step /\ output \in Seq(Value)
  BY SameShapeRefl DEF PrintOp, Executing, Next1, IInv, TypeOK
<1>2. Reg(Instr.a) \in Value
  BY <1>1, AtInstr, RegIsValue DEF Touches, WithA
<1>3. output' \in Seq(Value)
  BY <1>1, <1>2 DEF PrintOp
<1>4. pc' \in Leads(Instr, pc)
  BY <1>1, FallsThrough DEF NeverFallThrough
<1> QED BY <1>1, <1>3, <1>4, PlainStep

LEMMA StepHalt == IInv /\ Halt => IInv'
<1> SUFFICES ASSUME IInv, Halt PROVE IInv'
  OBVIOUS
<1> QED BY SameShapeRefl, PlainStep
        DEF Halt, Executing, Stop, Stopped, IInv, TypeOK

LEMMA StepLoadGlobal == IInv /\ LoadGlobal => IInv'
<1> SUFFICES ASSUME IInv, LoadGlobal PROVE IInv'
  OBVIOUS
<1>1. /\ step = "running" /\ pc < Len(Code) /\ Instr.op = "LoadGlobal"
      /\ program' = program /\ awaiting' = awaiting /\ handed' = handed
      /\ output' \in Seq(Value) /\ globals' \in [Slots -> Value]
  BY DEF LoadGlobal, Executing, IInv, TypeOK
<1>2. Instr.dst \in Registers(Top)
  BY <1>1, AtInstr DEF Touches, WithDst
<1>3. pc + 1 \in Leads(Instr, pc)
  BY <1>1, FallsThrough DEF NeverFallThrough
<1>4. CASE Instr.slot \in Slots
  <2>1. globals[Instr.slot] \in Value
    BY <1>4 DEF IInv, TypeOK
  <2>2. frames' = WithReg(Instr.dst, globals[Instr.slot]) /\ pc' = pc + 1 /\ step' = step
    BY <1>4 DEF LoadGlobal, Next1
  <2> QED BY <1>1, <1>2, <1>3, <2>1, <2>2, WithRegShape, PlainStep
<1>5. CASE Instr.slot \notin Slots
  <2>1. frames' = frames /\ pc' = pc + 1 /\ step' \in Stopped
    BY <1>5 DEF LoadGlobal, Stop, Stopped
  <2> QED BY <1>1, <2>1, SameShapeRefl, PlainStep DEF IInv, TypeOK
<1> QED BY <1>4, <1>5

LEMMA StepStoreGlobal == IInv /\ StoreGlobal => IInv'
<1> SUFFICES ASSUME IInv, StoreGlobal PROVE IInv'
  OBVIOUS
<1>1. /\ step = "running" /\ pc < Len(Code) /\ Instr.op = "StoreGlobal"
      /\ program' = program /\ awaiting' = awaiting /\ handed' = handed
      /\ output' \in Seq(Value) /\ SameShape(frames, frames')
  BY SameShapeRefl DEF StoreGlobal, Executing, IInv, TypeOK
<1>2. Reg(Instr.a) \in Value
  BY <1>1, AtInstr, RegIsValue DEF Touches, WithA
<1>3. globals' \in [Slots -> Value]
  BY <1>2 DEF StoreGlobal, IInv, TypeOK
<1>4. pc + 1 \in Leads(Instr, pc)
  BY <1>1, FallsThrough DEF NeverFallThrough
<1>5. pc' = pc + 1 /\ (step' = step \/ step' \in Stopped)
  BY DEF StoreGlobal, Next1, Stop, Stopped
<1> QED BY <1>1, <1>3, <1>4, <1>5, PlainStep

----------------------------------------------------------------------------
\* Suspensions, extensions and answers.

\* A step that suspends, into a register of the top frame or nowhere new.
LEMMA SuspendStep ==
    ASSUME IInv, step = "running", pc < Len(Code), program' = program,
           SameShape(frames, frames'), pc' = pc + 1, pc' \in Leads(Instr, pc),
           step' = "awaiting", handed' \in Value,
           output' \in Seq(Value), globals' \in [Slots -> Value],
           awaiting' \in Registers(Top) \/ awaiting' = awaiting
    PROVE  IInv'
<1>1. /\ frames' \in Seq(Frame) /\ frames' # <<>> /\ pc' \in Nat
      /\ Chain(program, frames)'
      /\ step' \notin Stopped => Fit(program, frames, pc)'
  BY StackKept
<1>2. awaiting = None
  BY DEF IInv, AwaitingFits
<1>3. Registers(Top)' = Registers(Top) /\ Registers(Top) \subseteq Nat
  <2>1. Len(Top.regs) \in Nat
    BY TopIsFrame DEF IInv, TypeOK
  <2>2. Len(Top.regs)' = Len(Top.regs)
    BY TopIsFrame DEF IInv, TypeOK, SameShape, Top
  <2> QED BY <2>1, <2>2 DEF Registers
<1>4. TypeOK'
  BY <1>1, <1>2, <1>3 DEF IInv, TypeOK, Steps
<1>5. AwaitingFits'
  BY <1>2, <1>3 DEF AwaitingFits
<1> QED BY <1>1, <1>4, <1>5 DEF IInv

LEMMA StepAwait == IInv /\ Await => IInv'
<1> SUFFICES ASSUME IInv, Await PROVE IInv'
  OBVIOUS
<1>1. /\ step = "running" /\ pc < Len(Code) /\ Instr.op = "Await"
      /\ program' = program /\ pc' = pc + 1 /\ step' = "awaiting"
      /\ handed' = Reg(Instr.a) /\ awaiting' = Instr.dst
      /\ output' \in Seq(Value) /\ globals' \in [Slots -> Value]
      /\ SameShape(frames, frames')
  BY SameShapeRefl DEF Await, Suspend, Stop, Executing, IInv, TypeOK
<1>2. Instr.dst \in Registers(Top) /\ Instr.a \in Registers(Top)
  BY <1>1, AtInstr DEF Touches, WithA, WithDst
<1>3. pc' \in Leads(Instr, pc)
  BY <1>1, FallsThrough DEF NeverFallThrough
<1> QED BY <1>1, <1>2, <1>3, RegIsValue, SuspendStep

\* What an extension may write keeps the stack's shape.
LEMMA ExtShape ==
    ASSUME IInv, step = "running", pc < Len(Code), Instr.op = "Ext", ExtWrites
    PROVE  SameShape(frames, frames') /\ output' \in Seq(Value)
<1>1. PICK written \in SUBSET Instr.uses : \E to \in [written -> ExtValues] :
          frames' = [frames EXCEPT ![Len(frames)].regs =
                        [k \in DOMAIN @ |-> IF k - 1 \in written THEN to[k - 1] ELSE @[k]]]
  BY DEF ExtWrites
<1>2. PICK to \in [written -> ExtValues] :
          frames' = [frames EXCEPT ![Len(frames)].regs =
                        [k \in DOMAIN @ |-> IF k - 1 \in written THEN to[k - 1] ELSE @[k]]]
  BY <1>1
<1> DEFINE old == frames[Len(frames)].regs
           new == [k \in DOMAIN old |-> IF k - 1 \in written THEN to[k - 1] ELSE old[k]]
<1>3. old \in Seq(Value) /\ Len(old) \in Nat /\ DOMAIN old = 1..Len(old)
  BY TopIsFrame DEF IInv, TypeOK, Top
<1>4. new \in [1..Len(old) -> Value]
  BY <1>3, MachineAssumption
<1>5. new \in Seq(Value) /\ Len(new) = Len(old)
  BY <1>3, <1>4, FunctionIsSeq
<1>6. frames' = [frames EXCEPT ![Len(frames)].regs = new]
  BY <1>2
<1>7. SameShape(frames, frames')
  <2> HIDE DEF new
  <2> QED BY <1>5, <1>6, ReplaceTop DEF IInv, TypeOK
<1>8. output' \in Seq(Value)
  BY MachineAssumption, SMTT(30) DEF ExtWrites, IInv, TypeOK
<1> QED BY <1>7, <1>8

LEMMA StepExtGoesOn == IInv /\ ExtGoesOn => IInv'
<1> SUFFICES ASSUME IInv, ExtGoesOn PROVE IInv'
  OBVIOUS
<1>1. /\ step = "running" /\ pc < Len(Code) /\ Instr.op = "Ext" /\ ExtWrites
      /\ program' = program /\ awaiting' = awaiting /\ handed' = handed
      /\ globals' \in [Slots -> Value]
      /\ pc' \in {pc + 1, Instr.target} /\ step' = step
  BY DEF ExtGoesOn, Executing, Next1, JumpTo, IInv, TypeOK
<1>2. pc' \in Leads(Instr, pc)
  BY <1>1 DEF Leads, NeverFallThrough, WithTarget
<1> QED BY <1>1, <1>2, ExtShape, PlainStep

LEMMA StepExtSuspends == IInv /\ ExtSuspends => IInv'
<1> SUFFICES ASSUME IInv, ExtSuspends PROVE IInv'
  OBVIOUS
<1>1. /\ step = "running" /\ pc < Len(Code) /\ Instr.op = "Ext" /\ ExtWrites
      /\ program' = program /\ pc' = pc + 1 /\ step' = "awaiting"
      /\ handed' \in ExtValues
      /\ globals' \in [Slots -> Value]
      /\ awaiting' = IF Instr.asks THEN Instr.dst ELSE awaiting
  BY DEF ExtSuspends, Suspend, Stop, Executing, IInv, TypeOK
<1>2. Instr.dst \in Registers(Top)
  BY <1>1, AtInstr DEF Touches, WithDst
<1>3. pc' \in Leads(Instr, pc)
  BY <1>1, FallsThrough DEF NeverFallThrough
<1> QED BY <1>1, <1>2, <1>3, ExtShape, SuspendStep, MachineAssumption

LEMMA StepExtStops == IInv /\ ExtStops => IInv'
<1> SUFFICES ASSUME IInv, ExtStops PROVE IInv'
  OBVIOUS
<1>1. /\ step = "running" /\ pc < Len(Code) /\ Instr.op = "Ext" /\ ExtWrites
      /\ program' = program /\ awaiting' = awaiting /\ handed' = handed
      /\ globals' \in [Slots -> Value]
      /\ pc' = pc + 1 /\ step' \in Stopped
  BY DEF ExtStops, Executing, Stop, Stopped, IInv, TypeOK
<1> QED BY <1>1, ExtShape, PlainStep

LEMMA StepResumeWith ==
    ASSUME IInv, NEW v \in Answers, ResumeWith(v)
    PROVE  IInv'
<1>1. /\ program' = program /\ pc' = pc /\ awaiting' = None /\ step' = "idle"
      /\ handed' = Nil /\ output' = output /\ globals' = globals
      /\ step = "awaiting"
  BY DEF ResumeWith
<1>2. SameShape(frames, frames')
  <2>1. CASE awaiting = None
    BY <2>1, SameShapeRefl DEF ResumeWith, IInv, TypeOK
  <2>2. CASE awaiting # None
    <3>1. awaiting \in Registers(Top) /\ frames' = WithReg(awaiting, v)
      BY <2>2 DEF IInv, AwaitingFits, ResumeWith
    <3> QED BY <3>1, WithRegShape, MachineAssumption
  <2> QED BY <2>1, <2>2
<1>3. /\ frames \in Seq(Frame) /\ frames # <<>> /\ Chain(program, frames)
      /\ Fit(program, frames, pc)
  BY <1>1 DEF IInv, TypeOK, Stopped
<1>4. frames' \in Seq(Frame) /\ frames' # <<>>
  BY <1>2, <1>3 DEF SameShape
<1>5. Chain(program, frames')
  BY <1>2, <1>3, ShapeChain
<1>6. Fit(program, frames', pc)
  <2>1. WellFormed(program)
    BY ProgramsAssumption DEF IInv, TypeOK
  <2>2. /\ program.room \in [0..Len(Code) -> 1..MAX_REGS] /\ Len(Code) \in Nat
        /\ pc \in 0..Len(Code)
    BY <1>3, <2>1 DEF WellFormed, Fit, Code
  <2>3. program.room[pc] <= program.room[pc]
    BY <2>2, MachineAssumption
  <2> QED BY <1>2, <1>3, <2>2, <2>3, ShapeFits DEF Code
<1>7. TypeOK'
  BY <1>1, <1>4 DEF IInv, TypeOK, Steps, Value, Nil
<1> QED BY <1>1, <1>5, <1>6, <1>7 DEF IInv, AwaitingFits

----------------------------------------------------------------------------
\* Calls and returns.

LEMMA StepCall == IInv /\ Call => IInv'
<1> SUFFICES ASSUME IInv, Call PROVE IInv'
  OBVIOUS
<1> DEFINE f == program.fns[Instr.key]
           n == MaxOf(MaxOf(f.frame, Instr.argc), 1)
           regs == [k \in 1..n |->
                       IF k <= Instr.argc THEN Reg(Instr.base + k - 1) ELSE Nil]
           callee == [regs |-> regs, ret_pc |-> pc + 1, ret_reg |-> Instr.dst,
                      fn_addr |-> f.addr]
<1>1. /\ step = "running" /\ pc < Len(Code) /\ Instr.op = "Call"
      /\ program' = program /\ awaiting' = awaiting /\ handed' = handed
      /\ output' \in Seq(Value) /\ globals' \in [Slots -> Value]
      /\ frames \in Seq(Frame) /\ frames # <<>>
  BY DEF Call, Executing, IInv, TypeOK
<1>2. CASE CallRefused(Instr)
  <2>1. frames' = frames /\ pc' = pc + 1 /\ step' \in Stopped
    BY <1>2 DEF Call, Stop, Stopped
  <2> QED BY <1>1, <2>1, SameShapeRefl, PlainStep
<1>3. CASE ~CallRefused(Instr)
  <2>1. /\ frames' = Append(frames, callee)
        /\ pc' = f.addr /\ step' = step
    BY <1>3 DEF Call, JumpTo, CalleeFrame
  <2>2. /\ Instr.key \in DOMAIN program.fns /\ f.arity = Instr.argc
        /\ Len(frames) < MAX_DEPTH
    BY <1>3, TopIsFrame, MachineAssumption DEF CallRefused, IInv, TypeOK
  <2>3. WellFormed(program)
    BY ProgramsAssumption DEF IInv, TypeOK
  <2>4. /\ f.addr \in 0..Len(Code) /\ f.frame \in 0..MAX_REGS
        /\ program.room[f.addr] <= MaxOf(f.frame, 1)
    BY <2>2, <2>3 DEF WellFormed, Code
  <2>5. /\ Len(Code) \in Nat /\ pc \in 0..(Len(Code) - 1)
        /\ program.room \in [0..Len(Code) -> 1..MAX_REGS]
        /\ Instr.argc \in 0..MAX_REGS /\ Instr.base \in Nat
        /\ Touches(Instr) \subseteq Registers(Top)
        /\ \A t \in Leads(Instr, pc) :
              t \in 0..Len(Code) /\ program.room[t] <= program.room[pc]
    BY <1>1, AtInstr
  <2>6. /\ n \in Nat \ {0} /\ Instr.argc \in Nat
        /\ MaxOf(f.frame, 1) \in Nat /\ MaxOf(f.frame, 1) <= n
    BY <2>4, <2>5, MachineAssumption DEF MaxOf
  <2>7. \A k \in 1..n : k <= Instr.argc => Reg(Instr.base + k - 1) \in Value
    <3> SUFFICES ASSUME NEW k \in 1..n, k <= Instr.argc
                 PROVE  Instr.base + k - 1 \in Registers(Top)
      BY RegIsValue
    <3>1. Instr.base + k - 1 \in Instr.base .. (Instr.base + Instr.argc - 1)
      BY <2>5, <2>6, SMTT(30)
    <3> QED BY <1>1, <2>5, <3>1 DEF Touches
  <2>8. regs \in Seq(Value) /\ Len(regs) = n
    <3>1. regs \in [1..n -> Value]
      BY <2>7 DEF Value, Nil
    <3> HIDE DEF regs, n
    <3> QED BY <2>6, <3>1, FunctionIsSeq
  <2>9. Instr.dst \in Registers(Top) /\ Instr.dst \in Nat
    <3>1. Len(Top.regs) \in Nat
      BY <1>1, TopIsFrame
    <3> QED BY <1>1, <2>5, <3>1 DEF Touches, WithDst, Registers
  <2> HIDE DEF regs, n
  <2>10. /\ callee \in Frame /\ callee.ret_pc = pc + 1 /\ callee.ret_reg = Instr.dst
         /\ callee.fn_addr = f.addr /\ Len(callee.regs) = n
    <3>1. pc + 1 \in Nat /\ f.addr \in Nat
      BY <2>4, <2>5
    <3> QED BY <2>8, <2>9, <3>1 DEF Frame
  <2> HIDE DEF callee
  <2>11. /\ Len(frames) \in Nat /\ Len(frames) \in 1..Len(frames)
         /\ frames' \in Seq(Frame) /\ Len(frames') = Len(frames) + 1
         /\ frames'[Len(frames) + 1] = callee
         /\ \A d \in 1..Len(frames) : frames'[d] = frames[d]
    BY <1>1, <2>1, <2>10
  <2>12. Chain(program, frames')
    <3>1. CallOf(program, callee)
      BY <1>1, <2>2, <2>5, <2>10 DEF CallOf, Instr, Code
    <3>2. ASSUME NEW d \in 2..Len(frames')
          PROVE  CallOf(program, frames'[d])
      <4>1. CASE d = Len(frames) + 1
        BY <2>11, <3>1, <4>1
      <4>2. CASE d # Len(frames) + 1
        <5>1. d \in 2..Len(frames) /\ d \in 1..Len(frames)
          BY <2>11, <4>2
        <5> QED BY <2>11, <5>1 DEF IInv, Chain
      <4> QED BY <4>1, <4>2
    <3> QED BY <2>2, <2>11, <3>2, MachineAssumption DEF Chain
  <2>13. Fit(program, frames, pc)
    BY <1>1 DEF IInv, Stopped
  <2>14. Fit(program, frames', f.addr)
    <3>1. program.room[f.addr] <= Len(frames'[Len(frames')].regs)
      <4>1. program.room[f.addr] \in 1..MAX_REGS
        BY <2>4, <2>5
      <4> QED BY <2>4, <2>6, <2>10, <2>11, <4>1, MachineAssumption
    <3>2. ASSUME NEW d \in 2..Len(frames')
          PROVE  /\ frames'[d].ret_pc \in 0..Len(Code)
                 /\ program.room[frames'[d].ret_pc] <= Len(frames'[d - 1].regs)
                 /\ frames'[d].ret_reg \in Registers(frames'[d - 1])
      <4>1. CASE d = Len(frames) + 1
        <5>1. frames'[d] = callee /\ frames'[d - 1] = Top
          BY <2>11, <4>1 DEF Top
        <5>2. pc + 1 \in 0..Len(Code) /\ program.room[pc + 1] <= program.room[pc]
          BY <1>1, <2>5, FallsThrough DEF NeverFallThrough
        <5>3. program.room[pc] <= Len(Top.regs) /\ Len(Top.regs) \in Nat
          BY <1>1, <2>13, TopIsFrame DEF Fit, Top
        <5>4. program.room[pc + 1] \in 1..MAX_REGS /\ program.room[pc] \in 1..MAX_REGS
          <6>1. pc \in 0..Len(Code)
            BY <2>5
          <6> QED BY <2>5, <5>2, <6>1
        <5>5. program.room[pc + 1] <= Len(Top.regs)
          BY <5>2, <5>3, <5>4, MachineAssumption
        <5> QED BY <2>9, <2>10, <5>1, <5>2, <5>5
      <4>2. CASE d # Len(frames) + 1
        <5>1. d \in 2..Len(frames) /\ d \in 1..Len(frames) /\ d - 1 \in 1..Len(frames)
          BY <2>11, <4>2
        <5> QED BY <2>11, <2>13, <5>1 DEF Fit, Code
      <4> QED BY <4>1, <4>2
    <3> QED BY <2>4, <3>1, <3>2 DEF Fit, Code
  <2>15. TypeOK'
    BY <1>1, <2>1, <2>4, <2>5, <2>11, SMTT(30) DEF IInv, TypeOK
  <2>16. AwaitingFits'
    BY <1>1 DEF IInv, AwaitingFits
  <2> QED BY <1>1, <2>1, <2>12, <2>14, <2>15, <2>16 DEF IInv
<1> QED BY <1>2, <1>3

\* The frames below the running one, which a return leaves.
Below == SubSeq(frames, 1, Len(frames) - 1)

LEMMA BelowIsStack ==
    ASSUME frames \in Seq(Frame), frames # <<>>, Len(frames) # 1
    PROVE  /\ Len(frames) \in 2..Len(frames)
           /\ Below \in Seq(Frame) /\ Below # <<>>
           /\ Len(Below) = Len(frames) - 1
           /\ Len(Below) \in Nat /\ Len(Below) \in 1..Len(frames)
           /\ \A d \in 1..Len(Below) : Below[d] = frames[d]
<1> DEFINE caller == Len(frames) - 1
<1>1. /\ Len(frames) \in Nat /\ Len(frames) \in 2..Len(frames)
      /\ caller \in Nat \ {0} /\ caller \in 1..Len(frames)
  <2>1. Len(frames) \in Nat /\ Len(frames) \in 1..Len(frames)
    BY TopIsFrame
  <2>2. \A m \in Nat : m \in 1..m /\ m # 1 =>
           m \in 2..m /\ m - 1 \in Nat \ {0} /\ m - 1 \in 1..m
    OBVIOUS
  <2> QED BY <2>1, <2>2
<1>2. \A d \in 1..caller : frames[d] \in Frame
  BY <1>1, ElementOfSeq
<1>3. caller \in Int /\ 1 <= caller /\ caller - 1 + 1 = caller
  BY <1>1
<1> HIDE DEF caller
<1>4. /\ SubSeq(frames, 1, caller) \in Seq(Frame)
      /\ Len(SubSeq(frames, 1, caller)) = caller - 1 + 1
      /\ \A d \in 1..(caller - 1 + 1) : SubSeq(frames, 1, caller)[d] = frames[1 + d - 1]
  BY <1>2, <1>3, SubSeqProperties
<1>5. \A d \in 1..caller : 1 + d - 1 = d
  BY <1>3
<1>6. Below = SubSeq(frames, 1, caller)
  BY DEF Below, caller
<1>7. Len(Below) = caller /\ \A d \in 1..caller : Below[d] = frames[d]
  BY <1>3, <1>4, <1>5, <1>6
<1>8. Below # <<>>
  BY <1>3, <1>7
<1> QED BY <1>1, <1>4, <1>6, <1>7, <1>8 DEF caller

\* A return that is not the program's end goes where the popped frame says,
\* and leaves the frames below with the value in the register it says.
LEMMA Popped ==
    ASSUME IInv, Return, Len(frames) # 1
    PROVE  /\ SameShape(Below, frames')
           /\ pc' = Top.ret_pc /\ step' = step
           /\ Top.ret_pc \in 0..Len(Code)
           /\ program.room[Top.ret_pc] <= Len(Below[Len(Below)].regs)
<1> DEFINE v == IF Instr.op = "Return" THEN Reg(Instr.a) ELSE Nil
<1>1. /\ step = "running" /\ pc < Len(Code) /\ Instr.op \in {"Return", "ReturnUnit"}
      /\ frames \in Seq(Frame) /\ frames # <<>>
      /\ ReturnValue(v) /\ Fit(program, frames, pc)
  BY DEF Return, Executing, IInv, TypeOK, Stopped
<1>2. v \in Value
  BY <1>1, AtInstr, RegIsValue DEF Touches, WithA, Value, Nil
<1> HIDE DEF v
<1>3. /\ Top.ret_pc \in 0..Len(Code)
      /\ Top.ret_reg \in Registers(Below[Len(Below)])
      /\ program.room[Top.ret_pc] <= Len(Below[Len(Below)].regs)
  <2>1. Below[Len(Below)] = frames[Len(frames) - 1]
    BY <1>1, BelowIsStack
  <2>2. Len(frames) \in 2..Len(frames)
    BY <1>1, BelowIsStack
  <2> QED BY <1>1, <2>1, <2>2 DEF Fit, Top, Code
<1>4. /\ frames' = [Below EXCEPT ![Len(Below)].regs[Top.ret_reg + 1] = v]
      /\ pc' = Top.ret_pc /\ step' = step
  <2>1. Len(Below) = Len(frames) - 1
    BY <1>1, BelowIsStack
  <2>2. /\ frames' = [Below EXCEPT ![Len(frames) - 1].regs[Top.ret_reg + 1] = v]
        /\ pc' = Top.ret_pc /\ step' = step
    BY <1>1 DEF ReturnValue, JumpTo, Below
  <2> HIDE DEF Below
  <2> QED BY <2>1, <2>2
<1>5. Below \in Seq(Frame) /\ Below # <<>>
  BY <1>1, BelowIsStack
<1>6. SameShape(Below, frames')
  BY <1>2, <1>3, <1>4, <1>5, WriteTop
<1> QED BY <1>3, <1>4, <1>6

LEMMA StepReturn == IInv /\ Return => IInv'
<1> SUFFICES ASSUME IInv, Return PROVE IInv'
  OBVIOUS
<1>1. /\ step = "running" /\ pc < Len(Code) /\ Instr.op \in {"Return", "ReturnUnit"}
      /\ program' = program /\ awaiting' = awaiting /\ handed' = handed
      /\ output' \in Seq(Value) /\ globals' \in [Slots -> Value]
      /\ frames \in Seq(Frame) /\ frames # <<>>
      /\ Chain(program, frames) /\ Fit(program, frames, pc)
  BY DEF Return, Executing, IInv, TypeOK, Stopped
<1>2. CASE Len(frames) = 1
  <2>1. frames' = frames /\ pc' = pc + 1 /\ step' \in Stopped
    BY <1>2 DEF Return, ReturnValue, Stop, Stopped
  <2> QED BY <1>1, <2>1, SameShapeRefl, PlainStep
<1>3. CASE Len(frames) # 1
  <2>1. /\ SameShape(Below, frames')
        /\ pc' = Top.ret_pc /\ step' = step
        /\ Top.ret_pc \in 0..Len(Code)
        /\ program.room[Top.ret_pc] <= Len(Below[Len(Below)].regs)
    BY <1>3, Popped
  <2>2. /\ Len(frames) \in 2..Len(frames)
        /\ Below \in Seq(Frame) /\ Below # <<>>
        /\ Len(Below) = Len(frames) - 1
        /\ Len(Below) \in Nat /\ Len(Below) \in 1..Len(frames)
        /\ \A d \in 1..Len(Below) : Below[d] = frames[d]
    BY <1>1, <1>3, BelowIsStack
  <2>3. \A d \in 2..Len(Below) :
           d \in 2..Len(frames) /\ d \in 1..Len(Below) /\ d - 1 \in 1..Len(Below)
    BY <2>2
  <2>4. Chain(program, Below)
    BY <1>1, <2>2, <2>3, MachineAssumption DEF Chain
  <2>5. Fit(program, Below, Top.ret_pc)
    BY <1>1, <2>1, <2>2, <2>3 DEF Fit, Code
  <2>6. program.room \in [0..Len(Code) -> 1..MAX_REGS] /\ Len(Code) \in Nat
    BY <1>1, AtInstr
  <2>7. program.room[Top.ret_pc] <= program.room[Top.ret_pc]
    BY <2>1, <2>6, MachineAssumption
  <2>8. Chain(program, frames') /\ Fit(program, frames', Top.ret_pc)
    BY <2>1, <2>2, <2>4, <2>5, <2>6, <2>7, ShapeChain, ShapeFits DEF Code
  <2>9. frames' \in Seq(Frame) /\ frames' # <<>> /\ pc' \in Nat
    BY <2>1, <2>2, <2>6 DEF SameShape
  <2>10. TypeOK'
    BY <1>1, <2>1, <2>9 DEF IInv, TypeOK
  <2>11. AwaitingFits'
    BY <1>1 DEF IInv, AwaitingFits
  <2> QED BY <1>1, <2>1, <2>8, <2>10, <2>11 DEF IInv
<1> QED BY <1>2, <1>3

----------------------------------------------------------------------------
\* The invariant is inductive.
LEMMA IInvNext == IInv /\ [Next]_vars => IInv'
<1> SUFFICES ASSUME IInv, [Next]_vars PROVE IInv'
  OBVIOUS
<1>1. CASE Exec
  BY <1>1, StepCompute, StepJump, StepPrint, StepHalt, StepLoadGlobal, StepStoreGlobal,
     StepCall, StepReturn, StepAwait, StepExtGoesOn, StepExtSuspends, StepExtStops,
     StepFallOffEnd DEF Exec
<1>2. CASE Resume
  BY <1>2, StepResume
<1>3. CASE Answer
  BY <1>3, StepResumeWith DEF Answer
<1>4. CASE OtherStores
  BY <1>4, StepOtherStores
<1>5. CASE UNCHANGED vars
  BY <1>5 DEF vars, IInv, TypeOK, Chain, CallOf, Fit, AwaitingFits, Top
<1> QED BY <1>1, <1>2, <1>3, <1>4, <1>5 DEF Next

LEMMA Invariance == Spec => []IInv
<1> QED BY IInvInit, IInvNext, PTL DEF Spec

\* Every state of a machine is well typed, for every program that finds its
\* registers in its frames.
THEOREM TypeCorrect == Spec => []TypeOK
<1>1. IInv => TypeOK
  BY DEF IInv
<1> QED BY <1>1, Invariance, PTL

\* The stack is always the calls in flight, and never deeper than MAX_DEPTH.
THEOREM StackCorrect == Spec => []StackIsCalls
<1>1. IInv => StackIsCalls
  BY DEF IInv, Chain, CallOf, StackIsCalls, Code
<1> QED BY <1>1, Invariance, PTL

\* No instruction, return or answer ever reaches a register that its frame
\* has not got: the indexing of registers in the machine cannot panic.
THEOREM RegistersInReach == Spec => []NoStrayRegister
<1>1. IInv => NoStrayRegister
  <2> SUFFICES ASSUME IInv PROVE NoStrayRegister
    OBVIOUS
  <2>1. step = "running" /\ pc < Len(Code) => Touches(Instr) \subseteq Registers(Top)
    BY AtInstr
  <2>2. ASSUME step \notin Stopped, NEW d \in 2..Len(frames)
        PROVE  frames[d].ret_reg \in Registers(frames[d - 1])
    BY <2>2 DEF IInv, Fit
  <2>3. awaiting # None => awaiting \in Registers(Top)
    BY DEF IInv, AwaitingFits
  <2> QED BY <2>1, <2>2, <2>3 DEF NoStrayRegister
<1> QED BY <1>1, Invariance, PTL

----------------------------------------------------------------------------
\* Writing registers of the top frame leaves the frames below it alone.
LEMMA BelowKept ==
    ASSUME frames \in Seq(Frame), SameShape(frames, frames'),
           NEW d \in DOMAIN frames, d < Len(frames)
    PROVE  frames'[d] = frames[d]
<1>1. Len(frames) \in Nat /\ d \in 1..Len(frames)
  BY LenProperties
<1>2. d \in 1..(Len(frames) - 1)
  BY <1>1
<1> QED BY <1>2 DEF SameShape

\* A caller's registers are what they were, until its own callee returns.
THEOREM CallersStayUntouched == Spec => CallersUntouched
<1> DEFINE Kept == \A d \in DOMAIN frames :
                     d < Len(frames) /\ d < Len(frames') => frames'[d] = frames[d]
<1>1. ASSUME IInv, [Next]_vars PROVE Kept
  <2>1. frames \in Seq(Frame) /\ frames # <<>>
    BY <1>1 DEF IInv, TypeOK
  <2>2. ASSUME frames' = frames \/ SameShape(frames, frames') PROVE Kept
    BY <2>1, <2>2, BelowKept
  <2> HIDE DEF Kept
  <2>3. CASE Compute
    <3>1. \/ frames' = frames
          \/ Computed(Instr) \in Value /\ frames' = WithReg(Instr.dst, Computed(Instr))
      BY <2>3 DEF Compute
    <3>2. Instr.dst \in Registers(Top)
      BY <1>1, <2>3, AtInstr DEF Compute, Executing, Touches, WithDst
    <3> QED BY <1>1, <2>2, <3>1, <3>2, WithRegShape
  <2>4. CASE LoadGlobal
    <3>1. \/ frames' = frames
          \/ Instr.slot \in Slots /\ frames' = WithReg(Instr.dst, globals[Instr.slot])
      BY <2>4 DEF LoadGlobal
    <3>2. Instr.dst \in Registers(Top)
      BY <1>1, <2>4, AtInstr DEF LoadGlobal, Executing, Touches, WithDst
    <3>3. Instr.slot \in Slots => globals[Instr.slot] \in Value
      BY <1>1 DEF IInv, TypeOK
    <3> QED BY <1>1, <2>2, <3>1, <3>2, <3>3, WithRegShape
  <2>5. CASE Call
    <3>1. CASE frames' = frames
      BY <2>2, <3>1
    <3>2. CASE frames' = Append(frames, CalleeFrame(Instr))
      <4>1. \A d \in DOMAIN frames : Append(frames, CalleeFrame(Instr))[d] = frames[d]
        BY <2>1
      <4> QED BY <3>2, <4>1 DEF Kept
    <3> QED BY <2>5, <3>1, <3>2 DEF Call
  <2>6. CASE Return
    <3>1. CASE Len(frames) = 1
      BY <2>2, <2>6, <3>1 DEF Return, ReturnValue
    <3>2. CASE Len(frames) # 1
      <4>1. SameShape(Below, frames')
        BY <1>1, <2>6, <3>2, Popped
      <4>2. /\ Len(Below) \in Nat /\ DOMAIN frames = 1..Len(frames)
            /\ \A d \in 1..Len(Below) : Below[d] = frames[d]
        BY <2>1, <3>2, BelowIsStack, LenProperties
      <4>3. ASSUME NEW d \in DOMAIN frames, d < Len(frames')
            PROVE  frames'[d] = frames[d]
        <5>1. d \in 1..Len(Below) /\ d \in 1..(Len(Below) - 1)
          BY <4>1, <4>2, <4>3 DEF SameShape
        <5> QED BY <4>1, <4>2, <5>1 DEF SameShape
      <4> QED BY <4>3 DEF Kept
    <3> QED BY <3>1, <3>2
  <2>7. CASE ExtGoesOn \/ ExtSuspends \/ ExtStops
    BY <1>1, <2>2, <2>7, ExtShape DEF ExtGoesOn, ExtSuspends, ExtStops, Executing
  <2>8. ASSUME NEW v \in Answers, ResumeWith(v) PROVE Kept
    <3>1. CASE awaiting = None
      BY <2>2, <2>8, <3>1 DEF ResumeWith
    <3>2. CASE awaiting # None
      <4>1. awaiting \in Registers(Top) /\ frames' = WithReg(awaiting, v)
        BY <1>1, <2>8, <3>2 DEF IInv, AwaitingFits, ResumeWith
      <4> QED BY <1>1, <2>2, <4>1, WithRegShape, MachineAssumption
    <3> QED BY <3>1, <3>2
  <2>9. CASE \/ Jump \/ PrintOp \/ Halt \/ StoreGlobal \/ Await \/ FallOffEnd
             \/ Resume \/ OtherStores \/ UNCHANGED vars
    BY <2>2, <2>9 DEF Jump, PrintOp, Halt, StoreGlobal, Await, FallOffEnd, Resume,
                      OtherStores, vars
  <2> QED BY <1>1, <2>3, <2>4, <2>5, <2>6, <2>7, <2>8, <2>9 DEF Next, Exec, Answer
<1>2. IInv /\ [Next]_vars => [Kept]_vars
  BY <1>1
<1>3. Spec => [][Kept]_vars
  BY <1>2, Invariance, PTL DEF Spec
<1> QED BY <1>3 DEF CallersUntouched

----------------------------------------------------------------------------
\* A suspended machine is past the instruction that suspended it, and waits
\* for an answer where that instruction asked for it, or nowhere.
AskerKnown ==
    step = "awaiting" =>
        /\ Code[pc].op \in {"Await", "Ext"}
        /\ awaiting = IF Code[pc].op = "Await" \/ Code[pc].asks
                      THEN Code[pc].dst ELSE None
        /\ Code[pc].op = "Await" \/ Code[pc].asks => Code[pc].dst \in Nat

LEMMA DestinationIsNat ==
    ASSUME IInv, step = "running", pc < Len(Code), Instr.op \in WithDst
    PROVE  Instr.dst \in Nat
<1>1. Instr.dst \in Registers(Top)
  BY AtInstr DEF Touches
<1>2. Len(Top.regs) \in Nat
  BY TopIsFrame DEF IInv, TypeOK
<1> QED BY <1>1, <1>2 DEF Registers

LEMMA AskerNext == IInv /\ AskerKnown /\ [Next]_vars => AskerKnown'
<1> SUFFICES ASSUME IInv, AskerKnown, [Next]_vars PROVE AskerKnown'
  OBVIOUS
<1>1. step = "running" => awaiting = None
  BY DEF IInv, AwaitingFits
<1>2. CASE Await
  <2>1. Instr.dst \in Nat
    BY <1>2, DestinationIsNat DEF Await, Executing, WithDst
  <2> QED BY <1>2, <2>1 DEF Await, Suspend, Stop, Executing, Instr, Code, AskerKnown
<1>3. CASE ExtSuspends
  <2>1. /\ Instr.op = "Ext" /\ program' = program /\ pc' = pc + 1
        /\ awaiting' = IF Instr.asks THEN Instr.dst ELSE None
    BY <1>1, <1>3 DEF ExtSuspends, Suspend, Stop, Executing
  <2>2. Instr.dst \in Nat
    BY <1>3, DestinationIsNat DEF ExtSuspends, Executing, WithDst
  <2> QED BY <2>1, <2>2 DEF Instr, Code, AskerKnown
<1>4. CASE step' # "awaiting"
  BY <1>4 DEF AskerKnown
<1>5. CASE OtherStores \/ UNCHANGED vars
  BY <1>5 DEF OtherStores, vars, AskerKnown, Code
<1>6. CASE \/ Compute \/ Jump \/ PrintOp \/ Halt \/ LoadGlobal \/ StoreGlobal \/ Call
           \/ Return \/ ExtGoesOn \/ ExtStops \/ FallOffEnd \/ Resume \/ Answer
  <2>1. step' # "awaiting"
    BY <1>6 DEF Compute, Jump, PrintOp, Halt, LoadGlobal, StoreGlobal, Call, Return,
       ReturnValue, ExtGoesOn, ExtStops, FallOffEnd, Resume, Answer, ResumeWith,
       Executing, Next1, JumpTo, Stop
  <2> QED BY <1>4, <2>1
<1> QED BY <1>2, <1>3, <1>5, <1>6 DEF Next, Exec

LEMMA AskerInvariance == Spec => []AskerKnown
<1>1. Init => AskerKnown
  BY DEF Init, AskerKnown
<1> QED BY <1>1, AskerNext, Invariance, PTL DEF Spec

\* An answer changes the register that asked for it, or nothing.
THEOREM AnswersGoToAskers == Spec => AnswerGoesToAsker
<1> DEFINE Given ==
        step = "awaiting" /\ step' = "idle" =>
          LET asker == Code[pc] IN
          IF asker.op = "Await" \/ asker.asks
          THEN \E v \in Answers : frames' = WithReg(asker.dst, v)
          ELSE frames' = frames
<1>1. ASSUME IInv, AskerKnown, [Next]_vars PROVE Given
  <2> SUFFICES ASSUME step = "awaiting", step' = "idle"
               PROVE  LET asker == Code[pc] IN
                      IF asker.op = "Await" \/ asker.asks
                      THEN \E v \in Answers : frames' = WithReg(asker.dst, v)
                      ELSE frames' = frames
    OBVIOUS
  <2>1. PICK v \in Answers : ResumeWith(v)
    BY <1>1 DEF Next, Exec, Answer, Compute, Jump, PrintOp, Halt, LoadGlobal, StoreGlobal,
       Call, Return, Await, ExtGoesOn, ExtSuspends, ExtStops, FallOffEnd, Executing,
       Resume, OtherStores, vars
  <2>2. frames' = IF awaiting = None THEN frames ELSE WithReg(awaiting, v)
    BY <2>1 DEF ResumeWith
  <2>3. awaiting # None => awaiting \in Registers(Top)
    BY <1>1 DEF IInv, AwaitingFits
  <2> QED BY <1>1, <2>2, <2>3 DEF AskerKnown, None
<1>2. IInv /\ AskerKnown /\ [Next]_vars => [Given]_vars
  BY <1>1
<1>3. Spec => [][Given]_vars
  BY <1>2, Invariance, AskerInvariance, PTL DEF Spec
<1> QED BY <1>3 DEF AnswerGoesToAsker

----------------------------------------------------------------------------
\* A failure that is not an extension's changes no register, global or
\* output.
THEOREM FailuresAreClean == Spec => FailureIsClean
<1> DEFINE Clean ==
        step = "running" /\ step' = "failed" /\ Instr.op # "Ext" =>
            UNCHANGED <<frames, output, globals, awaiting>>
<1>1. ASSUME [Next]_vars PROVE Clean
  <2> SUFFICES ASSUME step = "running", step' = "failed", Instr.op # "Ext"
               PROVE  UNCHANGED <<frames, output, globals, awaiting>>
    OBVIOUS
  <2>1. CASE Compute
    BY <2>1 DEF Compute, Next1, Stop
  <2>2. CASE Call
    BY <2>2 DEF Call, JumpTo, Stop
  <2>3. ~(ExtGoesOn \/ ExtSuspends \/ ExtStops)
    BY DEF ExtGoesOn, ExtSuspends, ExtStops, Executing
  <2>4. ~(\/ Jump \/ PrintOp \/ Halt \/ LoadGlobal \/ StoreGlobal \/ Return \/ Await
          \/ FallOffEnd \/ Resume \/ Answer \/ OtherStores \/ UNCHANGED vars)
    BY DEF Jump, PrintOp, Halt, LoadGlobal, StoreGlobal, Return, ReturnValue, Await, Suspend,
       FallOffEnd, Resume, Answer, ResumeWith, OtherStores, vars, Next1, JumpTo, Stop
  <2> QED BY <1>1, <2>1, <2>2, <2>3, <2>4 DEF Next, Exec
<1>2. [Next]_vars => [Clean]_vars
  BY <1>1
<1>3. Spec => [][Clean]_vars
  BY <1>2, PTL DEF Spec
<1> QED BY <1>3 DEF FailureIsClean
=============================================================================
