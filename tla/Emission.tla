------------------------------- MODULE Emission -------------------------------
(***************************************************************************)
(* What the twins vm-c and vm-basic compile with: the compiler's state and *)
(* its register allocator (nh-vm/src/emit.rs), the instructions generated  *)
(* for operators (generated/vm_operators.rs), and the handlers the two     *)
(* have in common (src/handlers).                                          *)
(*                                                                         *)
(* The state of a compiler is a value that goes from handler to handler,   *)
(* because a handler may evaluate the children it was given unevaluated    *)
(* wherever it likes.  Instructions are those of Machine, and a few more.  *)
(***************************************************************************)
EXTENDS Values, Trees, Folding, TLC

None == <<>>
Some(x) == <<x>>
NoTarget == -1

\* What compiling a node leaves: the compiler, and the register of its value,
\* or a refusal of the whole text.
Got(em, reg) == [ok |-> TRUE, em |-> em, reg |-> reg]
Refuse(em) == [ok |-> FALSE, em |-> em, reg |-> None]
Then(got, Rest(_, _)) == IF got.ok THEN Rest(got.reg, got.em) ELSE got

---------------------------------------------------------------------------
(* Emit and Emitter.  The list of locals has their registers in its order, *)
(* so scratch begins after it.  `bodies` remembers where functions are.    *)

Start ==
    [code |-> <<>>, next |-> 0, high |-> 0, slots |-> <<>>, locals |-> <<>>, in_fn |-> FALSE,
     fns |-> <<>>, bodies |-> {}, argc |-> 0]

LocalsEnd(em) == Len(em.locals)
AddressNext(em) == Len(em.code)
Emit(em, op) == [em EXCEPT !.code = Append(@, op)]
AtLeast(a, b) == IF a >= b THEN a ELSE b
\* A mutant: the high-water mark is not raised.
ReserveOnly(em, next) == [em EXCEPT !.next = next]
Reserve(em, next) == [em EXCEPT !.next = next, !.high = AtLeast(@, next)]

Alloc(em) == Got(Reserve(em, em.next + 1), em.next)
\* A mutant: a variable's register is freed as any other.
FreeAny(em, r) == IF em.next = r + 1 THEN [em EXCEPT !.next = @ - 1] ELSE em
Free(em, r) ==
    IF r >= LocalsEnd(em) /\ em.next = r + 1 THEN [em EXCEPT !.next = @ - 1] ELSE em

Reuse(em, operands) == Alloc(FoldLeft(Free, em, Reverse(operands)))
ResetRegs(em) == [em EXCEPT !.next = LocalsEnd(em)]
\* An instruction whose outcome takes the operands' place.
EmitReusing(em, operands, OpTo(_)) ==
    LET to == Reuse(em, operands) IN Got(Emit(to.em, OpTo(to.reg)), to.reg)
EmitConst(em, value) ==
    LET to == Alloc(em)
    IN Got(Emit(to.em, [op |-> "LoadK", dst |-> to.reg, value |-> value]), to.reg)

WithSlot(em, name) ==
    IF Contains(em.slots, name) THEN em ELSE [em EXCEPT !.slots = Append(@, name)]
IndexOf(names, name) == SelectInSeq(names, LAMBDA n : n = name) - 1
SlotOf(em, name) == Got(WithSlot(em, name), IndexOf(WithSlot(em, name).slots, name))
LocalOf(em, name) == IF Contains(em.locals, name) THEN Some(IndexOf(em.locals, name)) ELSE None

ReadVar(em, name) ==
    IF LocalOf(em, name) # None THEN Got(em, LocalOf(em, name)[1])
    ELSE LET slot == SlotOf(em, name)
             to == Alloc(slot.em)
         IN Got(Emit(to.em, [op |-> "LoadGlobal", dst |-> to.reg, slot |-> slot.reg]), to.reg)
MoveTo(em, dst, src) ==
    IF dst = src THEN em ELSE Emit(em, [op |-> "Move", dst |-> dst, a |-> src])
StoreGlobal(em, name, src) ==
    LET slot == SlotOf(em, name)
    IN Emit(slot.em, [op |-> "StoreGlobal", slot |-> slot.reg, a |-> src])
\* A new name inside a body takes the next named register.
StoreVar(em, name, src) ==
    IF LocalOf(em, name) # None THEN MoveTo(em, LocalOf(em, name)[1], src)
    ELSE IF em.in_fn
    THEN LET named == [em EXCEPT !.locals = Append(@, name)]
         IN MoveTo(Reserve(named, AtLeast(em.next, LocalsEnd(named))), LocalsEnd(em), src)
    ELSE StoreGlobal(em, name, src)

EmitJump(em, op) == Emit(em, op)
PatchToHere(em, at) == [em EXCEPT !.code[at + 1].target = AddressNext(em)]

FrameSize(em) == em.high + 1
BeginFn(em, params) ==
    Reserve([em EXCEPT !.locals = params, !.in_fn = TRUE], Len(params))
EndFn(em, name, addr, arity) ==
    LET ended == Emit(em, [op |-> "ReturnUnit"])
        f == [addr |-> addr, arity |-> arity, frame |-> FrameSize(em)]
    IN [ended EXCEPT !.locals = <<>>, !.in_fn = FALSE, !.next = 0, !.fns = (name :> f) @@ @,
                     !.bodies = @ \cup {[from |-> addr, to |-> AddressNext(em), frame |-> f.frame]}]
\* The registers of the frame an address is run in.
RoomAt(em, a) ==
    IF \E b \in em.bodies : a \in b.from..b.to
    THEN (CHOOSE b \in em.bodies : a \in b.from..b.to).frame ELSE FrameSize(em)
Finish(em) ==
    LET ended == Emit(em, [op |-> "Halt"])
    IN [code |-> ended.code, fns |-> em.fns, frame |-> FrameSize(em),
        globals |-> AtLeast(Len(em.slots), 1),
        room |-> [a \in 0..Len(ended.code) |-> RoomAt(em, a)]]

---------------------------------------------------------------------------
(* The generated operators.  A role is an instruction.                     *)

OpOfRole ==
    [bit_or |-> "Or", bit_xor |-> "Xor", bit_and |-> "And", add |-> "Add", sub |-> "Sub",
     mul |-> "Mul", div |-> "Div", eq |-> "Eq", ne |-> "Ne", lt |-> "Lt", le |-> "Le", gt |-> "Gt",
     ge |-> "Ge", neg |-> "Neg", not |-> "Not", await |-> "Await", len |-> "Len"]
TwoOperands(em, role, lhs, rhs) ==
    EmitReusing(em, <<lhs, rhs>>,
                LAMBDA dst : [op |-> OpOfRole[role], dst |-> dst, a |-> lhs, b |-> rhs])
OneOperand(em, role, operand) ==
    EmitReusing(em, <<operand>>, LAMBDA dst : [op |-> OpOfRole[role], dst |-> dst, a |-> operand])

\* or_else and and_then: the right operand is jumped over, and its value goes
\* where the left one's is.
ShortCircuit(em, role, lhs, Rhs(_)) ==
    LET skip == AddressNext(em)
        jump == IF role = "or_else" THEN "JumpIfTrue" ELSE "JumpIfFalse"
    IN Then(Rhs(EmitJump(em, [op |-> jump, a |-> lhs, target |-> NoTarget])),
            LAMBDA r, e :
                Got(PatchToHere(IF r = lhs THEN e ELSE Free(MoveTo(e, lhs, r), r), skip), lhs))

---------------------------------------------------------------------------
(* The handlers: src/handlers of either twin.                              *)

Program(values, em) == Got(em, IF values = <<>> THEN 0 ELSE Last(values))
Block(values, em) == IF values = <<>> THEN Alloc(em) ELSE Got(em, Last(values))
PrintStmt(value, em) == Got(ResetRegs(Emit(em, [op |-> "Print", a |-> value])), value)
IfElse(cond, em, Body(_), Alt(_)) ==
    LET otherwise == AddressNext(em)
    IN Then(Body(EmitJump(em, [op |-> "JumpIfFalse", a |-> cond, target |-> NoTarget])),
            LAMBDA r, e :
                LET after == AddressNext(e)
                    jumping == EmitJump(e, [op |-> "Jump", target |-> NoTarget])
                IN Then(Alt(PatchToHere(jumping, otherwise)),
                        LAMBDA r2, e2 : Got(ResetRegs(PatchToHere(e2, after)), cond)))
Iff(cond, em, Body(_)) ==
    LET skip == AddressNext(em)
    IN Then(Body(EmitJump(em, [op |-> "JumpIfFalse", a |-> cond, target |-> NoTarget])),
            LAMBDA r, e : Got(ResetRegs(PatchToHere(e, skip)), cond))
Whilst(em, Cond(_), Body(_)) ==
    LET top == AddressNext(em)
    IN Then(Cond(em), LAMBDA test, e :
            LET exit == AddressNext(e)
            IN Then(Body(EmitJump(e, [op |-> "JumpIfFalse", a |-> test, target |-> NoTarget])),
                    LAMBDA r, e2 :
                        Got(ResetRegs(PatchToHere(EmitJump(e2, [op |-> "Jump", target |-> top]), exit)),
                            test)))
DefineStmt(name, params, em, Body(_)) ==
    LET over == AddressNext(em)
        begun == BeginFn(EmitJump(em, [op |-> "Jump", target |-> NoTarget]), params)
    IN Then(Body(begun), LAMBDA r, e :
            Got(ResetRegs(PatchToHere(EndFn(e, name, over + 1, Len(params)), over)), 0))
Ret(value, em) == Got(Emit(em, [op |-> "Return", a |-> value]), value)

NumberOf(token, em) == EmitConst(em, Num(token))
\* The token of a string has its quotes.
Quoted(text) == [quoted |-> text]
StringOf(token, em) == EmitConst(em, Str(token.quoted))
VarOf(name, em) == ReadVar(em, name)
ElemOf(name, index, em) ==
    LET seq == ReadVar(em, name)
    IN EmitReusing(seq.em, <<seq.reg, index>>,
                   LAMBDA dst : [op |-> "Index", dst |-> dst, a |-> seq.reg, b |-> index])
ListOf(first, rest, em) ==
    LET to == Alloc(em)
    IN Got(Emit(to.em, [op |-> "NewArray", dst |-> to.reg, base |-> first, len |-> 1 + Len(rest)]),
           to.reg)
NextElem(value, em) == Got(em, value)
ExprsOf(first, rest, em) == Got([em EXCEPT !.argc = 1 + Len(rest)], first)
CallOf(name, args, em) ==
    LET base == IF args = None THEN Alloc(em) ELSE Got(em, args[1])
        argc == IF args = None THEN 0 ELSE em.argc
    IN EmitReusing(base.em, <<base.reg>>,
                   LAMBDA dst : [op |-> "Call", key |-> name, dst |-> dst, base |-> base.reg,
                                 argc |-> argc])
SetElem(name, index, value, em) ==
    LET seq == ReadVar(em, name)
    IN Got(Emit(seq.em, [op |-> "SetIndex", a |-> seq.reg, b |-> index, c |-> value]), seq.reg)

=============================================================================
