-------------------------------- MODULE Emitter --------------------------------
(***************************************************************************)
(* How a language compiles onto the machine: the register allocator and    *)
(* variable placement of the `Emitter` trait (nh-vm/src/emit.rs), driven   *)
(* by the generated operator code (nh-codegen/src/vm.rs) and the handlers  *)
(* of the C twin (examples/vm-c).                                          *)
(*                                                                         *)
(* An action is one call a handler makes once the operands of its node     *)
(* have been compiled, in the post-order the generated dispatcher walks    *)
(* the tree.  Beside what the emitter knows, the module keeps what one run *)
(* of the code emitted so far would have done: the contents of the         *)
(* registers, and the values the operands and variables ought to have.     *)
(* A jump is followed both ways: code it skips is compiled and not run.    *)
(*                                                                         *)
(* The language is richer than the emitter can compile correctly.  Each    *)
(* construct it goes wrong on is a liberty, taken only if `Liberties` has  *)
(* it; with none of them the emitted code is right.                        *)
(***************************************************************************)
EXTENDS Integers, Sequences

CONSTANTS
    Names,      \* variable names
    Value,      \* run-time values
    Unit,       \* the value of a register nothing has written
    Absent,     \* no value: the name is not a variable of this body
    MaxRegs,    \* bound: registers of a frame
    MaxPending, \* bound: operands pending
    MaxArgs,    \* bound: parameters, arguments and array elements
    MaxNesting, \* bound: jumps open, in a body and around it
    MaxBodies,  \* bound: function bodies around one another
    Liberties   \* constructs allowed although they compile wrongly

ASSUME EmitterAssumption ==
    /\ Unit \in Value
    /\ Absent \notin Value
    /\ MaxRegs \in Nat \ {0}
    /\ MaxPending \in Nat
    /\ MaxArgs \in Nat
    /\ MaxNesting \in Nat
    /\ MaxBodies \in Nat
    /\ Liberties \subseteq {"variable_on_the_left", "any_arguments", "leak",
                            "assign_anywhere", "read_unset", "nested_function"}

Reg == 0..(MaxRegs - 1)

VARIABLES
    next,        \* next free register
    high,        \* the high-water mark, one below the frame size
    slots,       \* names with a global slot, in first-seen order
    locals,      \* the register of each named local of the body
    locals_end,  \* where scratch begins
    in_fn,       \* whether a function body is being compiled
    pending,     \* operands compiled and not yet consumed: register and value
    open,        \* jumps emitted and not yet patched, innermost last
    returned,    \* whether the run has left the body by `return`
    holds,       \* what the run has put in each register of the frame
    variables,       \* the value each variable of the body ought to have
    outer,       \* the run of the bodies around this one, innermost last
    in_place     \* history: every call has found its arguments in place

emitter == <<next, high, slots, locals, locals_end, in_fn>>
run == <<returned, holds, variables>>
vars == <<emitter, pending, open, run, outer, in_place>>

Operand == [reg : Reg, val : Value]

\* `&&` and `||` are a "circuit", `if` a "branch" and then maybe an "else".
\* `skip` says the run jumps; `at` is how many operands were pending.
Jump == [kind : {"circuit", "branch", "else"}, skip : BOOLEAN, at : Nat]

TypeOK ==
    /\ next \in 0..MaxRegs
    /\ high \in 0..MaxRegs
    /\ slots \in Seq(Names)
    /\ \E D \in SUBSET Names : locals \in [D -> Reg]
    /\ locals_end \in 0..MaxRegs
    /\ in_fn \in BOOLEAN
    /\ pending \in Seq(Operand)
    /\ open \in Seq(Jump)
    /\ returned \in BOOLEAN
    /\ holds \in [Reg -> Value]
    /\ variables \in [Names -> Value \cup {Absent}]
    /\ outer \in Seq([open : Seq(Jump), returned : BOOLEAN,
                      variables : [Names -> Value \cup {Absent}]])
    /\ in_place \in BOOLEAN

Init ==
    /\ next = 0
    /\ high = 0
    /\ slots = <<>>
    /\ locals = [n \in {} |-> 0]
    /\ locals_end = 0
    /\ in_fn = FALSE
    /\ pending = <<>>
    /\ open = <<>>
    /\ returned = FALSE
    /\ holds = [r \in Reg |-> Unit]
    /\ variables = [n \in Names |-> Absent]
    /\ outer = <<>>
    /\ in_place = TRUE

----------------------------------------------------------------------------
(* What the emitter knows.                                                 *)

Larger(a, b) == IF a > b THEN a ELSE b

IsLocal(n) == n \in DOMAIN locals
Temporary(r) == r >= locals_end

\* A slip: the register of a variable is freed like any other.
FreedAny(n, r) == IF n = r + 1 THEN n - 1 ELSE n

\* A slip: a temporary that is not the top one is freed with all above it.
FreedDown(n, r) == IF Temporary(r) THEN r ELSE n

\* `free`: what is free after r, with n free before.
Freed(n, r) == IF Temporary(r) /\ n = r + 1 THEN n - 1 ELSE n

\* `slot_of`
SlotOf(n) ==
    slots' = IF \E i \in 1..Len(slots) : slots[i] = n THEN slots ELSE Append(slots, n)

\* The i-th operand from the last.
Last(i) == pending[Len(pending) - i + 1]

\* There are k operands to consume: the node's own, so compiled since the
\* innermost jump.
Available(k) == Len(pending) - k >= IF open = <<>> THEN 0 ELSE open[Len(open)].at

\* The node's k operands are all there are.
Alone(k) == Len(pending) = k

\* Between statements nothing is pending, and no circuit is open.
Statement == pending = <<>>

\* The run reaches the instruction being emitted.
Running == ~returned /\ \A i \in 1..Len(open) : ~open[i].skip

\* An instruction writes v into register r, when it runs.
Put(r, v) == holds' = IF Running THEN [holds EXCEPT ![r] = v] ELSE holds

\* The last k operands are consumed, and the node's value is v, in register r.
Yield(k, r, v) ==
    /\ Len(pending) - k < MaxPending
    /\ pending' = Append(SubSeq(pending, 1, Len(pending) - k), [reg |-> r, val |-> v])

\* `alloc` with r the next free register.
Alloc(r) ==
    /\ r < MaxRegs
    /\ next' = r + 1
    /\ high' = Larger(high, r + 1)

\* An instruction on the last k operands, with its result in register r.
Instruction(k, r, v) ==
    /\ Available(k)
    /\ Running \/ v = Unit
    /\ Alloc(r)
    /\ Put(r, v)
    /\ Yield(k, r, v)
    /\ UNCHANGED <<locals, locals_end, in_fn, open, returned, variables, outer>>

----------------------------------------------------------------------------
(* Values.                                                                 *)

Const(v) == Instruction(0, next, v) /\ UNCHANGED <<slots, in_place>>

\* `read_var` of a global: its contents may be anything.
ReadGlobal(n, v) ==
    /\ ~IsLocal(n)
    /\ SlotOf(n)
    /\ Instruction(0, next, v)
    /\ UNCHANGED in_place

\* `read_var` of a local, which is in its register already.
ReadLocal(n) ==
    /\ IsLocal(n)
    /\ "read_unset" \in Liberties \/ (Running => variables[n] # Absent)
    /\ LET v == IF variables[n] = Absent THEN Unit ELSE variables[n]
       IN  Yield(0, locals[n], IF Running THEN v ELSE Unit)
    /\ UNCHANGED <<emitter, open, run, outer, in_place>>

\* A prefix operator.
Unary(v) ==
    /\ Available(1)
    /\ Instruction(1, Freed(next, Last(1).reg), v)
    /\ UNCHANGED <<slots, in_place>>

\* An arithmetic, bitwise or comparison operator.
Binary(v) ==
    /\ Available(2)
    /\ Instruction(2, Freed(Freed(next, Last(1).reg), Last(2).reg), v)
    /\ UNCHANGED <<slots, in_place>>

\* The comma operator: the right operand is the answer.
Comma ==
    /\ Available(2)
    /\ "leak" \in Liberties \/ Alone(2)
    /\ next' = Freed(next, Last(2).reg)
    /\ Yield(2, Last(1).reg, Last(1).val)
    /\ UNCHANGED <<high, slots, locals, locals_end, in_fn, open, run, outer, in_place>>

\* `n[index]`: the variable is read after the index.
Index(n, v) ==
    /\ Available(1)
    /\ IF IsLocal(n)
       THEN /\ Instruction(1, Freed(Freed(next, Last(1).reg), locals[n]), v)
            /\ UNCHANGED slots
       ELSE /\ "leak" \in Liberties \/ Alone(1)
            /\ next < MaxRegs
            /\ SlotOf(n)
            /\ Instruction(1, Freed(Freed(next + 1, Last(1).reg), next), v)
    /\ UNCHANGED in_place

----------------------------------------------------------------------------
(* Operands an instruction expects side by side.                           *)

\* A slip: the arguments are said to start where the last one is.
InPlaceFromLast(k) ==
    \A i \in 1..k :
        LET r == Last(1).reg + i - 1
        IN  r \in Reg /\ holds[r] = Last(k - i + 1).val

\* The registers from that of the first operand up hold the k operands.
InPlace(k) ==
    \A i \in 1..k :
        LET r == Last(k).reg + i - 1
        IN  r \in Reg /\ holds[r] = Last(k - i + 1).val

SideBySide(k) ==
    /\ Available(k)
    /\ "any_arguments" \in Liberties
       \/ (k > 1 => Alone(k) /\ \A i \in 1..k : Temporary(Last(i).reg))
    /\ in_place' = (in_place /\ (Running => InPlace(k)))

\* `f(...)` with k arguments.
Call(k, v) ==
    /\ SideBySide(k)
    /\ Instruction(k, IF k = 0 THEN next ELSE Freed(next, Last(k).reg), v)
    /\ UNCHANGED slots

\* `[...]` with k elements, none of which is freed.
List(k, v) ==
    /\ SideBySide(k)
    /\ "leak" \in Liberties \/ Alone(k)
    /\ Instruction(k, next, v)
    /\ UNCHANGED slots

----------------------------------------------------------------------------
(* Assignment.                                                             *)

\* The last operand's value becomes that of the variable n, in register r.
MoveTo(n, r) ==
    /\ IF Last(1).reg = r THEN UNCHANGED holds ELSE Put(r, holds[Last(1).reg])
    /\ variables' = IF Running THEN [variables EXCEPT ![n] = Last(1).val] ELSE variables
    /\ UNCHANGED <<slots, in_fn, pending, open, returned, outer, in_place>>

\* `store_var` of a local the body already has.
AssignLocal(n) ==
    /\ Available(1)
    /\ IsLocal(n)
    /\ "assign_anywhere" \in Liberties
       \/ \A i \in 1..(Len(pending) - 1) : pending[i].reg # locals[n]
    /\ MoveTo(n, locals[n])
    /\ UNCHANGED <<next, high, locals, locals_end>>

\* A slip: the mark is not raised for a new variable.
AssignNewUnmarked(n) ==
    /\ Available(1)
    /\ in_fn
    /\ ~IsLocal(n)
    /\ "assign_anywhere" \in Liberties \/ Alone(1)
    /\ locals_end < MaxRegs
    /\ locals' = [m \in DOMAIN locals \cup {n} |-> IF m = n THEN locals_end ELSE locals[m]]
    /\ locals_end' = locals_end + 1
    /\ next' = Larger(next, locals_end + 1)
    /\ UNCHANGED high
    /\ MoveTo(n, locals_end)

\* `store_var` of a name new to the body, which takes the first scratch
\* register whether or not a temporary is in it.
AssignNew(n) ==
    /\ Available(1)
    /\ in_fn
    /\ ~IsLocal(n)
    /\ "assign_anywhere" \in Liberties \/ Alone(1)
    /\ locals_end < MaxRegs
    /\ locals' = [m \in DOMAIN locals \cup {n} |-> IF m = n THEN locals_end ELSE locals[m]]
    /\ locals_end' = locals_end + 1
    /\ next' = Larger(next, locals_end + 1)
    /\ high' = Larger(high, next')
    /\ MoveTo(n, locals_end)

\* `store_var` of a global.
AssignGlobal(n) ==
    /\ Available(1)
    /\ ~in_fn
    /\ ~IsLocal(n)
    /\ SlotOf(n)
    /\ UNCHANGED <<next, high, locals, locals_end, in_fn, pending, open, run, outer, in_place>>

\* `n[index] = value`: nothing of the frame changes but what is free.
AssignElement(n) ==
    /\ Available(2)
    /\ "leak" \in Liberties \/ Alone(2)
    /\ IF IsLocal(n)
       THEN UNCHANGED <<next, high, slots>>
       ELSE /\ next < MaxRegs
            /\ SlotOf(n)
            /\ next' = Freed(next + 1, next)
            /\ high' = Larger(high, next + 1)
    /\ Yield(2, Last(1).reg, Last(1).val)
    /\ UNCHANGED <<locals, locals_end, in_fn, open, run, outer, in_place>>

----------------------------------------------------------------------------
(* Jumps.                                                                  *)

\* The run may jump only if it gets here.
Jumps(kind, at, skip) ==
    /\ Len(open) + (IF outer = <<>> THEN 0 ELSE Len(outer[Len(outer)].open)) < MaxNesting
    /\ skip => Running
    /\ open' = Append(open, [kind |-> kind, skip |-> skip, at |-> at])

\* `&&` or `||` once its left operand is in a register.
OpenCircuit(skip) ==
    /\ Available(1)
    /\ "variable_on_the_left" \in Liberties \/ Temporary(Last(1).reg)
    /\ Jumps("circuit", Len(pending), skip)
    /\ UNCHANGED <<emitter, pending, run, outer, in_place>>

\* And once its right operand is: both ways leave the answer in the left one's.
CloseCircuit ==
    /\ open # <<>> /\ open[Len(open)].kind = "circuit"
    /\ Len(pending) = open[Len(open)].at + 1
    /\ LET lhs == Last(2)
           rhs == Last(1)
           skip == open[Len(open)].skip
       IN  /\ IF rhs.reg = lhs.reg THEN UNCHANGED <<holds, next>>
              ELSE Put(lhs.reg, holds[rhs.reg]) /\ next' = Freed(next, rhs.reg)
           /\ Yield(2, lhs.reg, IF skip THEN lhs.val ELSE rhs.val)
    /\ open' = SubSeq(open, 1, Len(open) - 1)
    /\ UNCHANGED <<high, slots, locals, locals_end, in_fn, returned, variables, outer, in_place>>

\* `if`, once its condition is in a register.
BeginIf(skip) ==
    /\ Alone(1) /\ Available(1)
    /\ Jumps("branch", 0, skip)
    /\ pending' = <<>>
    /\ UNCHANGED <<emitter, run, outer, in_place>>

\* `else`: the run takes the arm it has not taken.
Else ==
    /\ Statement
    /\ open # <<>> /\ open[Len(open)].kind = "branch"
    /\ LET last == Len(open)
           reached == ~returned /\ \A i \in 1..(last - 1) : ~open[i].skip
       IN  open' = [open EXCEPT ![last].kind = "else",
                                ![last].skip = reached /\ ~open[last].skip]
    /\ UNCHANGED <<emitter, pending, run, outer, in_place>>

EndIf ==
    /\ Statement
    /\ open # <<>>
    /\ open' = SubSeq(open, 1, Len(open) - 1)
    /\ next' = locals_end
    /\ UNCHANGED <<high, slots, locals, locals_end, in_fn, pending, run, outer, in_place>>

----------------------------------------------------------------------------
(* Statements and functions.                                               *)

\* An expression statement or a `print`: the scratch registers are released.
EndStatement ==
    /\ Alone(1) /\ Available(1)
    /\ pending' = <<>>
    /\ next' = locals_end
    /\ UNCHANGED <<high, slots, locals, locals_end, in_fn, open, run, outer, in_place>>

\* `return`, which releases none.
Return ==
    /\ Alone(1) /\ Available(1)
    /\ pending' = <<>>
    /\ returned' = (returned \/ Running)
    /\ UNCHANGED <<emitter, open, holds, variables, outer, in_place>>

\* `begin_fn`: the run is now that of a call, with arguments args.
BeginFn(params, args) ==
    /\ Statement
    /\ "nested_function" \in Liberties \/ ~in_fn
    /\ Len(outer) < MaxBodies
    /\ Len(params) <= MaxRegs
    /\ outer' = Append(outer, [open |-> open, returned |-> returned, variables |-> variables])
    /\ locals' = [n \in {params[i] : i \in 1..Len(params)} |->
                    (CHOOSE i \in 1..Len(params) : params[i] = n) - 1]
    /\ locals_end' = Len(params)
    /\ in_fn' = TRUE
    /\ next' = Len(params)
    /\ high' = Larger(high, Len(params))
    /\ open' = <<>>
    /\ returned' = FALSE
    /\ holds' = [r \in Reg |-> IF r < Len(params) THEN args[r + 1] ELSE Unit]
    /\ variables' = [n \in Names |-> IF n \in DOMAIN locals' THEN args[locals'[n] + 1] ELSE Absent]
    /\ UNCHANGED <<slots, pending, in_place>>

\* `end_fn`: the run is again that of the code around the definition, of whose
\* registers it reads none before it has written them.
EndFn ==
    /\ Statement
    /\ open = <<>>
    /\ outer # <<>>
    /\ LET around == outer[Len(outer)]
       IN  /\ open' = around.open
           /\ returned' = around.returned
           /\ variables' = around.variables
    /\ holds' = [r \in Reg |-> Unit]
    /\ outer' = SubSeq(outer, 1, Len(outer) - 1)
    /\ locals' = [n \in {} |-> 0]
    /\ locals_end' = 0
    /\ in_fn' = FALSE
    /\ next' = 0
    /\ UNCHANGED <<high, slots, pending, in_place>>

\* Parameter lists: names that differ.
Params == {ps \in UNION {[1..k -> Names] : k \in 0..MaxArgs} :
             \A i, j \in DOMAIN ps : ps[i] = ps[j] => i = j}

Next ==
    \/ \E v \in Value : Const(v) \/ Unary(v) \/ Binary(v)
    \/ \E n \in Names, v \in Value : ReadGlobal(n, v) \/ Index(n, v)
    \/ \E n \in Names : \/ ReadLocal(n)
                        \/ AssignLocal(n)
                        \/ AssignNew(n)
                        \/ AssignGlobal(n)
                        \/ AssignElement(n)
    \/ \E v \in Value : \/ \E k \in 0..MaxArgs : Call(k, v)
                        \/ \E k \in 1..MaxArgs : List(k, v)
    \/ \E skip \in BOOLEAN : OpenCircuit(skip) \/ BeginIf(skip)
    \/ Comma
    \/ CloseCircuit
    \/ Else
    \/ EndIf
    \/ EndStatement
    \/ Return
    \/ \E ps \in Params : \E args \in [1..Len(ps) -> Value] : BeginFn(ps, args)
    \/ EndFn

Spec == Init /\ [][Next]_vars

----------------------------------------------------------------------------
\* An operand is still in its register when the instruction that consumes it
\* comes: nothing compiled in between has written there.
OperandsKept ==
    Running => \A i \in 1..Len(pending) : holds[pending[i].reg] = pending[i].val

\* The register of a variable holds the variable for the whole body
\* (emit.rs: "Its slot belongs to the variable for the whole body").
VariablesKept ==
    Running => \A n \in Names : variables[n] # Absent =>
        IsLocal(n) /\ holds[locals[n]] = variables[n]

\* Every call and array literal has found its operands side by side
\* (op.rs: "a call finds its arguments already in place").
ArgumentsInPlace == in_place

\* The frame recorded for a function has every register its code touches.
FrameCovers ==
    /\ locals_end <= next /\ next <= high
    /\ \A i \in 1..Len(pending) : pending[i].reg < high
    /\ \A n \in DOMAIN locals : locals[n] < locals_end
=============================================================================
