----------------------------- MODULE MCMachine -----------------------------
(***************************************************************************)
(* Machine for TLC, over every program of one shape that is well formed:   *)
(*                                                                         *)
(*      0     Jump 4                                                       *)
(*      1..3  the function f of one parameter, with three registers        *)
(*      4..6  the top-level code, with two registers                       *)
(*                                                                         *)
(* where each instruction of f and of the top level is any of a few.       *)
(***************************************************************************)
EXTENDS Machine

CONSTANTS empty, text

MCText == {empty, text}
MCConcat == [ab \in MCText \X MCText |-> IF ab = <<empty, empty>> THEN empty ELSE text]
MCSlots == {1}
MCForeign == {Str(empty)}
MCAnswers == {Num(1), Str(empty)}
MCExtValues == {Num(2)}

\* Only a program whose loop computes nothing new stays finite.
FiniteLoop(p) == NoLoops(p) \/ p.code[2].op \in {"StoreGlobal", "Await", "Lt", "IDiv"}

LoadK(dst, v) == [op |-> "LoadK", dst |-> dst, value |-> v]
Of1(op, dst, a) == [op |-> op, dst |-> dst, a |-> a]
Of2(op, dst, a, b) == [op |-> op, dst |-> dst, a |-> a, b |-> b]
FromSlot(dst, s) == [op |-> "LoadGlobal", dst |-> dst, slot |-> s]
ToSlot(s, a) == [op |-> "StoreGlobal", slot |-> s, a |-> a]
Goto(t) == [op |-> "Jump", target |-> t]
GotoUnless(a, t) == [op |-> "JumpIfFalse", a |-> a, target |-> t]
GotoIf(a, t) == [op |-> "JumpIfTrue", a |-> a, target |-> t]
Calls(key, dst, base, argc) ==
    [op |-> "Call", key |-> key, dst |-> dst, base |-> base, argc |-> argc]
Ext(asks, dst, uses, t) ==
    [op |-> "Ext", asks |-> asks, dst |-> dst, uses |-> uses, target |-> t]
Puts(a) == [op |-> "Print", a |-> a]
Returns(a) == [op |-> "Return", a |-> a]
Bare(op) == [op |-> op]

First ==
    {LoadK(2, Num(1)), Of2("IDiv", 0, 0, 0), Of2("Lt", 2, 0, 0), ToSlot(1, 0), Of1("Await", 2, 0), GotoUnless(0, 3),
     Ext(TRUE, 2, {2}, 3)}
Second ==
    {Calls("f", 2, 0, 1), Calls("f", 1, 0, 2), Calls("g", 1, 0, 0), FromSlot(0, 1),
     ToSlot(2, 0), Ext(FALSE, 2, {2}, 3), Of1("Await", 1, 0), Goto(1)}
Third == {Returns(2), Bare("ReturnUnit")}

Fourth == {LoadK(0, Num(3)), Of1("Await", 0, 0)}
Fifth == {Calls("f", 1, 0, 1), FromSlot(1, 2), GotoIf(0, 7)}
Sixth == {Puts(1), Returns(0), Bare("Halt")}

Shaped ==
    [code : {<<Goto(4)>> \o c : c \in First \X Second \X Third \X Fourth \X Fifth \X Sixth},
     fns : {[f |-> [addr |-> 1, arity |-> 1, frame |-> 3]]},
     frame : {2},
     room : {[a \in 0..7 |-> IF a \in 1..3 THEN 3 ELSE 2]}]
MCPrograms == {p \in Shaped : WellFormed(p) /\ FiniteLoop(p)}
=============================================================================
