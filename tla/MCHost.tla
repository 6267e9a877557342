------------------------------- MODULE MCHost -------------------------------
(***************************************************************************)
(* Host for TLC: three tasks, each any of a few programs that suspend      *)
(* inside a function with a caller's register live, share a global, print, *)
(* fail, loop for ever, or panic.                                          *)
(***************************************************************************)
EXTENDS Host

CONSTANTS text

MCText == {text}
MCConcat == [ab \in MCText \X MCText |-> text]
MCSlots == {1}
MCAnswers == {Num(1), Str(text)}
MCForeign == {Nil, Num(1), Str(text)}

LoadK(dst, v) == [op |-> "LoadK", dst |-> dst, value |-> v]
Awaits(dst, a) == [op |-> "Await", dst |-> dst, a |-> a]
FromSlot(dst, s) == [op |-> "LoadGlobal", dst |-> dst, slot |-> s]
ToSlot(s, a) == [op |-> "StoreGlobal", slot |-> s, a |-> a]
Calls(key, dst, base, argc) ==
    [op |-> "Call", key |-> key, dst |-> dst, base |-> base, argc |-> argc]
Divides(dst, a, b) == [op |-> "IDiv", dst |-> dst, a |-> a, b |-> b]
Goto(t) == [op |-> "Jump", target |-> t]
Puts(a) == [op |-> "Print", a |-> a]
Returns(a) == [op |-> "Return", a |-> a]

WithoutFns(code, n) ==
    [code |-> code, fns |-> [k \in {} |-> {}], frame |-> n,
     room |-> [a \in 0..Len(code) |-> n]]
WithF(code, arity, n) ==
    [code |-> code, fns |-> [f |-> [addr |-> 1, arity |-> arity, frame |-> n]],
     frame |-> n, room |-> [a \in 0..Len(code) |-> n]]

\* f asks about its argument; its caller still needs the register it passed.
Asking ==
    WithF(<<Goto(3), Awaits(1, 0), Returns(1), LoadK(0, Num(1)), Calls("f", 1, 0, 1),
            Puts(0), Puts(1)>>, 1, 2)
\* Asks twice, and fails if either answer is a text.
Summing ==
    WithoutFns(<<Awaits(0, 0), Awaits(1, 0),
                 [op |-> "Lt", dst |-> 0, a |-> 0, b |-> 1], ToSlot(1, 1)>>, 2)
\* Prints what another task stored.
Reading == WithoutFns(<<FromSlot(0, 1), Puts(0)>>, 1)
Storing == WithoutFns(<<LoadK(0, Str(text)), ToSlot(1, 0), Awaits(0, 0)>>, 1)
\* Divides a number by itself, if it gets one: 1/2, whose whole part is 0.
Dividing == WithoutFns(<<Awaits(0, 0), Divides(0, 0, 0)>>, 1)
Looping == WithoutFns(<<Goto(0)>>, 1)

MCPrograms == {Asking, Summing, Reading, Storing, Dividing, Looping}
=============================================================================
