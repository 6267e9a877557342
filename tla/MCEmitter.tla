------------------------------- MODULE MCEmitter -------------------------------
(***************************************************************************)
(* A frame of three registers, so a local beside two temporaries or two    *)
(* beside one, and two names.  Values are only ever compared: one that     *)
(* differs from Unit is enough.                                            *)
(***************************************************************************)
EXTENDS Emitter, TLC

NameSymmetry == Permutations(Names)

\* Which names have a global slot decides nothing but which get one next.
WithoutSlots ==
    <<next, high, locals, locals_end, in_fn, pending, open, run, outer, in_place>>
=============================================================================
