---------------------------- MODULE SharedStore ----------------------------
(***************************************************************************)
(* What `SharedStore` (nh-vm/src/store.rs) promises its machines: every    *)
(* slot behaves as one atomic variable.  A thread calls `load` or `store`  *)
(* on a slot, the call takes effect in one indivisible step somewhere      *)
(* between the call and its return, and then it returns.  A slot starts    *)
(* out holding `Nil`.                                                      *)
(*                                                                         *)
(* Nothing here says how: locks, tags and their order belong to the        *)
(* implementations, which are shown to implement this module.              *)
(***************************************************************************)
CONSTANTS
    Proc,   \* threads, each driving one machine
    Slot,   \* global slots
    Value,  \* values a slot can hold
    Nil     \* the value an unset slot reads as

VARIABLES
    content,  \* content[s]: the value of slot s
    phase,    \* phase[p]: where thread p is in its call
    target,   \* target[p]: the slot of p's call; between calls it means nothing
    value     \* value[p]: what p is storing, or what its load has read

vars == <<content, phase, target, value>>

Phase == {"idle", "loading", "storing", "done"}

Init ==
    /\ content = [s \in Slot |-> Nil]
    /\ phase = [p \in Proc |-> "idle"]
    /\ target \in [Proc -> Slot]
    /\ value = [p \in Proc |-> Nil]

Load(p, s) ==
    /\ phase[p] = "idle"
    /\ phase' = [phase EXCEPT ![p] = "loading"]
    /\ target' = [target EXCEPT ![p] = s]
    /\ UNCHANGED <<content, value>>

Store(p, s, v) ==
    /\ phase[p] = "idle"
    /\ phase' = [phase EXCEPT ![p] = "storing"]
    /\ target' = [target EXCEPT ![p] = s]
    /\ value' = [value EXCEPT ![p] = v]
    /\ UNCHANGED content

\* A load takes effect: it reads the slot as it is at this instant.
ReadSlot(p) ==
    /\ phase[p] = "loading"
    /\ phase' = [phase EXCEPT ![p] = "done"]
    /\ value' = [value EXCEPT ![p] = content[target[p]]]
    /\ UNCHANGED <<content, target>>

\* A store takes effect.
WriteSlot(p) ==
    /\ phase[p] = "storing"
    /\ phase' = [phase EXCEPT ![p] = "done"]
    /\ content' = [content EXCEPT ![target[p]] = value[p]]
    /\ UNCHANGED <<target, value>>

Return(p) ==
    /\ phase[p] = "done"
    /\ phase' = [phase EXCEPT ![p] = "idle"]
    /\ \E s \in Slot : target' = [target EXCEPT ![p] = s]
    /\ value' = [value EXCEPT ![p] = Nil]
    /\ UNCHANGED content

Next ==
    \E p \in Proc :
        \/ \E s \in Slot : Load(p, s)
        \/ \E s \in Slot, v \in Value : Store(p, s, v)
        \/ ReadSlot(p)
        \/ WriteSlot(p)
        \/ Return(p)

Spec == Init /\ [][Next]_vars
=============================================================================
