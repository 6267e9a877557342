------------------------- MODULE HybridStoreProofs -------------------------
(***************************************************************************)
(* What TLAPS proves of HybridStore, for any number of threads, slots,     *)
(* values and calls: its type invariant, the agreement of tag, heavy value *)
(* and lock, and that it implements SharedStore.                           *)
(***************************************************************************)
EXTENDS HybridStore, TLAPS

\* What the definitions of the actions rest on.
USE SlotAssumption, NilAssumption, BitsAssumption

\* `to_bits` and `from_bits` undo each other, sentinel included.
LEMMA BitsRoundTrip ==
    /\ \A b \in Bits : FromBits(b) \in Num /\ ToBits[FromBits(b)] = b
    /\ \A n \in Num : FromBits(ToBits[n]) = n
    /\ \A v \in Value : TagOf(v) \in Bits
  <1>1. ASSUME NEW b \in Bits
        PROVE  FromBits(b) \in Num /\ ToBits[FromBits(b)] = b
    <2>1. \E n \in Num : ToBits[n] = b
      BY BitsAssumption
    <2>2. QED
      BY <2>1, Zenon DEF FromBits
  <1>2. ASSUME NEW n \in Num
        PROVE  FromBits(ToBits[n]) = n
    <2>1. ToBits[n] \in Bits
      BY BitsAssumption
    <2>2. QED
      BY <1>1, <2>1, BitsAssumption
  <1>3. \A v \in Value : TagOf(v) \in Bits
    BY BitsAssumption DEF TagOf, Value
  <1>4. QED
    BY <1>1, <1>2, <1>3

LEMMA AnySlotIsASlot == AnySlot \in Slot
  BY SlotAssumption DEF AnySlot

----------------------------------------------------------------------------
\* Type correctness.
LEMMA TypeInit == Init => TypeOK
  BY AnySlotIsASlot, MaxCallsAssumption DEF Init, TypeOK, Value, Step

LEMMA TypeNext == TypeOK /\ [Next]_vars => TypeOK'
  <1> SUFFICES ASSUME TypeOK, [Next]_vars
               PROVE  TypeOK'
    OBVIOUS
  <1> USE MaxCallsAssumption
      DEF TypeOK, Goto, EndCall, Value, Step, LoadStep, StoreStep
  <1>1. ASSUME NEW p \in Proc, Begin(p) PROVE TypeOK'
    BY <1>1 DEF Begin, BeginLoad, BeginStore
  <1>2. ASSUME NEW p \in Proc, LoadNumber(p) PROVE TypeOK'
    BY <1>2, BitsRoundTrip DEF LoadNumber
  <1>3. ASSUME NEW p \in Proc, LoadSentinel(p) PROVE TypeOK'
    BY <1>3 DEF LoadSentinel
  <1>4. ASSUME NEW p \in Proc, ReadLock(p) PROVE TypeOK'
    BY <1>4 DEF ReadLock
  <1>5. ASSUME NEW p \in Proc, CloneHeavy(p) PROVE TypeOK'
    BY <1>5 DEF CloneHeavy
  <1>6. ASSUME NEW p \in Proc, ReadUnlock(p) PROVE TypeOK'
    BY <1>6, AnySlotIsASlot DEF ReadUnlock
  <1>7. ASSUME NEW p \in Proc, ReturnFast(p) PROVE TypeOK'
    BY <1>7, AnySlotIsASlot DEF ReturnFast
  <1>8. ASSUME NEW p \in Proc, WriteLock(p) PROVE TypeOK'
    BY <1>8 DEF WriteLock
  <1>9. ASSUME NEW p \in Proc, SetHeavy(p) PROVE TypeOK'
    BY <1>9 DEF SetHeavy
  <1>10. ASSUME NEW p \in Proc, SetTag(p) PROVE TypeOK'
    BY <1>10, BitsRoundTrip DEF SetTag
  <1>11. ASSUME NEW p \in Proc, WriteUnlock(p) PROVE TypeOK'
    BY <1>11, AnySlotIsASlot DEF WriteUnlock
  <1>12. ASSUME NEW p \in Proc, WaitToWrite(p) PROVE TypeOK'
    BY <1>12 DEF WaitToWrite
  <1>13. CASE UNCHANGED vars
    BY <1>13 DEF vars
  <1>14. QED
    BY <1>1, <1>2, <1>3, <1>4, <1>5, <1>6, <1>7, <1>8, <1>9, <1>10, <1>11,
       <1>12, <1>13 DEF Next, Continue

\* The store's memory and every call in flight keep their types.
THEOREM TypeCorrect == Spec => []TypeOK
  BY TypeInit, TypeNext, PTL DEF Spec

----------------------------------------------------------------------------
\* The lock does its work: guards and program counters agree, and a writer
\* is alone in its slot.
LEMMA GuardsNext ==
    TypeOK /\ GuardsMatchThreads /\ [Next]_vars => GuardsMatchThreads'
  <1> SUFFICES ASSUME TypeOK, GuardsMatchThreads, [Next]_vars
               PROVE  GuardsMatchThreads'
    OBVIOUS
  <1> USE DEF TypeOK, GuardsMatchThreads, HoldsRead, HoldsWrite, Goto,
              EndCall
  <1>1. ASSUME NEW p \in Proc, Begin(p) PROVE GuardsMatchThreads'
    BY <1>1, SMTT(30) DEF Begin, BeginLoad, BeginStore
  <1>2. ASSUME NEW p \in Proc, LoadNumber(p) PROVE GuardsMatchThreads'
    BY <1>2 DEF LoadNumber
  <1>3. ASSUME NEW p \in Proc, LoadSentinel(p) PROVE GuardsMatchThreads'
    BY <1>3 DEF LoadSentinel
  <1>4. ASSUME NEW p \in Proc, ReadLock(p) PROVE GuardsMatchThreads'
    BY <1>4 DEF ReadLock, ReadLockFree
  <1>5. ASSUME NEW p \in Proc, CloneHeavy(p) PROVE GuardsMatchThreads'
    BY <1>5 DEF CloneHeavy
  <1>6. ASSUME NEW p \in Proc, ReadUnlock(p) PROVE GuardsMatchThreads'
    BY <1>6, AnySlotIsASlot DEF ReadUnlock
  <1>7. ASSUME NEW p \in Proc, ReturnFast(p) PROVE GuardsMatchThreads'
    BY <1>7, AnySlotIsASlot DEF ReturnFast
  <1>8. ASSUME NEW p \in Proc, WriteLock(p) PROVE GuardsMatchThreads'
    BY <1>8, SMTT(30) DEF WriteLock, WriteLockFree
  <1>9. ASSUME NEW p \in Proc, SetHeavy(p) PROVE GuardsMatchThreads'
    BY <1>9 DEF SetHeavy
  <1>10. ASSUME NEW p \in Proc, SetTag(p) PROVE GuardsMatchThreads'
    BY <1>10 DEF SetTag
  <1>11. ASSUME NEW p \in Proc, WriteUnlock(p) PROVE GuardsMatchThreads'
    BY <1>11, AnySlotIsASlot DEF WriteUnlock
  <1>12. ASSUME NEW p \in Proc, WaitToWrite(p) PROVE GuardsMatchThreads'
    BY <1>12 DEF WaitToWrite
  <1>13. CASE UNCHANGED vars
    BY <1>13 DEF vars
  <1>14. QED
    BY <1>1, <1>2, <1>3, <1>4, <1>5, <1>6, <1>7, <1>8, <1>9, <1>10, <1>11,
       <1>12, <1>13 DEF Next, Continue

----------------------------------------------------------------------------
\* The tag follows the heavy value: nothing but a writer between its two
\* writes, alone in its slot, ever parts them.
LEMMA HeavyNext ==
    TypeOK /\ GuardsMatchThreads /\ HeavyAuthoritative /\ [Next]_vars
        => HeavyAuthoritative'
  <1> SUFFICES ASSUME TypeOK, GuardsMatchThreads, HeavyAuthoritative,
                      [Next]_vars
               PROVE  HeavyAuthoritative'
    OBVIOUS
  <1> USE DEF TypeOK, GuardsMatchThreads, HeavyAuthoritative, HoldsRead,
              HoldsWrite, Goto, EndCall
  <1>1. ASSUME NEW p \in Proc, Begin(p) PROVE HeavyAuthoritative'
    <2>1. ASSUME NEW s \in Slot, BeginLoad(p, s) PROVE HeavyAuthoritative'
      BY <2>1 DEF BeginLoad
    <2>2. ASSUME NEW s \in Slot, NEW v \in Value, BeginStore(p, s, v)
          PROVE  HeavyAuthoritative'
      BY <2>2 DEF BeginStore
    <2>3. QED
      BY <1>1, <2>1, <2>2 DEF Begin
  <1>2. ASSUME NEW p \in Proc, LoadNumber(p) PROVE HeavyAuthoritative'
    BY <1>2 DEF LoadNumber
  <1>3. ASSUME NEW p \in Proc, LoadSentinel(p) PROVE HeavyAuthoritative'
    BY <1>3 DEF LoadSentinel
  <1>4. ASSUME NEW p \in Proc, ReadLock(p) PROVE HeavyAuthoritative'
    BY <1>4 DEF ReadLock, ReadLockFree
  <1>5. ASSUME NEW p \in Proc, CloneHeavy(p) PROVE HeavyAuthoritative'
    BY <1>5 DEF CloneHeavy
  <1>6. ASSUME NEW p \in Proc, ReadUnlock(p) PROVE HeavyAuthoritative'
    BY <1>6, AnySlotIsASlot DEF ReadUnlock
  <1>7. ASSUME NEW p \in Proc, ReturnFast(p) PROVE HeavyAuthoritative'
    BY <1>7, AnySlotIsASlot DEF ReturnFast
  <1>8. ASSUME NEW p \in Proc, WriteLock(p) PROVE HeavyAuthoritative'
    BY <1>8 DEF WriteLock, WriteLockFree
  <1>9. ASSUME NEW p \in Proc, SetHeavy(p) PROVE HeavyAuthoritative'
    BY <1>9 DEF SetHeavy
  <1>10. ASSUME NEW p \in Proc, SetTag(p) PROVE HeavyAuthoritative'
    BY <1>10 DEF SetTag
  <1>11. ASSUME NEW p \in Proc, WriteUnlock(p) PROVE HeavyAuthoritative'
    BY <1>11, AnySlotIsASlot DEF WriteUnlock
  <1>12. ASSUME NEW p \in Proc, WaitToWrite(p) PROVE HeavyAuthoritative'
    BY <1>12 DEF WaitToWrite
  <1>13. CASE UNCHANGED vars
    BY <1>13 DEF vars
  <1>14. QED
    BY <1>1, <1>2, <1>3, <1>4, <1>5, <1>6, <1>7, <1>8, <1>9, <1>10, <1>11,
       <1>12, <1>13 DEF Next, Continue

LEMMA CoherenceInit == Init => GuardsMatchThreads /\ HeavyAuthoritative
  BY DEF Init, GuardsMatchThreads, HeavyAuthoritative, HoldsRead, HoldsWrite,
         TagOf

\* A writer is alone in its slot, and readers and writers exclude each other.
THEOREM LocksExclude == Spec => []GuardsMatchThreads
  BY CoherenceInit, TypeCorrect, GuardsNext, PTL DEF Spec

\* `heavy` is authoritative: outside a writer's two writes, the tag is a
\* function of it, for every value, the colliding NaN included.
THEOREM TagFollowsHeavy == Spec => []HeavyAuthoritative
  BY CoherenceInit, TypeCorrect, LocksExclude, HeavyNext, PTL DEF Spec

----------------------------------------------------------------------------
(***************************************************************************)
(* The refinement.  A slot no writer is updating shows its heavy value.    *)
(***************************************************************************)
LEMMA ContentIsHeavy ==
    ASSUME TypeOK, NEW s \in Slot, tag[s] = TagOf(heavy[s])
    PROVE  Content(s) = heavy[s]
  BY BitsRoundTrip, BitsAssumption DEF Content, TagOf, TypeOK, Value

LEMMA RefinesInit == Init => Atomic!Init
  BY AnySlotIsASlot DEF Init, Atomic!Init, Content, PhaseOf

\* Every step of the store is a step of SharedStore, or none.
LEMMA RefinesNext ==
    /\ TypeOK /\ TypeOK'
    /\ GuardsMatchThreads /\ HeavyAuthoritative
    /\ [Next]_vars
    => [Atomic!Next]_Atomic!vars
  <1> SUFFICES ASSUME TypeOK, TypeOK', GuardsMatchThreads, HeavyAuthoritative,
                      [Next]_vars
               PROVE  Atomic!Next \/ UNCHANGED Atomic!vars
    BY DEF Atomic!vars
  <1> USE DEF TypeOK, Goto, EndCall
  <1>1. ASSUME NEW p \in Proc, NEW s \in Slot, BeginLoad(p, s)
        PROVE  Atomic!Load(p, s)
    BY <1>1 DEF BeginLoad, Atomic!Load, Content, PhaseOf
  <1>2. ASSUME NEW p \in Proc, NEW s \in Slot, NEW v \in Value,
               BeginStore(p, s, v)
        PROVE  Atomic!Store(p, s, v)
    BY <1>2 DEF BeginStore, Atomic!Store, Content, PhaseOf
  <1>3. ASSUME NEW p \in Proc, LoadNumber(p)
        PROVE  Atomic!ReadSlot(p)
    BY <1>3 DEF LoadNumber, Atomic!ReadSlot, Content, PhaseOf
  <1>4. ASSUME NEW p \in Proc, LoadSentinel(p)
        PROVE  UNCHANGED Atomic!vars
    BY <1>4 DEF LoadSentinel, Atomic!vars, Content, PhaseOf
  <1>5. ASSUME NEW p \in Proc, ReadLock(p)
        PROVE  UNCHANGED Atomic!vars
    BY <1>5 DEF ReadLock, Atomic!vars, Content, PhaseOf
  <1>6. ASSUME NEW p \in Proc, CloneHeavy(p)
        PROVE  Atomic!ReadSlot(p)
    <2>1. tag[target[p]] = TagOf(heavy[target[p]])
      BY <1>6 DEF CloneHeavy, GuardsMatchThreads, HeavyAuthoritative, HoldsRead
    <2>2. Content(target[p]) = heavy[target[p]]
      BY <2>1, ContentIsHeavy
    <2>3. QED
      BY <1>6, <2>2 DEF CloneHeavy, Atomic!ReadSlot, Content, PhaseOf
  <1>7. ASSUME NEW p \in Proc, ReadUnlock(p)
        PROVE  Atomic!Return(p)
    BY <1>7, AnySlotIsASlot DEF ReadUnlock, Atomic!Return, Content, PhaseOf
  <1>8. ASSUME NEW p \in Proc, ReturnFast(p)
        PROVE  Atomic!Return(p)
    BY <1>8, AnySlotIsASlot DEF ReturnFast, Atomic!Return, Content, PhaseOf
  <1>9. ASSUME NEW p \in Proc, WriteLock(p)
        PROVE  UNCHANGED Atomic!vars
    BY <1>9 DEF WriteLock, Atomic!vars, Content, PhaseOf
  <1>10. ASSUME NEW p \in Proc, SetHeavy(p)
         PROVE  Atomic!WriteSlot(p) \/ UNCHANGED Atomic!vars
    <2>1. CASE tag[target[p]] # NOT_A_NUMBER_SLOT
      BY <1>10, <2>1 DEF SetHeavy, Atomic!vars, Content, PhaseOf
    <2>2. CASE tag[target[p]] = NOT_A_NUMBER_SLOT
      BY <1>10, <2>2 DEF SetHeavy, Atomic!WriteSlot, Content, PhaseOf
    <2>3. QED
      BY <2>1, <2>2
  <1>11. ASSUME NEW p \in Proc, SetTag(p)
         PROVE  Atomic!WriteSlot(p) \/ UNCHANGED Atomic!vars
    <2>1. /\ heavy[target[p]] = value[p]
          /\ \A q \in Proc : target[q] = target[p] /\ pc[q] = "set_tag" => q = p
      BY <1>11 DEF SetTag, GuardsMatchThreads, HeavyAuthoritative, HoldsWrite
    <2>2. Content(target[p])' = value[p]
      BY <1>11, <2>1, ContentIsHeavy, BitsRoundTrip, BitsAssumption
      DEF SetTag, Content, TagOf, Value
    <2>3. \A s \in Slot : s # target[p] => Content(s)' = Content(s)
      BY <1>11 DEF SetTag, Content
    <2>4. \A q \in Proc : q # p => PhaseOf(q)' = PhaseOf(q)
      BY <1>11, <2>1 DEF SetTag, PhaseOf
    <2>5. PhaseOf(p)' = "done"
      BY <1>11 DEF SetTag, PhaseOf
    <2>6. CASE tag[target[p]] # NOT_A_NUMBER_SLOT
      <3>1. PhaseOf(p) = "storing"
        BY <1>11, <2>6 DEF SetTag, PhaseOf
      <3>2. UNCHANGED <<target, value>>
        BY <1>11 DEF SetTag
      <3>3. [s \in Slot |-> Content(s)']
              = [[s \in Slot |-> Content(s)] EXCEPT ![target[p]] = value[p]]
        BY <2>2, <2>3, <3>2
      <3>4. [q \in Proc |-> PhaseOf(q)']
              = [[q \in Proc |-> PhaseOf(q)] EXCEPT ![p] = "done"]
        BY <2>4, <2>5
      <3>5. QED
        BY <3>1, <3>2, <3>3, <3>4 DEF Atomic!WriteSlot
    <2>7. CASE tag[target[p]] = NOT_A_NUMBER_SLOT
      <3>1. PhaseOf(p) = "done" /\ Content(target[p]) = value[p]
        BY <1>11, <2>1, <2>7 DEF SetTag, PhaseOf, Content
      <3>2. QED
        BY <1>11, <2>2, <2>3, <2>4, <2>5, <3>1 DEF SetTag, Atomic!vars
    <2>8. QED
      BY <2>6, <2>7
  <1>12. ASSUME NEW p \in Proc, WriteUnlock(p)
         PROVE  Atomic!Return(p)
    BY <1>12, AnySlotIsASlot DEF WriteUnlock, Atomic!Return, Content, PhaseOf
  <1>13. ASSUME NEW p \in Proc, WaitToWrite(p)
         PROVE  UNCHANGED Atomic!vars
    BY <1>13 DEF WaitToWrite, Atomic!vars, Content, PhaseOf
  <1>14. CASE UNCHANGED vars
    BY <1>14 DEF vars, Atomic!vars, Content, PhaseOf
  <1>15. QED
    BY <1>1, <1>2, <1>3, <1>4, <1>5, <1>6, <1>7, <1>8, <1>9, <1>10, <1>11,
       <1>12, <1>13, <1>14 DEF Next, Begin, Continue, Atomic!Next

\* Every load and store of the hybrid store is atomic.
THEOREM Refinement == Spec => StoresAreAtomic
  BY RefinesInit, RefinesNext, TypeCorrect, LocksExclude, TagFollowsHeavy, PTL
  DEF Spec, StoresAreAtomic, Atomic!Spec
=============================================================================
