---------------------------- MODULE HybridStore ----------------------------
(***************************************************************************)
(* `HybridStore`, the default shared store (nh-vm/src/store.rs).  A slot   *)
(* is an atomic word `tag` beside `heavy`, a value behind a read-write     *)
(* lock.  The tag holds the bits of a number, or a sentinel that sends the *)
(* reader to the lock.                                                     *)
(*                                                                         *)
(* Each action is one access of a thread to memory that other threads can  *)
(* see: the load or store of a tag, an acquisition or release of the lock, *)
(* the read or write of `heavy` under it.  Threads interleave between any  *)
(* two of them.  Accesses to one slot are sequentially consistent; the     *)
(* Acquire and Release orderings of the code give at least that per slot.  *)
(***************************************************************************)
EXTENDS Integers, FiniteSets

CONSTANTS
    Proc,      \* threads
    Slot,      \* slots of the store
    Num,       \* numbers: the f64 payloads of `Value::Num`
    Other,     \* every other value: strings, booleans, arrays, `Nil`
    Nil,       \* `Value::Nil`
    Bits,      \* 64-bit words
    ToBits,    \* `f64::to_bits`, a function from Num to Bits
    NOT_A_NUMBER_SLOT, \* the sentinel, itself the bits of some NaN
    Live,      \* threads the scheduler keeps running; the others may stop
    MaxCalls   \* bound: calls begun by all threads together

Value == Num \cup Other

\* The word w is the bits of the number n: `to_bits` loses nothing, and
\* every word is the bits of some number, the sentinel included.
ASSUME BitsAssumption ==
    /\ ToBits \in [Num -> Bits]
    /\ \A b \in Bits : \E n \in Num : ToBits[n] = b
    /\ \A m, n \in Num : ToBits[m] = ToBits[n] => m = n
    /\ NOT_A_NUMBER_SLOT \in Bits
ASSUME NilAssumption == Nil \in Other /\ Num \cap Other = {}
ASSUME SlotAssumption == Slot # {}
ASSUME LiveAssumption == Live \subseteq Proc
ASSUME MaxCallsAssumption == MaxCalls \in Nat

VARIABLES
    tag,      \* tag[s]: `HybridSlot::tag`
    heavy,    \* heavy[s]: the value inside `HybridSlot::heavy`
    readers,  \* readers[s]: threads holding the read guard of heavy[s]
    writer,   \* writer[s]: threads holding its write guard, at most one
    pc,       \* pc[p]: the next step of thread p's call
    target,   \* target[p]: the slot of p's call, AnySlot between calls
    value,    \* value[p]: what p stores, or what its load has read
    calls     \* calls begun so far

vars == <<tag, heavy, readers, writer, pc, target, value, calls>>

AnySlot == CHOOSE s \in Slot : TRUE

\* `f64::from_bits`
FromBits(b) == CHOOSE n \in Num : ToBits[n] = b

\* The tag a store of v leaves behind.
TagOf(v) == IF v \in Num THEN ToBits[v] ELSE NOT_A_NUMBER_SLOT

LoadStep == {"load_tag", "fast", "read_lock", "clone", "read_unlock"}
StoreStep == {"write_lock", "write_wait", "set_heavy", "set_tag", "write_unlock"}
Step == {"idle"} \cup LoadStep \cup StoreStep

Goto(p, from, to) ==
    /\ pc[p] = from
    /\ pc' = [pc EXCEPT ![p] = to]

\* The locals of p's call are gone.
EndCall(p) ==
    /\ target' = [target EXCEPT ![p] = AnySlot]
    /\ value' = [value EXCEPT ![p] = Nil]

----------------------------------------------------------------------------
\* `new`: every slot unset, its tag the sentinel.
Init ==
    /\ tag = [s \in Slot |-> NOT_A_NUMBER_SLOT]
    /\ heavy = [s \in Slot |-> Nil]
    /\ readers = [s \in Slot |-> {}]
    /\ writer = [s \in Slot |-> {}]
    /\ pc = [p \in Proc |-> "idle"]
    /\ target = [p \in Proc |-> AnySlot]
    /\ value = [p \in Proc |-> Nil]
    /\ calls = 0

----------------------------------------------------------------------------
\* `load`

BeginLoad(p, s) ==
    /\ calls < MaxCalls
    /\ calls' = calls + 1
    /\ Goto(p, "idle", "load_tag")
    /\ target' = [target EXCEPT ![p] = s]
    /\ UNCHANGED <<tag, heavy, readers, writer, value>>

\* The tag is a number's bits: that number is the answer, and no lock is taken.
LoadNumber(p) ==
    /\ tag[target[p]] # NOT_A_NUMBER_SLOT
    /\ Goto(p, "load_tag", "fast")
    /\ value' = [value EXCEPT ![p] = FromBits(tag[target[p]])]
    /\ UNCHANGED <<tag, heavy, readers, writer, target, calls>>

LoadSentinel(p) ==
    /\ tag[target[p]] = NOT_A_NUMBER_SLOT
    /\ Goto(p, "load_tag", "read_lock")
    /\ UNCHANGED <<tag, heavy, readers, writer, target, value, calls>>

\* A slip: one lock over the whole table, as in `BankLockStore`.
ReadLockFreeBank(s) == \A t \in Slot : writer[t] = {}

\* When a read guard may be granted.  The lock may as well keep a reader
\* waiting behind a queued writer: see FairSpec.
ReadLockFree(s) == writer[s] = {}

ReadLock(p) ==
    /\ ReadLockFree(target[p])
    /\ Goto(p, "read_lock", "clone")
    /\ readers' = [readers EXCEPT ![target[p]] = @ \cup {p}]
    /\ UNCHANGED <<tag, heavy, writer, target, value, calls>>

CloneHeavy(p) ==
    /\ Goto(p, "clone", "read_unlock")
    /\ value' = [value EXCEPT ![p] = heavy[target[p]]]
    /\ UNCHANGED <<tag, heavy, readers, writer, target, calls>>

\* The guard is dropped and the clone returned.
ReadUnlock(p) ==
    /\ Goto(p, "read_unlock", "idle")
    /\ readers' = [readers EXCEPT ![target[p]] = @ \ {p}]
    /\ EndCall(p)
    /\ UNCHANGED <<tag, heavy, writer, calls>>

ReturnFast(p) ==
    /\ Goto(p, "fast", "idle")
    /\ EndCall(p)
    /\ UNCHANGED <<tag, heavy, readers, writer, calls>>

----------------------------------------------------------------------------
\* `store`

BeginStore(p, s, v) ==
    /\ calls < MaxCalls
    /\ calls' = calls + 1
    /\ Goto(p, "idle", "write_lock")
    /\ target' = [target EXCEPT ![p] = s]
    /\ value' = [value EXCEPT ![p] = v]
    /\ UNCHANGED <<tag, heavy, readers, writer>>

\* A slip: a writer does not wait for the readers inside.
WriteLockFreeOfWriters(s) == writer[s] = {}

\* When the write guard may be granted.
WriteLockFree(s) == writer[s] = {} /\ readers[s] = {}

\* The writers that queue for slot s.
Queued(s) == {p \in Proc : target[p] = s /\ pc[p] = "write_wait"}

\* `write` blocks: the thread joins the queue of the slot's lock.
WaitToWrite(p) ==
    /\ ~WriteLockFree(target[p]) \/ Queued(target[p]) # {}
    /\ Goto(p, "write_lock", "write_wait")
    /\ UNCHANGED <<tag, heavy, readers, writer, target, value, calls>>

WriteLock(p) ==
    /\ WriteLockFree(target[p])
    /\ \/ Goto(p, "write_lock", "set_heavy")
       \/ Goto(p, "write_wait", "set_heavy")
    /\ writer' = [writer EXCEPT ![target[p]] = {p}]
    /\ UNCHANGED <<tag, heavy, readers, target, value, calls>>

\* A slip: a number goes to the tag alone, as in `AtomicNumStore`.
SetHeavyUnlessNumber(p) ==
    /\ Goto(p, "set_heavy", "set_tag")
    /\ heavy' = IF value[p] \in Num
                THEN heavy
                ELSE [heavy EXCEPT ![target[p]] = value[p]]
    /\ UNCHANGED <<tag, readers, writer, target, value, calls>>

SetHeavy(p) ==
    /\ Goto(p, "set_heavy", "set_tag")
    /\ heavy' = [heavy EXCEPT ![target[p]] = value[p]]
    /\ UNCHANGED <<tag, readers, writer, target, value, calls>>

\* A slip: a store of anything but a number forgets to put the sentinel back.
SetTagOfNumber(p) ==
    /\ Goto(p, "set_tag", "write_unlock")
    /\ tag' = IF value[p] \in Num
              THEN [tag EXCEPT ![target[p]] = TagOf(value[p])]
              ELSE tag
    /\ UNCHANGED <<heavy, readers, writer, target, value, calls>>

SetTag(p) ==
    /\ Goto(p, "set_tag", "write_unlock")
    /\ tag' = [tag EXCEPT ![target[p]] = TagOf(value[p])]
    /\ UNCHANGED <<heavy, readers, writer, target, value, calls>>

WriteUnlock(p) ==
    /\ Goto(p, "write_unlock", "idle")
    /\ writer' = [writer EXCEPT ![target[p]] = {}]
    /\ EndCall(p)
    /\ UNCHANGED <<tag, heavy, readers, calls>>

----------------------------------------------------------------------------
Begin(p) ==
    \/ \E s \in Slot : BeginLoad(p, s)
    \/ \E s \in Slot, v \in Value : BeginStore(p, s, v)

\* The steps of a call already begun.
Continue(p) ==
    \/ LoadNumber(p)
    \/ LoadSentinel(p)
    \/ ReadLock(p)
    \/ CloneHeavy(p)
    \/ ReadUnlock(p)
    \/ ReturnFast(p)
    \/ WaitToWrite(p)
    \/ WriteLock(p)
    \/ SetHeavy(p)
    \/ SetTag(p)
    \/ WriteUnlock(p)

Next == \E p \in Proc : Begin(p) \/ Continue(p)

Spec == Init /\ [][Next]_vars

\* Thread p waits for a lock that another thread queues to write: whether p
\* is let in first is left to the platform's `RwLock`, which may keep new
\* readers out while a writer queues and may wake the writers in any order.
Behind(p) ==
    /\ pc[p] \in {"read_lock", "write_wait"}
    /\ Queued(target[p]) \ {p} # {}

\* Some writer of the queue of slot s is let in.
GrantQueued(s) == \E p \in Queued(s) : WriteLock(p)

\* A thread the operating system keeps running goes on with the call it has
\* begun, as far as the locks let it.  Of the writers that queue for a lock one
\* gets it, unless one of them has stopped: the lock may have woken that one,
\* and may let nobody else in until that one answers.  A thread outside Live
\* may stop anywhere, guards in hand or queueing for one.
FairSpec ==
    /\ Spec
    /\ \A p \in Live : WF_vars(Continue(p) /\ ~Behind(p))
    /\ \A s \in Slot : WF_vars(Queued(s) \subseteq Live /\ GrantQueued(s))

----------------------------------------------------------------------------
\* State typing of the store and of the calls in flight.
TypeOK ==
    /\ tag \in [Slot -> Bits]
    /\ heavy \in [Slot -> Value]
    /\ readers \in [Slot -> SUBSET Proc]
    /\ writer \in [Slot -> SUBSET Proc]
    /\ pc \in [Proc -> Step]
    /\ target \in [Proc -> Slot]
    /\ value \in [Proc -> Value]
    /\ calls \in 0..MaxCalls

\* Thread p holds the read, or the write, guard of its slot.
HoldsRead(p) == pc[p] \in {"clone", "read_unlock"}
HoldsWrite(p) == pc[p] \in {"set_heavy", "set_tag", "write_unlock"}

\* The guards recorded at a slot are those of the threads inside it, and a
\* writer is alone in its slot.
GuardsMatchThreads ==
    \A s \in Slot :
        /\ readers[s] = {p \in Proc : target[p] = s /\ HoldsRead(p)}
        /\ writer[s] = {p \in Proc : target[p] = s /\ HoldsWrite(p)}
        /\ \A p, q \in writer[s] : p = q
        /\ writer[s] # {} => readers[s] = {}

\* "Keeping `heavy` authoritative is what makes the fast path a pure
\* optimisation rather than a second source of truth": whenever no writer is
\* between its two writes, the tag of a slot is the tag of its heavy value;
\* and a writer that has set `heavy` has set it to the value of its store.
HeavyAuthoritative ==
    /\ \A s \in Slot :
          (\A p \in writer[s] : pc[p] # "set_tag") => tag[s] = TagOf(heavy[s])
    /\ \A p \in Proc :
          pc[p] \in {"set_tag", "write_unlock"} => heavy[target[p]] = value[p]

----------------------------------------------------------------------------
(***************************************************************************)
(* The store implements SharedStore.  What the slot holds, as the other    *)
(* threads can tell: the number in the tag when there is one, the heavy    *)
(* value otherwise.  So a store takes effect at its tag store when it      *)
(* replaces a number, and already at its heavy write when it replaces      *)
(* something else, which only the lock holder could have seen.             *)
(***************************************************************************)
Content(s) == IF tag[s] # NOT_A_NUMBER_SLOT THEN FromBits(tag[s]) ELSE heavy[s]

PhaseOf(p) ==
    CASE pc[p] = "idle" -> "idle"
      [] pc[p] \in {"load_tag", "read_lock", "clone"} -> "loading"
      [] pc[p] \in {"write_lock", "write_wait", "set_heavy"} -> "storing"
      [] pc[p] = "set_tag" ->
            IF tag[target[p]] # NOT_A_NUMBER_SLOT THEN "storing" ELSE "done"
      [] OTHER -> "done"

Atomic == INSTANCE SharedStore WITH
    Value <- Value,
    content <- [s \in Slot |-> Content(s)],
    phase <- [p \in Proc |-> PhaseOf(p)]

\* Every load and store is atomic: it takes effect in one step between its
\* call and its return, whatever the other threads do in between.  "There is
\* no window in which a torn or invented value is visible."
StoresAreAtomic == Atomic!Spec

\* A thread that may have stopped for good holds a guard of slot s, or queues
\* to write there.
StalledAt(s) == \E q \in Proc \ Live : q \in readers[s] \cup writer[s] \cup Queued(s)

\* "Writing global 3 must not block reading global 4": a call on a slot
\* completes as long as no stopped thread holds, or queues to write, that very
\* slot, whatever guards are held, and whoever queues, for ever on another one.
CallsComplete ==
    \A p \in Live :
        pc[p] # "idle" ~> (pc[p] = "idle" \/ StalledAt(target[p]))
=============================================================================
