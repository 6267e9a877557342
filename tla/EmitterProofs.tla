----------------------------- MODULE EmitterProofs -----------------------------
(***************************************************************************)
(* What the emitter gets right, proved for any number of registers,        *)
(* names, arguments and nested jumps: with no liberties taken, an operand  *)
(* is in its register until it is consumed, a variable for as long as its  *)
(* body is compiled, and a call finds its arguments side by side.          *)
(***************************************************************************)
EXTENDS Emitter, SequenceTheorems, FiniteSetTheorems, FunctionTheorems, TLAPS

Operands == 1..Len(pending)
Jumped == 1..Len(open)

\* Locals have a register each, below the scratch registers.
Placed ==
    /\ locals_end <= next /\ next <= high
    /\ \A n \in DOMAIN locals : locals[n] < locals_end
    /\ \A m, n \in DOMAIN locals : locals[m] = locals[n] => m = n

\* Temporaries are stacked in the order they were compiled.
Stacked ==
    /\ \A i \in Operands : Temporary(pending[i].reg) => pending[i].reg < next
    /\ \A i, j \in Operands :
          i < j /\ Temporary(pending[i].reg) /\ Temporary(pending[j].reg)
          => pending[i].reg < pending[j].reg

\* Jumps are nested, and a circuit's left operand is a temporary.
Nested ==
    /\ \A d \in Jumped : open[d].at <= Len(pending)
    /\ \A d \in Jumped : open[d].kind = "circuit" =>
          open[d].at >= 1 /\ Temporary(pending[open[d].at].reg)
    /\ \A d, e \in Jumped : d < e =>
          /\ open[d].at <= open[e].at
          /\ open[e].kind = "circuit" => open[d].at < open[e].at

\* Only the body of a function has variables of its own.
Bodies ==
    /\ Len(outer) <= 1
    /\ in_fn <=> outer # <<>>
    /\ ~in_fn => DOMAIN locals = {} /\ \A n \in Names : variables[n] = Absent
    /\ outer # <<>> =>
          /\ \A n \in Names : outer[1].variables[n] = Absent
          /\ \A d \in 1..Len(outer[1].open) :
                outer[1].open[d].at = 0 /\ outer[1].open[d].kind # "circuit"

\* The run passed where operand i was compiled.
Passed(i) == \A d \in Jumped : open[d].skip => i <= open[d].at

\* What the run has compiled and passed is in the registers, even while it is
\* skipping what is being compiled now.
Kept ==
    ~returned =>
        /\ \A i \in Operands : Passed(i) => holds[pending[i].reg] = pending[i].val
        /\ \A n \in Names : variables[n] # Absent =>
              n \in DOMAIN locals /\ holds[locals[n]] = variables[n]

IInv == TypeOK /\ Placed /\ Stacked /\ Nested /\ Bodies /\ Kept

----------------------------------------------------------------------------
(* Sequences.                                                              *)

\* Replacing the last k of a sequence's elements by one.
LEMMA ReplaceLast ==
    ASSUME NEW S, NEW s \in Seq(S), NEW k \in 0..Len(s), NEW e \in S, NEW new,
           new = Append(SubSeq(s, 1, Len(s) - k), e)
    PROVE  /\ new \in Seq(S)
           /\ Len(new) = Len(s) - k + 1
           /\ new[Len(s) - k + 1] = e
           /\ \A i \in 1..(Len(s) - k) : new[i] = s[i]
<1> DEFINE t == SubSeq(s, 1, Len(s) - k)
<1>1. Len(s) \in Nat /\ Len(s) - k \in 0..Len(s)
  OBVIOUS
<1>2. t \in Seq(S) /\ Len(t) = Len(s) - k /\ \A i \in 1..(Len(s) - k) : t[i] = s[i]
  BY <1>1
<1> HIDE DEF t
<1>3. new = Append(t, e)
  BY DEF t
<1> QED BY <1>1, <1>2, <1>3

\* Putting an element at the end of a sequence.
LEMMA Appended ==
    ASSUME NEW S, NEW s \in Seq(S), NEW e \in S, NEW new, new = Append(s, e)
    PROVE  /\ new \in Seq(S)
           /\ Len(new) = Len(s) + 1 /\ Len(s) \in Nat
           /\ new[Len(s) + 1] = e
           /\ \A i \in 1..Len(s) : new[i] = s[i]
OBVIOUS

\* Taking the last element off a sequence.
LEMMA DropLast ==
    ASSUME NEW S, NEW s \in Seq(S), s # <<>>, NEW new, new = SubSeq(s, 1, Len(s) - 1)
    PROVE  /\ new \in Seq(S)
           /\ Len(new) = Len(s) - 1 /\ Len(new) \in Nat
           /\ \A i \in 1..Len(new) : new[i] = s[i]
<1>1. Len(s) \in Nat /\ Len(s) - 1 \in 0..Len(s)
  OBVIOUS
<1> DEFINE k == Len(s) - 1
<1>2. k \in 0..Len(s) /\ new = SubSeq(s, 1, k)
  BY <1>1
<1> HIDE DEF k
<1>3. new \in Seq(S) /\ Len(new) = k /\ \A i \in 1..k : new[i] = s[i]
  BY <1>2
<1> QED BY <1>1, <1>2, <1>3 DEF k

----------------------------------------------------------------------------
(* Registers.                                                              *)

\* Freeing a register frees it if it is the top temporary, and nothing else.
LEMMA FreedIs ==
    ASSUME NEW n \in Int, NEW r \in Int
    PROVE  Freed(n, r) = n \/ (Freed(n, r) = r /\ Temporary(r) /\ n = r + 1)
BY DEF Freed

\* The parts of the type invariant that are about numbers.
LEMMA Numbers ==
    ASSUME TypeOK
    PROVE  /\ next \in Nat /\ high \in Nat /\ locals_end \in Nat
           /\ next <= MaxRegs /\ high <= MaxRegs /\ locals_end <= MaxRegs
           /\ MaxRegs \in Nat
           /\ Len(pending) \in Nat /\ Len(open) \in Nat
           /\ \A i \in Operands : pending[i] \in Operand /\ pending[i].reg \in Reg
                                  /\ pending[i].reg \in Nat /\ pending[i].val \in Value
           /\ \A d \in Jumped : open[d] \in Jump /\ open[d].at \in Nat
           /\ \A n \in DOMAIN locals : locals[n] \in Reg /\ locals[n] \in Nat
<1>1. MaxRegs \in Nat /\ Reg \subseteq Nat
  BY EmitterAssumption DEF Reg
<1>2. \A i \in Operands : pending[i] \in Operand
  BY DEF TypeOK, Operands
<1>3. \A d \in Jumped : open[d] \in Jump
  BY DEF TypeOK, Jumped
<1>4. \A n \in DOMAIN locals : locals[n] \in Reg
  BY DEF TypeOK
<1>5. Len(pending) \in Nat /\ Len(open) \in Nat
  BY DEF TypeOK
<1>6. /\ next \in Nat /\ high \in Nat /\ locals_end \in Nat
      /\ next <= MaxRegs /\ high <= MaxRegs /\ locals_end <= MaxRegs
  BY <1>1 DEF TypeOK
<1>7. \A i \in Operands : pending[i].reg \in Reg /\ pending[i].val \in Value
  BY <1>2 DEF Operand
<1>8. \A d \in Jumped : open[d].at \in Nat
  BY <1>3 DEF Jump
<1> QED BY <1>1, <1>2, <1>3, <1>4, <1>5, <1>6, <1>7, <1>8

\* The operands an instruction consumes are there, and are the node's own.
LEMMA AvailableThere ==
    ASSUME TypeOK, Nested, NEW k \in Nat, Available(k)
    PROVE  /\ k \in 0..Len(pending)
           /\ \A d \in Jumped : open[d].at <= Len(pending) - k
<1>1. CASE open = <<>>
  BY <1>1, Numbers DEF Available, Jumped
<1>2. CASE open # <<>>
  <2>1. Len(open) \in Jumped
    BY <1>2, Numbers DEF Jumped, TypeOK
  <2>2. open[Len(open)].at \in Nat /\ Len(pending) - k >= open[Len(open)].at
    BY <1>2, <2>1, Numbers DEF Available
  <2>3. \A d \in Jumped : open[d].at <= open[Len(open)].at
    <3> TAKE d \in Jumped
    <3>1. CASE d = Len(open)
      BY <3>1, <2>2
    <3>2. CASE d # Len(open)
      BY <3>2, <2>1, Numbers DEF Nested, Jumped
    <3> QED BY <3>1, <3>2
  <2> QED BY <2>2, <2>3, Numbers
<1> QED BY <1>1, <1>2

\* Where nothing is left pending, the jumps open are all of statements.
LEMMA OnlyBranches ==
    ASSUME TypeOK, Nested, \A d \in Jumped : open[d].at <= 0
    PROVE  \A d \in Jumped : open[d].at = 0 /\ open[d].kind # "circuit"
BY Numbers DEF Nested

----------------------------------------------------------------------------
(* The steps.                                                              *)

\* An instruction whose result goes above the operands that stay.
LEMMA InstructionStep ==
    ASSUME IInv, NEW k \in Nat, NEW r \in Int, NEW v \in Value, Instruction(k, r, v),
           slots' \in Seq(Names), in_place' \in BOOLEAN, r >= locals_end,
           \A i \in 1..(Len(pending) - k) :
              Temporary(pending[i].reg) => pending[i].reg < r
    PROVE  IInv'
<1> DEFINE L == Len(pending) - k
           op == [reg |-> r, val |-> v]
<1>1. k \in 0..Len(pending) /\ \A d \in Jumped : open[d].at <= L
  BY AvailableThere DEF IInv, Instruction
<1>2. /\ r \in Reg /\ r \in Nat /\ r < MaxRegs
      /\ next' = r + 1 /\ high' = Larger(high, r + 1)
  BY Numbers DEF IInv, Instruction, Alloc, Reg
<1>3. op \in Operand /\ pending' = Append(SubSeq(pending, 1, L), op)
  BY <1>2 DEF Operand, Instruction, Yield
<1>4. /\ pending' \in Seq(Operand)
      /\ Len(pending') = L + 1
      /\ pending'[L + 1] = op
      /\ \A i \in 1..L : pending'[i] = pending[i]
  <2>1. pending \in Seq(Operand)
    BY DEF IInv, TypeOK
  <2> HIDE DEF op
  <2> QED BY <1>1, <1>3, <2>1, ReplaceLast
<1>5. L \in Nat /\ 1..L \subseteq Operands
  BY <1>1, Numbers DEF IInv, Operands
<1>6. UNCHANGED <<locals, locals_end, in_fn, open, returned, variables, outer>>
  BY DEF Instruction
<1>7. /\ holds' \in [Reg -> Value]
      /\ Running => holds'[r] = v
      /\ \A q \in Reg : q # r => holds'[q] = holds[q]
  BY <1>2 DEF Instruction, Put, IInv, TypeOK
<1> HIDE DEF L
<1>8. TypeOK'
  <2>1. next' \in 0..MaxRegs /\ high' \in 0..MaxRegs
    BY <1>2, Numbers DEF IInv, Larger
  <2> QED BY <1>4, <1>6, <1>7, <2>1 DEF IInv, TypeOK
<1>9. Placed'
  BY <1>2, <1>6, Numbers DEF IInv, Placed, Larger
<1>10. Stacked'
  <2>1. \A i \in 1..L : Temporary(pending[i].reg) => pending[i].reg < r
    BY DEF L
  <2>2. \A i, j \in 1..L : i < j /\ Temporary(pending[i].reg) /\ Temporary(pending[j].reg)
                             => pending[i].reg < pending[j].reg
    BY <1>5 DEF IInv, Stacked
  <2>3. \A i \in 1..L : pending[i].reg \in Nat
    BY <1>5, Numbers DEF IInv
  <2>4. Operands' = 1..(L + 1) /\ \A q : Temporary(q)' <=> Temporary(q)
    BY <1>4, <1>6 DEF Operands, Temporary
  <2>5. \A i \in 1..(L + 1) : i \in 1..L \/ i = L + 1
    BY <1>5
  <2>6. \A i \in 1..L : Temporary(pending'[i].reg) => pending'[i].reg < r
    BY <1>4, <2>1
  <2>7. \A i \in 1..(L + 1) : Temporary(pending'[i].reg) => pending'[i].reg < next'
    BY <1>2, <1>4, <2>3, <2>5, <2>6
  <2>8. \A i, j \in 1..(L + 1) :
           i < j /\ Temporary(pending'[i].reg) /\ Temporary(pending'[j].reg)
           => pending'[i].reg < pending'[j].reg
    <3> SUFFICES ASSUME NEW i \in 1..(L + 1), NEW j \in 1..(L + 1), i < j,
                        Temporary(pending'[i].reg), Temporary(pending'[j].reg)
                 PROVE  pending'[i].reg < pending'[j].reg
      OBVIOUS
    <3>1. i \in 1..L
      BY <1>5
    <3>2. CASE j \in 1..L
      BY <1>4, <2>2, <3>1, <3>2
    <3>3. CASE j = L + 1
      BY <1>4, <2>6, <3>1, <3>3
    <3> QED BY <2>5, <3>2, <3>3
  <2> QED BY <2>4, <2>7, <2>8, Zenon DEF Stacked
<1>11. Nested'
  <2>1. \A d \in Jumped : open[d].at \in Nat /\ open[d].at <= L
    BY <1>1, Numbers DEF IInv, L
  <2>2. Jumped' = Jumped /\ open' = open /\ \A q : Temporary(q)' <=> Temporary(q)
    BY <1>6 DEF Jumped, Temporary
  <2>3. \A d \in Jumped : open[d].at <= Len(pending')
    BY <1>4, <1>5, <2>1
  <2>4. \A d \in Jumped : open[d].kind = "circuit" =>
           open[d].at >= 1 /\ Temporary(pending'[open[d].at].reg)
    BY <1>4, <1>5, <2>1 DEF IInv, Nested
  <2> QED BY <2>2, <2>3, <2>4 DEF IInv, Nested
<1>12. Bodies'
  BY <1>6 DEF IInv, Bodies
<1>13. ASSUME ~returned PROVE Kept'
  <2>1. ASSUME NEW i \in 1..L, Passed(i)
        PROVE  holds'[pending'[i].reg] = pending'[i].val
    <3>1. holds[pending[i].reg] = pending[i].val /\ pending[i].reg \in Reg
      BY <1>5, <1>13, <2>1, Numbers DEF IInv, Kept
    <3>2. pending[i].reg # r
      <4>1. CASE Temporary(pending[i].reg)
        BY <4>1, <1>2, <1>5, Numbers DEF L, IInv
      <4>2. CASE ~Temporary(pending[i].reg)
        BY <4>2, <1>2, <1>5, Numbers DEF Temporary, IInv
      <4> QED BY <4>1, <4>2
    <3> QED BY <1>4, <1>7, <3>1, <3>2
  <2>2. ASSUME Passed(L + 1)
        PROVE  holds'[pending'[L + 1].reg] = pending'[L + 1].val
    <3>1. \A d \in Jumped : ~open[d].skip
      <4> SUFFICES ASSUME NEW d \in Jumped, open[d].skip PROVE FALSE
        OBVIOUS
      <4>1. L + 1 <= open[d].at
        BY <2>2 DEF Passed
      <4>2. open[d].at <= L /\ open[d].at \in Nat
        BY <1>1, Numbers DEF IInv, L
      <4> QED BY <1>5, <4>1, <4>2
    <3>2. Running
      BY <3>1, <1>13 DEF Running, Jumped
    <3> QED BY <1>4, <1>7, <3>2
  <2>3. \A i : Passed(i)' <=> Passed(i)
    BY <1>6 DEF Passed, Jumped
  <2>4. \A i \in Operands' : Passed(i)' => holds'[pending'[i].reg] = pending'[i].val
    BY <1>4, <1>5, <2>1, <2>2, <2>3 DEF Operands
  <2>5. ASSUME NEW n \in Names, variables[n] # Absent
        PROVE  n \in DOMAIN locals /\ holds'[locals[n]] = variables[n]
    <3>1. n \in DOMAIN locals /\ holds[locals[n]] = variables[n]
      BY <1>13, <2>5 DEF IInv, Kept
    <3>2. locals[n] \in Reg /\ locals[n] # r
      BY <3>1, <1>2, Numbers DEF IInv, Placed
    <3> QED BY <1>7, <3>1, <3>2
  <2> QED BY <1>6, <2>4, <2>5 DEF Kept
<1>14. Kept'
  BY <1>6, <1>13 DEF Kept
<1> QED BY <1>8, <1>9, <1>10, <1>11, <1>12, <1>14 DEF IInv

\* The next free register is above every operand.
LEMMA NextAbove ==
    ASSUME IInv
    PROVE  /\ next \in Int /\ next >= locals_end
           /\ \A i \in Operands : Temporary(pending[i].reg) => pending[i].reg < next
BY Numbers DEF IInv, Placed, Stacked

\* Freeing the last operand but k leaves the register freed, like the one that
\* was free before, above those that stay.
LEMMA FreedAbove ==
    ASSUME IInv, NEW k \in Nat, Available(k + 1), NEW n \in Int, n >= locals_end,
           \A i \in 1..(Len(pending) - k) : Temporary(pending[i].reg) => pending[i].reg < n
    PROVE  LET m == Freed(n, Last(k + 1).reg)
           IN  /\ m \in Int /\ m >= locals_end
               /\ \A i \in 1..(Len(pending) - (k + 1)) :
                     Temporary(pending[i].reg) => pending[i].reg < m
<1> DEFINE q == Len(pending) - k
           m == Freed(n, pending[q].reg)
<1>1. k + 1 \in 0..Len(pending) /\ Len(pending) \in Nat
  BY AvailableThere, Numbers DEF IInv
<1>2. q \in Operands /\ Last(k + 1) = pending[q] /\ 1..(Len(pending) - (k + 1)) \subseteq Operands
  BY <1>1 DEF Operands, Last
<1>3. \A i \in 1..(Len(pending) - (k + 1)) : i \in 1..q /\ i < q
  BY <1>1
<1>4. pending[q].reg \in Nat /\ locals_end \in Nat
  BY <1>2, Numbers DEF IInv
<1>5. m = n \/ (m = pending[q].reg /\ Temporary(pending[q].reg))
  BY <1>4, FreedIs
<1>6. \A i \in 1..(Len(pending) - (k + 1)) :
         Temporary(pending[i].reg) /\ Temporary(pending[q].reg) => pending[i].reg < pending[q].reg
  BY <1>2, <1>3 DEF IInv, Stacked
<1>7. \A i \in 1..(Len(pending) - (k + 1)) : Temporary(pending[i].reg) => pending[i].reg < n
  BY <1>3
<1>8. CASE m = n
  BY <1>2, <1>7, <1>8
<1>9. CASE m = pending[q].reg /\ Temporary(pending[q].reg)
  BY <1>2, <1>4, <1>6, <1>9 DEF Temporary
<1> QED BY <1>5, <1>8, <1>9

\* Freeing the last operand.
LEMMA FreedLast ==
    ASSUME IInv, Available(1), NEW m, m = Freed(next, Last(1).reg)
    PROVE  /\ m \in Int /\ m >= locals_end
           /\ \A i \in 1..(Len(pending) - 1) : Temporary(pending[i].reg) => pending[i].reg < m
<1>1. PICK k \in Nat : k = 0
  OBVIOUS
<1>2. k + 1 = 1 /\ Len(pending) - k = Len(pending)
  BY <1>1, Numbers DEF IInv
<1>3. Available(k + 1) /\ m = Freed(next, Last(k + 1).reg)
  BY <1>2
<1>4. \A i \in 1..(Len(pending) - k) : Temporary(pending[i].reg) => pending[i].reg < next
  BY <1>2, NextAbove DEF Operands
<1>5. /\ m \in Int /\ m >= locals_end
      /\ \A i \in 1..(Len(pending) - (k + 1)) : Temporary(pending[i].reg) => pending[i].reg < m
  BY <1>3, <1>4, NextAbove, FreedAbove
<1> QED BY <1>2, <1>5

\* Freeing the last operand but one.
LEMMA FreedLastButOne ==
    ASSUME IInv, Available(2), NEW n \in Int, n >= locals_end,
           \A i \in 1..(Len(pending) - 1) : Temporary(pending[i].reg) => pending[i].reg < n,
           NEW m, m = Freed(n, Last(2).reg)
    PROVE  /\ m \in Int /\ m >= locals_end
           /\ \A i \in 1..(Len(pending) - 2) : Temporary(pending[i].reg) => pending[i].reg < m
<1>1. PICK k \in Nat : k = 1
  OBVIOUS
<1>2. k + 1 = 2
  BY <1>1
<1>3. Available(k + 1) /\ m = Freed(n, Last(k + 1).reg)
  BY <1>2
<1>4. \A i \in 1..(Len(pending) - k) : Temporary(pending[i].reg) => pending[i].reg < n
  BY <1>1
<1>5. /\ m \in Int /\ m >= locals_end
      /\ \A i \in 1..(Len(pending) - (k + 1)) : Temporary(pending[i].reg) => pending[i].reg < m
  BY <1>3, <1>4, FreedAbove
<1> QED BY <1>2, <1>5

\* A constant goes to the next free register.
LEMMA ConstStep ==
    ASSUME IInv, NEW v \in Value, Const(v)
    PROVE  IInv'
<1>1. slots' \in Seq(Names) /\ in_place' \in BOOLEAN
  BY DEF Const, IInv, TypeOK
<1> QED BY <1>1, NextAbove, InstructionStep DEF Const, Operands

\* A global's slot is appended to the slots, or is there already.
LEMMA SlotOfType ==
    ASSUME TypeOK, NEW n \in Names, SlotOf(n)
    PROVE  slots' \in Seq(Names)
BY DEF TypeOK, SlotOf

\* A global is copied to the next free register.
LEMMA ReadGlobalStep ==
    ASSUME IInv, NEW n \in Names, NEW v \in Value, ReadGlobal(n, v)
    PROVE  IInv'
<1>1. slots' \in Seq(Names) /\ in_place' \in BOOLEAN
  BY SlotOfType DEF ReadGlobal, IInv, TypeOK
<1> QED BY <1>1, NextAbove, InstructionStep DEF ReadGlobal, Operands

\* The operand's register is freed and taken again, or stays a variable's.
LEMMA UnaryStep ==
    ASSUME IInv, NEW v \in Value, Unary(v)
    PROVE  IInv'
<1>1. slots' \in Seq(Names) /\ in_place' \in BOOLEAN
  BY DEF Unary, IInv, TypeOK
<1> DEFINE m == Freed(next, Last(1).reg)
<1>2. Available(1) /\ Instruction(1, m, v)
  BY DEF Unary
<1>3. /\ m \in Int /\ m >= locals_end
      /\ \A i \in 1..(Len(pending) - 1) : Temporary(pending[i].reg) => pending[i].reg < m
  BY <1>2, FreedLast
<1> HIDE DEF m
<1> QED BY <1>1, <1>2, <1>3, InstructionStep

\* Where an instruction's operands are available, so are its last ones.
LEMMA AvailableFewer ==
    ASSUME TypeOK, NEW k \in Nat, Available(k + 1)
    PROVE  Available(k)
<1> DEFINE at == IF open = <<>> THEN 0 ELSE open[Len(open)].at
<1>1. at \in Nat
  <2>1. open # <<>> => Len(open) \in Jumped
    BY DEF TypeOK, Jumped
  <2> QED BY <2>1, Numbers
<1>2. Len(pending) - (k + 1) >= at
  BY DEF Available
<1> HIDE DEF at
<1>3. Len(pending) - k >= at
  BY <1>1, <1>2, Numbers
<1> QED BY <1>3 DEF Available, at

\* Both operands are freed, from the last, before the result is placed.
LEMMA BinaryStep ==
    ASSUME IInv, NEW v \in Value, Binary(v)
    PROVE  IInv'
<1>1. slots' \in Seq(Names) /\ in_place' \in BOOLEAN
  BY DEF Binary, IInv, TypeOK
<1> DEFINE m == Freed(next, Last(1).reg)
           r == Freed(m, Last(2).reg)
<1>2. Available(2) /\ Available(1 + 1) /\ Instruction(2, r, v)
  BY DEF Binary
<1>6. Available(1)
  BY <1>2, AvailableFewer DEF IInv
<1>3. /\ m \in Int /\ m >= locals_end
      /\ \A i \in 1..(Len(pending) - 1) : Temporary(pending[i].reg) => pending[i].reg < m
  BY <1>6, FreedLast
<1> HIDE DEF m
<1>4. /\ r \in Int /\ r >= locals_end
      /\ \A i \in 1..(Len(pending) - 2) : Temporary(pending[i].reg) => pending[i].reg < r
  BY <1>2, <1>3, FreedLastButOne
<1> HIDE DEF r
<1> QED BY <1>1, <1>2, <1>4, InstructionStep

\* A variable's own register is never freed.
LEMMA LocalNotFreed ==
    ASSUME IInv, NEW n \in DOMAIN locals, NEW m \in Int
    PROVE  Freed(m, locals[n]) = m
BY Numbers DEF IInv, Placed, Freed, Temporary

\* An index expression, whose variable is read after the index.
LEMMA IndexStep ==
    ASSUME IInv, NEW n \in Names, NEW v \in Value, Index(n, v)
    PROVE  IInv'
<1>1. in_place' \in BOOLEAN /\ Available(0 + 1)
  BY DEF Index, IInv, TypeOK
<1>4. Available(1)
  BY DEF Index
<1>2. CASE IsLocal(n)
  <2> DEFINE m == Freed(next, Last(1).reg)
  <2>1. /\ m \in Int /\ m >= locals_end
        /\ \A i \in 1..(Len(pending) - 1) : Temporary(pending[i].reg) => pending[i].reg < m
    BY <1>4, FreedLast
  <2>2. Instruction(1, Freed(m, locals[n]), v) /\ slots' = slots
    BY <1>2 DEF Index
  <2> HIDE DEF m
  <2>3. Instruction(1, m, v)
    BY <1>2, <2>1, <2>2, LocalNotFreed DEF IsLocal
  <2>4. slots' \in Seq(Names)
    BY <2>2 DEF IInv, TypeOK
  <2> QED BY <1>1, <2>1, <2>3, <2>4, InstructionStep
<1>3. CASE ~IsLocal(n)
  <2> DEFINE m == Freed(next + 1, Last(1).reg)
             r == Freed(m, next)
  <2>1. slots' \in Seq(Names) /\ Instruction(1, r, v)
    BY <1>3, SlotOfType DEF Index, IInv
  <2>2. /\ m \in Int /\ m >= locals_end
        /\ \A i \in 1..(Len(pending) - 1) : Temporary(pending[i].reg) => pending[i].reg < m
    <3>1. next + 1 \in Int /\ next + 1 >= locals_end
      BY NextAbove, Numbers DEF IInv
    <3>2. \A i \in 1..(Len(pending) - 0) : Temporary(pending[i].reg) => pending[i].reg < next + 1
      BY NextAbove, Numbers DEF IInv, Operands
    <3> QED BY <1>1, <3>1, <3>2, FreedAbove
  <2> HIDE DEF m
  <2>3. r = m \/ r = next
    BY <2>2, NextAbove, FreedIs
  <2>4. /\ r \in Int /\ r >= locals_end
        /\ \A i \in 1..(Len(pending) - 1) : Temporary(pending[i].reg) => pending[i].reg < r
    BY <2>2, <2>3, NextAbove, Numbers DEF IInv, Operands
  <2> HIDE DEF r
  <2> QED BY <1>1, <2>1, <2>4, InstructionStep
<1> QED BY <1>2, <1>3

\* A call's result goes where its first argument was.
LEMMA CallStep ==
    ASSUME IInv, NEW k \in Nat, NEW v \in Value, Call(k, v)
    PROVE  IInv'
<1>1. slots' \in Seq(Names) /\ in_place' \in BOOLEAN
  BY DEF Call, SideBySide, IInv, TypeOK
<1>2. CASE k = 0
  <2>1. Instruction(0, next, v)
    BY <1>2 DEF Call
  <2>2. \A i \in 1..(Len(pending) - 0) : Temporary(pending[i].reg) => pending[i].reg < next
    BY NextAbove, Numbers DEF IInv, Operands
  <2> QED BY <1>1, <2>1, <2>2, NextAbove, InstructionStep
<1>3. CASE k # 0
  <2> DEFINE m == Freed(next, Last(k).reg)
  <2>1. k - 1 \in Nat /\ (k - 1) + 1 = k /\ Available(k) /\ Instruction(k, m, v)
    BY <1>3 DEF Call, SideBySide
  <2>2. \A i \in 1..(Len(pending) - (k - 1)) : Temporary(pending[i].reg) => pending[i].reg < next
    BY <2>1, NextAbove, Numbers DEF IInv, Operands
  <2>3. /\ m \in Int /\ m >= locals_end
        /\ \A i \in 1..(Len(pending) - k) : Temporary(pending[i].reg) => pending[i].reg < m
    BY <2>1, <2>2, NextAbove, FreedAbove
  <2> HIDE DEF m
  <2> QED BY <1>1, <2>1, <2>3, InstructionStep
<1> QED BY <1>2, <1>3

\* An array literal's goes above its elements.
LEMMA ListStep ==
    ASSUME IInv, NEW k \in Nat, NEW v \in Value, List(k, v)
    PROVE  IInv'
<1>1. slots' \in Seq(Names) /\ in_place' \in BOOLEAN
  BY DEF List, SideBySide, IInv, TypeOK
<1>2. \A i \in 1..(Len(pending) - k) : Temporary(pending[i].reg) => pending[i].reg < next
  BY NextAbove, Numbers DEF IInv, Operands
<1> QED BY <1>1, <1>2, NextAbove, InstructionStep DEF List

\* A step that leaves nothing pending, and only jumps of statements open.
LEMMA NothingPending ==
    ASSUME IInv, pending' = <<>>,
           UNCHANGED <<high, slots, locals, locals_end, in_fn, holds, variables, outer, in_place>>,
           next' = next \/ next' = locals_end,
           open' \in Seq(Jump),
           \A d \in 1..Len(open') : open'[d].at = 0 /\ open'[d].kind # "circuit",
           returned' \in BOOLEAN, returned => returned'
    PROVE  IInv'
<1>1. next' \in 0..MaxRegs /\ locals_end <= next' /\ next' <= high
  BY Numbers DEF IInv, Placed
<1>2. TypeOK'
  BY <1>1 DEF IInv, TypeOK
<1>3. Placed'
  BY <1>1 DEF IInv, Placed
<1>4. Stacked'
  BY DEF Stacked, Operands
<1>5. Nested'
  BY DEF Nested, Jumped
<1>6. Bodies'
  BY DEF IInv, Bodies
<1>7. Kept'
  BY DEF IInv, Kept, Operands
<1> QED BY <1>2, <1>3, <1>4, <1>5, <1>6, <1>7 DEF IInv

\* Where all that is pending is consumed, and where nothing is, the jumps open
\* are of statements.
LEMMA StatementJumps ==
    ASSUME IInv, NEW k \in Nat, Alone(k), k = 0 \/ Available(k)
    PROVE  \A d \in Jumped : open[d].at = 0 /\ open[d].kind # "circuit"
<1>1. \A d \in Jumped : open[d].at <= 0
  <2>1. CASE k = 0
    BY <2>1 DEF Alone, IInv, Nested
  <2>2. CASE Available(k)
    BY <2>2, AvailableThere, Numbers DEF Alone, IInv
  <2> QED BY <2>1, <2>2
<1> QED BY <1>1, OnlyBranches DEF IInv

\* At a statement's end nothing is pending.
LEMMA StatementStep ==
    ASSUME IInv, EndStatement \/ Return
    PROVE  IInv'
<1>1. Alone(1) /\ Available(1)
  BY DEF EndStatement, Return
<1>2. \A d \in Jumped : open[d].at = 0 /\ open[d].kind # "circuit"
  BY <1>1, StatementJumps
<1>3. open' = open /\ open \in Seq(Jump)
  BY DEF EndStatement, Return, IInv, TypeOK
<1>4. \A d \in 1..Len(open') : open'[d].at = 0 /\ open'[d].kind # "circuit"
  BY <1>2, <1>3 DEF Jumped
<1>5. CASE EndStatement
  <2>1. returned' = returned /\ returned \in BOOLEAN
    BY <1>5 DEF EndStatement, run, IInv, TypeOK
  <2> QED BY <1>3, <1>4, <1>5, <2>1, NothingPending DEF EndStatement, run
<1>6. CASE Return
  <2>1. returned' \in BOOLEAN /\ (returned => returned')
    BY <1>6 DEF Return, IInv, TypeOK
  <2> QED BY <1>3, <1>4, <1>6, <2>1, NothingPending DEF Return, emitter
<1> QED BY <1>5, <1>6

\* The condition is consumed where the jump is emitted.
LEMMA BeginIfStep ==
    ASSUME IInv, NEW skip \in BOOLEAN, BeginIf(skip)
    PROVE  IInv'
<1>1. \A d \in Jumped : open[d].at = 0 /\ open[d].kind # "circuit"
  BY StatementJumps DEF BeginIf
<1> DEFINE j == [kind |-> "branch", skip |-> skip, at |-> 0]
<1>2. j \in Jump /\ open' = Append(open, j) /\ open \in Seq(Jump)
  BY DEF BeginIf, Jumps, Jump, IInv, TypeOK
<1>3. j.at = 0 /\ j.kind # "circuit"
  OBVIOUS
<1> HIDE DEF j
<1>4. /\ open' \in Seq(Jump) /\ Len(open') = Len(open) + 1 /\ Len(open) \in Nat
      /\ open'[Len(open) + 1] = j
      /\ \A d \in 1..Len(open) : open'[d] = open[d]
  BY <1>2, Appended
<1>5. \A d \in 1..Len(open') : open'[d].at = 0 /\ open'[d].kind # "circuit"
  <2> TAKE d \in 1..Len(open')
  <2>1. d \in Jumped \/ d = Len(open) + 1
    BY <1>4 DEF Jumped
  <2> QED BY <1>1, <1>3, <1>4, <2>1 DEF Jumped
<1>6. returned' = returned /\ returned \in BOOLEAN
  BY DEF BeginIf, run, IInv, TypeOK
<1> QED BY <1>4, <1>5, <1>6, NothingPending DEF BeginIf, emitter, run

\* The run takes the arm it has not taken: what was pending is unaffected.
LEMMA ElseStep ==
    ASSUME IInv, Else
    PROVE  IInv'
<1>1. \A d \in Jumped : open[d].at = 0 /\ open[d].kind # "circuit"
  <2>1. Alone(0)
    BY DEF Else, Statement, Alone
  <2> QED BY <2>1, StatementJumps
<1>2. open \in Seq(Jump) /\ returned \in BOOLEAN /\ Len(open) \in Jumped
  BY DEF Else, IInv, TypeOK, Jumped
<1> DEFINE last == Len(open)
           j == [open[last] EXCEPT !.kind = "else",
                                   !.skip = (~returned /\ \A i \in 1..(last - 1) : ~open[i].skip)
                                            /\ ~open[last].skip]
<1>3. open[last] \in Jump
  BY <1>2 DEF Jumped
<1>4. j \in Jump /\ j.at = open[last].at /\ j.kind = "else"
  BY <1>3 DEF Jump
<1>5. open' = [open EXCEPT ![last] = j]
  BY <1>2, <1>3 DEF Else, Jump, Jumped
<1> HIDE DEF j
<1>6. /\ open' \in Seq(Jump) /\ Len(open') = Len(open)
      /\ \A d \in Jumped : open'[d] = IF d = last THEN j ELSE open[d]
  BY <1>2, <1>4, <1>5, ExceptSeq DEF Jumped
<1>7. \A d \in 1..Len(open') : open'[d].at = 0 /\ open'[d].kind # "circuit"
  BY <1>1, <1>2, <1>4, <1>6 DEF Jumped
<1>8. UNCHANGED <<emitter, pending, run, outer, in_place>> /\ pending = <<>>
  BY DEF Else, Statement
<1> QED BY <1>2, <1>6, <1>7, <1>8, NothingPending DEF emitter, run

\* The jump is patched with nothing pending.
LEMMA EndIfStep ==
    ASSUME IInv, EndIf
    PROVE  IInv'
<1>1. \A d \in Jumped : open[d].at = 0 /\ open[d].kind # "circuit"
  <2>1. Alone(0)
    BY DEF EndIf, Statement, Alone
  <2> QED BY <2>1, StatementJumps
<1>2. open \in Seq(Jump) /\ returned \in BOOLEAN /\ open # <<>>
  BY DEF EndIf, IInv, TypeOK
<1>3. /\ open' \in Seq(Jump)
      /\ Len(open') = Len(open) - 1 /\ Len(open') \in Nat
      /\ \A d \in 1..Len(open') : open'[d] = open[d]
  BY <1>2, DropLast DEF EndIf
<1>4. \A d \in 1..Len(open') : d \in Jumped
  BY <1>2, <1>3 DEF Jumped
<1>5. \A d \in 1..Len(open') : open'[d].at = 0 /\ open'[d].kind # "circuit"
  BY <1>1, <1>3, <1>4
<1>6. pending' = <<>> /\ returned' = returned /\ next' = locals_end
      /\ UNCHANGED <<high, slots, locals, locals_end, in_fn, holds, variables, outer, in_place>>
  BY DEF EndIf, Statement, run
<1> QED BY <1>2, <1>3, <1>5, <1>6, NothingPending

\* A local is read where it is: no register is taken.
LEMMA ReadLocalStep ==
    ASSUME IInv, Liberties = {}, NEW n \in Names, ReadLocal(n)
    PROVE  IInv'
<1> DEFINE L == Len(pending)
           v == IF Running THEN IF variables[n] = Absent THEN Unit ELSE variables[n] ELSE Unit
           op == [reg |-> locals[n], val |-> v]
<1>1. /\ n \in DOMAIN locals /\ locals[n] \in Reg /\ locals[n] \in Nat
      /\ locals[n] < locals_end
  BY Numbers DEF ReadLocal, IsLocal, IInv, Placed
<1>2. v \in Value
  BY EmitterAssumption DEF IInv, TypeOK
<1>3. op \in Operand
  BY <1>1, <1>2 DEF Operand
<1>4. pending \in Seq(Operand) /\ L \in Nat /\ 0 \in 0..L
  BY Numbers DEF IInv, TypeOK
<1>5. pending' = Append(SubSeq(pending, 1, L - 0), op)
  BY DEF ReadLocal, Yield
<1>6. op.reg = locals[n] /\ op.val = v
  OBVIOUS
<1> HIDE DEF op
<1>7. /\ pending' \in Seq(Operand)
      /\ Len(pending') = L + 1
      /\ pending'[L + 1] = op
      /\ \A i \in 1..L : pending'[i] = pending[i]
  <2>1. /\ pending' \in Seq(Operand)
        /\ Len(pending') = L - 0 + 1
        /\ pending'[L - 0 + 1] = op
        /\ \A i \in 1..(L - 0) : pending'[i] = pending[i]
    BY <1>3, <1>4, <1>5, ReplaceLast
  <2>2. L - 0 = L
    BY <1>4
  <2> QED BY <2>1, <2>2
<1>8. UNCHANGED <<emitter, open, run, outer, in_place>>
  BY DEF ReadLocal
<1> HIDE DEF v
<1>9. TypeOK'
  BY <1>7, <1>8 DEF IInv, TypeOK, emitter, run
<1>10. Placed'
  BY <1>8 DEF IInv, Placed, emitter
<1>11. /\ Operands' = 1..(L + 1) /\ Operands = 1..L
       /\ \A q : Temporary(q)' <=> Temporary(q)
       /\ Jumped' = Jumped /\ open' = open
       /\ \A i : Passed(i)' <=> Passed(i)
  BY <1>7, <1>8 DEF Operands, Temporary, Jumped, Passed, emitter
<1>12. \A i \in Operands' : i \in Operands \/ i = L + 1
  BY <1>4, <1>11
<1>13. ~Temporary(pending'[L + 1].reg)
  BY <1>1, <1>6, <1>7, Numbers DEF Temporary, IInv
<1>14. Stacked'
  <2>1. \A i \in Operands : pending'[i] = pending[i]
    BY <1>7, <1>11
  <2>2. next' = next
    BY <1>8 DEF emitter
  <2> QED BY <1>11, <1>12, <1>13, <2>1, <2>2 DEF IInv, Stacked
<1>15. Nested'
  <2>1. \A d \in Jumped : open[d].at \in Nat /\ open[d].at <= L
    BY Numbers DEF IInv, Nested
  <2>2. \A d \in Jumped : open[d].at <= Len(pending')
    BY <1>4, <1>7, <2>1
  <2>3. \A d \in Jumped : open[d].kind = "circuit" =>
           open[d].at >= 1 /\ Temporary(pending'[open[d].at].reg)
    BY <1>4, <1>7, <2>1 DEF IInv, Nested
  <2> QED BY <1>11, <2>2, <2>3 DEF IInv, Nested
<1>16. Bodies'
  BY <1>8 DEF IInv, Bodies, emitter, run
<1>17. ASSUME ~returned, Passed(L + 1)
       PROVE  holds[locals[n]] = v
  <2>1. \A d \in Jumped : open[d].at \in Nat /\ open[d].at <= L
    BY Numbers DEF IInv, Nested
  <2>2. \A d \in Jumped : ~open[d].skip
    BY <1>4, <1>17, <2>1 DEF Passed
  <2>3. Running
    BY <1>17, <2>2 DEF Running, Jumped
  <2>4. variables[n] # Absent
    BY <2>3 DEF ReadLocal
  <2> QED BY <1>17, <2>3, <2>4 DEF IInv, Kept, v
<1>18. Kept'
  <2>1. returned' = returned /\ holds' = holds /\ variables' = variables /\ locals' = locals
    BY <1>8 DEF run, emitter
  <2>2. \A i \in Operands : pending'[i] = pending[i]
    BY <1>7, <1>11
  <2> QED BY <1>6, <1>7, <1>11, <1>12, <1>17, <2>1, <2>2 DEF IInv, Kept
<1> QED BY <1>9, <1>10, <1>14, <1>15, <1>16, <1>18 DEF IInv

\* A step that leaves the last operand alone pending, where it was.
LEMMA RightAlone ==
    ASSUME IInv, NEW k \in Nat, k >= 1, Alone(k), Available(k),
           Yield(k, Last(1).reg, Last(1).val),
           UNCHANGED <<locals, locals_end, in_fn, open, run, outer, in_place>>,
           slots' \in Seq(Names),
           next' \in 0..MaxRegs, high' \in 0..MaxRegs, locals_end <= next', next' <= high',
           Temporary(Last(1).reg) => Last(1).reg < next'
    PROVE  IInv'
<1> DEFINE op == [reg |-> Last(1).reg, val |-> Last(1).val]
<1>1. k = Len(pending) /\ k \in Operands /\ Last(1) = pending[k] /\ k \in 0..Len(pending)
  BY Numbers DEF Alone, Last, Operands, IInv
<1>2. op = pending[k] /\ pending[k] \in Operand
  BY <1>1, Numbers DEF IInv, Operand
<1>3. /\ pending' \in Seq(Operand) /\ Len(pending') = 1 /\ pending'[1] = pending[k]
  <2>1. pending' = Append(SubSeq(pending, 1, Len(pending) - k), op) /\ pending \in Seq(Operand)
    BY DEF Yield, IInv, TypeOK
  <2>2. /\ pending' \in Seq(Operand) /\ Len(pending') = Len(pending) - k + 1
        /\ pending'[Len(pending) - k + 1] = op
    BY <1>1, <1>2, <2>1, ReplaceLast
  <2> QED BY <1>1, <1>2, <2>2
<1> HIDE DEF op
<1>4. \A d \in Jumped : open[d].at = 0 /\ open[d].kind # "circuit"
  BY StatementJumps
<1>5. TypeOK'
  BY <1>3 DEF IInv, TypeOK, run
<1>6. Placed'
  BY DEF IInv, Placed
<1>7. Stacked'
  BY <1>1, <1>3 DEF Stacked, Operands, Temporary
<1>8. Nested'
  <2>1. Jumped' = Jumped /\ open' = open /\ 0 <= Len(pending')
    BY <1>3 DEF Jumped
  <2> QED BY <1>4, <2>1 DEF Nested
<1>9. Bodies'
  BY DEF IInv, Bodies, run
<1>10. Kept'
  <2>1. ASSUME ~returned, Passed(1)
        PROVE  holds[pending[k].reg] = pending[k].val
    <3>1. \A d \in Jumped : ~open[d].skip
      BY <1>4, <2>1 DEF Passed
    <3> QED BY <1>1, <2>1, <3>1 DEF IInv, Kept, Passed
  <2>2. Operands' = {1} /\ (Passed(1)' <=> Passed(1))
    BY <1>3 DEF Operands, Passed, Jumped
  <2>3. UNCHANGED <<returned, holds, variables, locals>>
    BY DEF run
  <2>4. ~returned => \A n \in Names : variables[n] # Absent =>
                        n \in DOMAIN locals /\ holds[locals[n]] = variables[n]
    BY DEF IInv, Kept
  <2>5. ~returned => (Passed(1) => holds[pending'[1].reg] = pending'[1].val)
    BY <1>3, <2>1
  <2> QED BY <2>2, <2>3, <2>4, <2>5 DEF Kept
<1> QED BY <1>5, <1>6, <1>7, <1>8, <1>9, <1>10 DEF IInv

\* The left operand is dropped from below the right one.
LEMMA CommaStep ==
    ASSUME IInv, Liberties = {}, Comma
    PROVE  IInv'
<1>1. Alone(2) /\ Available(2) /\ next' = Freed(next, Last(2).reg)
  BY DEF Comma
<1>2. /\ Len(pending) = 2 /\ Last(2) = pending[1] /\ Last(1) = pending[2]
      /\ 1 \in Operands /\ 2 \in Operands
  BY <1>1 DEF Alone, Last, Operands
<1>3. pending[1].reg \in Nat /\ pending[2].reg \in Nat /\ next \in Nat
  BY <1>2, Numbers DEF IInv
<1>4. \/ next' = next
      \/ next' = pending[1].reg /\ Temporary(pending[1].reg) /\ next = pending[1].reg + 1
  BY <1>1, <1>2, <1>3, FreedIs
<1>5. Temporary(pending[2].reg) => pending[2].reg < next'
  BY <1>2, <1>3, <1>4 DEF IInv, Stacked
<1>6. next' \in 0..MaxRegs /\ locals_end <= next' /\ next' <= high
  BY <1>3, <1>4, Numbers DEF IInv, Placed, Temporary
<1>7. high' = high /\ high \in 0..MaxRegs /\ slots' \in Seq(Names)
  BY DEF Comma, IInv, TypeOK
<1>8. Yield(2, Last(1).reg, Last(1).val)
      /\ UNCHANGED <<locals, locals_end, in_fn, open, run, outer, in_place>>
  BY DEF Comma
<1> QED BY <1>1, <1>2, <1>5, <1>6, <1>7, <1>8, RightAlone

\* The value stays, above the index consumed below it.
LEMMA AssignElementStep ==
    ASSUME IInv, Liberties = {}, NEW n \in Names, AssignElement(n)
    PROVE  IInv'
<1>1. Alone(2) /\ Available(2) /\ Yield(2, Last(1).reg, Last(1).val)
      /\ UNCHANGED <<locals, locals_end, in_fn, open, run, outer, in_place>>
  BY DEF AssignElement
<1>2. Last(1) = pending[2] /\ 2 \in Operands
  BY <1>1 DEF Alone, Last, Operands
<1>3. next' = next
  <2>1. CASE IsLocal(n)
    BY <2>1 DEF AssignElement
  <2>2. CASE ~IsLocal(n)
    BY <2>2, Numbers DEF AssignElement, Freed, Temporary, IInv, Placed
  <2> QED BY <2>1, <2>2
<1>4. slots' \in Seq(Names) /\ high' \in 0..MaxRegs /\ high <= high'
  <2>1. CASE IsLocal(n)
    BY <2>1, Numbers DEF AssignElement, IInv, TypeOK
  <2>2. CASE ~IsLocal(n)
    BY <2>2, SlotOfType, Numbers DEF AssignElement, IInv, Larger
  <2> QED BY <2>1, <2>2
<1>5. next' \in 0..MaxRegs /\ locals_end <= next' /\ next' <= high'
  BY <1>3, <1>4, Numbers DEF IInv, Placed, TypeOK
<1>6. Temporary(Last(1).reg) => Last(1).reg < next'
  BY <1>2, <1>3 DEF IInv, Stacked
<1> QED BY <1>1, <1>4, <1>5, <1>6, RightAlone

\* What moving the last operand to the register of a variable does.
LEMMA Moved ==
    ASSUME IInv, Available(1), NEW n \in Names, NEW r \in Reg, MoveTo(n, r)
    PROVE  /\ Len(pending) \in Operands /\ Last(1) = pending[Len(pending)]
           /\ holds' \in [Reg -> Value]
           /\ \A q \in Reg : q # r => holds'[q] = holds[q]
           /\ Last(1).reg = r => holds' = holds
           /\ variables' \in [Names -> Value \cup {Absent}]
           /\ \A m \in Names : m # n => variables'[m] = variables[m]
           /\ Running => variables'[n] = Last(1).val /\ holds'[r] = Last(1).val
           /\ ~Running => holds' = holds /\ variables' = variables
           /\ UNCHANGED <<slots, in_fn, pending, open, returned, outer, in_place>>
<1>1. 1 \in 0..Len(pending)
  BY AvailableThere DEF IInv
<1>2. Len(pending) \in Operands /\ Last(1) = pending[Len(pending)]
  BY <1>1, Numbers DEF IInv, Operands, Last
<1>3. Last(1).reg \in Reg /\ Last(1).val \in Value /\ holds \in [Reg -> Value]
  BY <1>2, Numbers DEF IInv, TypeOK
<1>4. Running => holds[Last(1).reg] = Last(1).val
  <2>1. Running => ~returned /\ Passed(Len(pending))
    BY DEF Running, Passed, Jumped
  <2> QED BY <1>2, <2>1 DEF IInv, Kept
<1>5. /\ holds' \in [Reg -> Value]
      /\ \A q \in Reg : q # r => holds'[q] = holds[q]
      /\ Last(1).reg = r => holds' = holds
      /\ Running => holds'[r] = Last(1).val
      /\ ~Running => holds' = holds
  BY <1>3, <1>4 DEF MoveTo, Put
<1>6. /\ variables' \in [Names -> Value \cup {Absent}]
      /\ \A m \in Names : m # n => variables'[m] = variables[m]
      /\ Running => variables'[n] = Last(1).val
      /\ ~Running => variables' = variables
  BY <1>3 DEF MoveTo, IInv, TypeOK
<1> QED BY <1>2, <1>5, <1>6 DEF MoveTo

\* A local is overwritten only where no operand pending is read from it.
LEMMA AssignLocalStep ==
    ASSUME IInv, Liberties = {}, NEW n \in Names, AssignLocal(n)
    PROVE  IInv'
<1> DEFINE L == Len(pending)
           r == locals[n]
<1>1. /\ Available(1) /\ n \in DOMAIN locals /\ r \in Reg /\ MoveTo(n, r)
      /\ UNCHANGED <<next, high, locals, locals_end>>
      /\ \A i \in 1..(L - 1) : pending[i].reg # r
  BY Numbers DEF AssignLocal, IsLocal, IInv
<1>2. /\ L \in Operands /\ Last(1) = pending[L]
      /\ holds' \in [Reg -> Value]
      /\ \A q \in Reg : q # r => holds'[q] = holds[q]
      /\ Last(1).reg = r => holds' = holds
      /\ variables' \in [Names -> Value \cup {Absent}]
      /\ \A m \in Names : m # n => variables'[m] = variables[m]
      /\ Running => variables'[n] = Last(1).val /\ holds'[r] = Last(1).val
      /\ ~Running => holds' = holds /\ variables' = variables
      /\ UNCHANGED <<slots, in_fn, pending, open, returned, outer, in_place>>
  BY <1>1, Moved
<1>3. TypeOK'
  BY <1>1, <1>2 DEF IInv, TypeOK
<1>4. Placed' /\ Stacked' /\ Nested'
  BY <1>1, <1>2 DEF IInv, Placed, Stacked, Nested, Operands, Jumped, Temporary
<1>5. Bodies'
  <2>1. in_fn
    <3>1. ~in_fn => DOMAIN locals = {}
      BY DEF IInv, Bodies
    <3> QED BY <1>1, <3>1
  <2> QED BY <1>2, <2>1 DEF IInv, Bodies
<1>6. ASSUME ~returned PROVE Kept'
  <2>1. ASSUME NEW i \in Operands, Passed(i)
        PROVE  holds'[pending[i].reg] = pending[i].val
    <3>1. holds[pending[i].reg] = pending[i].val /\ pending[i].reg \in Reg
      BY <1>6, <2>1, Numbers DEF IInv, Kept
    <3>2. i = L \/ i \in 1..(L - 1)
      BY Numbers DEF IInv, Operands
    <3>3. CASE i = L
      BY <1>2, <3>1, <3>3
    <3>4. CASE i \in 1..(L - 1)
      BY <1>1, <1>2, <3>1, <3>4
    <3> QED BY <3>2, <3>3, <3>4
  <2>2. ASSUME NEW m \in Names, variables'[m] # Absent
        PROVE  m \in DOMAIN locals /\ holds'[locals[m]] = variables'[m]
    <3>1. CASE m = n
      <4>1. CASE Running
        BY <1>1, <1>2, <3>1, <4>1
      <4>2. CASE ~Running
        BY <1>2, <1>6, <2>2, <4>2 DEF IInv, Kept
      <4> QED BY <4>1, <4>2
    <3>2. CASE m # n
      <4>1. m \in DOMAIN locals /\ holds[locals[m]] = variables[m] /\ variables'[m] = variables[m]
        BY <1>2, <1>6, <2>2, <3>2 DEF IInv, Kept
      <4>2. locals[m] \in Reg /\ locals[m] # r
        BY <1>1, <3>2, <4>1, Numbers DEF IInv, Placed
      <4> QED BY <1>2, <4>1, <4>2
    <3> QED BY <3>1, <3>2
  <2> QED BY <1>1, <1>2, <2>1, <2>2 DEF Kept, Operands, Passed, Jumped
<1>7. Kept'
  BY <1>2, <1>6 DEF Kept
<1> QED BY <1>3, <1>4, <1>5, <1>7 DEF IInv

\* A new local takes the register of its only operand, or one below it.
LEMMA AssignNewStep ==
    ASSUME IInv, Liberties = {}, NEW n \in Names, AssignNew(n)
    PROVE  IInv'
<1> DEFINE r == locals_end
<1>1. /\ Available(1) /\ Alone(1) /\ n \notin DOMAIN locals /\ in_fn
      /\ locals' = [m \in DOMAIN locals \cup {n} |-> IF m = n THEN r ELSE locals[m]]
      /\ locals_end' = r + 1 /\ next' = Larger(next, r + 1) /\ high' = Larger(high, next')
      /\ MoveTo(n, r)
  BY DEF AssignNew, IsLocal
<1>2. r \in Reg /\ r \in Nat /\ r + 1 \in 0..MaxRegs
  BY Numbers DEF AssignNew, Reg, IInv
<1>3. /\ Len(pending) \in Operands /\ Last(1) = pending[Len(pending)]
      /\ holds' \in [Reg -> Value]
      /\ \A q \in Reg : q # r => holds'[q] = holds[q]
      /\ Last(1).reg = r => holds' = holds
      /\ variables' \in [Names -> Value \cup {Absent}]
      /\ \A m \in Names : m # n => variables'[m] = variables[m]
      /\ Running => variables'[n] = Last(1).val /\ holds'[r] = Last(1).val
      /\ ~Running => holds' = holds /\ variables' = variables
      /\ UNCHANGED <<slots, in_fn, pending, open, returned, outer, in_place>>
  BY <1>1, <1>2, Moved
<1> HIDE DEF r
<1>4. Len(pending) = 1 /\ Operands = {1} /\ Last(1) = pending[1]
  BY <1>1, <1>3 DEF Alone, Operands
<1>5. /\ DOMAIN locals' = DOMAIN locals \cup {n} /\ locals'[n] = r
      /\ \A m \in DOMAIN locals : locals'[m] = locals[m] /\ locals[m] \in Reg
                                    /\ locals[m] \in Nat /\ locals[m] < r
  BY <1>1, Numbers DEF IInv, Placed, r
<1>6. /\ next' \in 0..MaxRegs /\ high' \in 0..MaxRegs
      /\ next <= next' /\ locals_end' <= next' /\ next' <= high'
  BY <1>1, <1>2, Numbers DEF IInv, Larger, Placed
<1>7. TypeOK'
  <2>1. locals' \in [DOMAIN locals \cup {n} -> Reg]
    BY <1>1, <1>2, <1>5
  <2>2. DOMAIN locals \cup {n} \in SUBSET Names
    BY DEF IInv, TypeOK
  <2> QED BY <1>1, <1>2, <1>3, <1>6, <2>1, <2>2 DEF IInv, TypeOK
<1>8. Placed'
  BY <1>1, <1>2, <1>5, <1>6 DEF IInv, Placed
<1>9. Stacked'
  <2>1. Operands' = {1} /\ pending' = pending
    BY <1>3, <1>4 DEF Operands
  <2>2. Temporary(pending[1].reg)' => Temporary(pending[1].reg)
    BY <1>1, <1>2, <1>3, <1>4, Numbers DEF Temporary, IInv, r
  <2>3. pending[1].reg \in Nat
    BY <1>4, Numbers DEF IInv
  <2>4. Temporary(pending[1].reg) => pending[1].reg < next'
    BY <1>4, <1>6, <2>3, Numbers DEF IInv, Stacked
  <2> QED BY <2>1, <2>2, <2>4 DEF Stacked
<1>10. Nested'
  <2>1. \A d \in Jumped : open[d].at = 0 /\ open[d].kind # "circuit"
    BY <1>1, StatementJumps
  <2> QED BY <1>3, <1>4, <2>1 DEF Nested, Jumped
<1>11. Bodies'
  BY <1>1, <1>3 DEF IInv, Bodies
<1>12. ASSUME ~returned PROVE Kept'
  <2>1. ASSUME Passed(1)
        PROVE  holds'[pending[1].reg] = pending[1].val
    <3>1. holds[pending[1].reg] = pending[1].val /\ pending[1].reg \in Reg
      BY <1>4, <1>12, <2>1, Numbers DEF IInv, Kept
    <3> QED BY <1>3, <1>4, <3>1
  <2>2. ASSUME NEW m \in Names, variables'[m] # Absent
        PROVE  m \in DOMAIN locals' /\ holds'[locals'[m]] = variables'[m]
    <3>1. CASE m = n /\ Running
      BY <1>3, <1>5, <3>1
    <3>2. CASE ~(m = n /\ Running)
      <4>1. variables'[m] = variables[m]
        BY <1>3, <3>2
      <4>2. m \in DOMAIN locals /\ holds[locals[m]] = variables[m]
        BY <1>12, <2>2, <4>1 DEF IInv, Kept
      <4>3. locals[m] \in Reg /\ locals[m] # r /\ locals'[m] = locals[m]
        BY <1>2, <1>5, <4>2
      <4> QED BY <1>3, <1>5, <4>1, <4>2, <4>3
    <3> QED BY <3>1, <3>2
  <2> QED BY <1>3, <1>4, <2>1, <2>2 DEF Kept, Operands, Passed, Jumped
<1>13. Kept'
  BY <1>3, <1>12 DEF Kept
<1> QED BY <1>7, <1>8, <1>9, <1>10, <1>11, <1>13 DEF IInv

\* A global is not in the frame.
LEMMA AssignGlobalStep ==
    ASSUME IInv, NEW n \in Names, AssignGlobal(n)
    PROVE  IInv'
<1>1. slots' \in Seq(Names)
  BY SlotOfType DEF AssignGlobal, IInv
<1>2. UNCHANGED <<next, high, locals, locals_end, in_fn, pending, open, run, outer, in_place>>
  BY DEF AssignGlobal
<1>3. TypeOK'
  BY <1>1, <1>2 DEF IInv, TypeOK, run
<1>4. Placed' /\ Stacked' /\ Nested' /\ Bodies'
  BY <1>2 DEF IInv, Placed, Stacked, Nested, Bodies, Operands, Jumped, Temporary, run
<1>5. Kept'
  BY <1>2 DEF IInv, Kept, Operands, Passed, Jumped, run
<1> QED BY <1>3, <1>4, <1>5 DEF IInv

\* The left operand is kept for the way that jumps.
LEMMA OpenCircuitStep ==
    ASSUME IInv, Liberties = {}, NEW skip \in BOOLEAN, OpenCircuit(skip)
    PROVE  IInv'
<1> DEFINE L == Len(pending)
           N == Len(open)
           j == [kind |-> "circuit", skip |-> skip, at |-> L]
<1>1. /\ Available(1) /\ Temporary(Last(1).reg)
      /\ UNCHANGED <<emitter, pending, run, outer, in_place>>
  BY DEF OpenCircuit
<1>2. 1 \in 0..L /\ \A d \in Jumped : open[d].at <= L - 1
  BY <1>1, AvailableThere DEF IInv
<1>3. L \in Nat /\ L >= 1 /\ Last(1) = pending[L] /\ \A d \in Jumped : open[d].at \in Nat
  BY <1>2, Numbers DEF Last, IInv
<1>4. j \in Jump /\ open' = Append(open, j) /\ open \in Seq(Jump)
  BY <1>3 DEF OpenCircuit, Jumps, Jump, IInv, TypeOK
<1>5. j.kind = "circuit" /\ j.at = L
  OBVIOUS
<1> HIDE DEF j
<1>6. /\ open' \in Seq(Jump) /\ Len(open') = N + 1 /\ N \in Nat
      /\ open'[N + 1] = j
      /\ \A d \in 1..N : open'[d] = open[d]
  BY <1>4, Appended
<1>7. /\ Jumped' = 1..(N + 1) /\ Jumped = 1..N
      /\ \A d \in Jumped' : d \in Jumped \/ d = N + 1
      /\ \A d \in Jumped : d \in Jumped' /\ open'[d] = open[d] /\ d < N + 1
  BY <1>6 DEF Jumped
<1>8. TypeOK'
  BY <1>1, <1>6 DEF IInv, TypeOK, emitter, run
<1>9. Placed' /\ Stacked' /\ Bodies'
  BY <1>1 DEF IInv, Placed, Stacked, Bodies, Operands, Temporary, emitter, run
<1>10. Nested'
  <2>1. pending' = pending /\ \A q : Temporary(q)' <=> Temporary(q)
    BY <1>1 DEF Temporary, emitter
  <2>2. \A d \in Jumped' : open'[d].at <= Len(pending')
    BY <1>2, <1>3, <1>5, <1>6, <1>7, <2>1
  <2>3. \A d \in Jumped' : open'[d].kind = "circuit" =>
           open'[d].at >= 1 /\ Temporary(pending'[open'[d].at].reg)
    BY <1>1, <1>3, <1>5, <1>6, <1>7, <2>1 DEF IInv, Nested
  <2>4. ASSUME NEW d \in Jumped', NEW e \in Jumped', d < e
        PROVE  /\ open'[d].at <= open'[e].at
               /\ open'[e].kind = "circuit" => open'[d].at < open'[e].at
    <3>1. d \in Jumped
      BY <1>6, <1>7, <2>4
    <3>2. CASE e \in Jumped
      BY <1>7, <2>4, <3>1, <3>2 DEF IInv, Nested
    <3>3. CASE e = N + 1
      BY <1>2, <1>3, <1>5, <1>6, <1>7, <3>1, <3>3
    <3> QED BY <1>7, <3>2, <3>3
  <2> QED BY <2>1, <2>2, <2>3, <2>4 DEF Nested
<1>11. Kept'
  <2>1. \A i : Passed(i)' => Passed(i)
    BY <1>7 DEF Passed
  <2> QED BY <1>1, <2>1 DEF IInv, Kept, Operands, emitter, run
<1> QED BY <1>8, <1>9, <1>10, <1>11 DEF IInv

\* Both ways leave their answer in the left operand's register.
LEMMA CloseCircuitStep ==
    ASSUME IInv, CloseCircuit
    PROVE  IInv'
<1>0. PICK N, L, lhs, rhs, op :
        /\ N = Len(open) /\ L = Len(pending) - 1
        /\ lhs = pending[L] /\ rhs = pending[L + 1]
        /\ op = [reg |-> lhs.reg, val |-> IF open[N].skip THEN lhs.val ELSE rhs.val]
  OBVIOUS
<1>1. /\ open # <<>> /\ open[N].kind = "circuit" /\ Len(pending) = open[N].at + 1
      /\ UNCHANGED <<high, slots, locals, locals_end, in_fn, returned, variables, outer, in_place>>
      /\ open' = SubSeq(open, 1, Len(open) - 1) /\ open \in Seq(Jump)
  BY <1>0 DEF CloseCircuit, IInv, TypeOK
<1>2. N \in Jumped /\ N \in Nat /\ N >= 1
  BY <1>0, <1>1 DEF Jumped
<1>3. open[N].at = L /\ L \in Nat /\ L >= 1 /\ Temporary(lhs.reg)
  <2>1. open[N].at >= 1 /\ Temporary(pending[open[N].at].reg)
    BY <1>1, <1>2 DEF IInv, Nested
  <2>2. open[N].at \in Nat /\ Len(pending) \in Nat
    BY <1>2, Numbers DEF IInv
  <2>3. open[N].at = L
    BY <1>0, <1>1, <2>2
  <2> QED BY <1>0, <2>1, <2>2, <2>3
<1>4. /\ L \in Operands /\ L + 1 \in Operands /\ Len(pending) = L + 1
      /\ Last(2) = lhs /\ Last(1) = rhs
  BY <1>0, <1>3, Numbers DEF Operands, Last, IInv
<1>5. /\ lhs.reg \in Reg /\ lhs.reg \in Nat /\ lhs.val \in Value
      /\ rhs.reg \in Reg /\ rhs.reg \in Nat /\ rhs.val \in Value
  BY <1>0, <1>4, Numbers DEF IInv
<1>6. op \in Operand /\ op.reg = lhs.reg /\ op.val = IF open[N].skip THEN lhs.val ELSE rhs.val
  BY <1>0, <1>5 DEF Operand
<1>7. pending' = Append(SubSeq(pending, 1, Len(pending) - 2), op) /\ pending \in Seq(Operand)
  BY <1>0, <1>4 DEF CloseCircuit, Yield, IInv, TypeOK
<1>8. /\ pending' \in Seq(Operand) /\ Len(pending') = L /\ pending'[L] = op
      /\ \A i \in 1..(L - 1) : pending'[i] = pending[i]
  <2>1. 2 \in 0..Len(pending) /\ Len(pending) - 2 = L - 1 /\ Len(pending) - 2 + 1 = L
    BY <1>3, <1>4
  <2>2. PICK k \in 0..Len(pending) : k = 2
    BY <2>1
  <2>3. pending' = Append(SubSeq(pending, 1, Len(pending) - k), op)
    BY <1>7, <2>2
  <2>4. /\ pending' \in Seq(Operand) /\ Len(pending') = Len(pending) - k + 1
        /\ pending'[Len(pending) - k + 1] = op
        /\ \A i \in 1..(Len(pending) - k) : pending'[i] = pending[i]
    BY <1>6, <1>7, <2>3, ReplaceLast
  <2> QED BY <2>1, <2>2, <2>4
<1>9. /\ open' \in Seq(Jump) /\ Len(open') = N - 1 /\ Len(open') \in Nat
      /\ \A d \in 1..(N - 1) : open'[d] = open[d]
  BY <1>0, <1>1, DropLast
<1>10. /\ Jumped' = 1..(N - 1) /\ Jumped = 1..N
       /\ \A d \in Jumped' : d \in Jumped /\ d < N /\ open'[d] = open[d] /\ open[d].at < L
                             /\ open[d].at \in Nat
       /\ \A d \in Jumped : d \in Jumped' \/ d = N
  <2>1. Jumped' = 1..(N - 1) /\ Jumped = 1..N
    BY <1>0, <1>9 DEF Jumped
  <2>2. \A d \in Jumped' : d \in Jumped /\ d < N /\ open'[d] = open[d]
    BY <1>2, <1>9, <2>1
  <2>3. \A d \in Jumped' : open[d].at < L /\ open[d].at \in Nat
    BY <1>1, <1>2, <1>3, <2>2, Numbers DEF IInv, Nested
  <2> QED BY <1>2, <2>1, <2>2, <2>3
<1>11. Operands' = 1..L /\ \A i \in 1..L : i \in Operands /\ (i \in 1..(L - 1) \/ i = L)
                         /\ pending'[i].reg = pending[i].reg
  <2>1. Operands' = 1..L /\ \A i \in 1..L : i \in Operands /\ (i \in 1..(L - 1) \/ i = L)
    BY <1>3, <1>4, <1>8 DEF Operands
  <2>2. pending'[L].reg = pending[L].reg
    BY <1>0, <1>6, <1>8
  <2> QED BY <1>8, <2>1, <2>2
<1>12. \A i \in 1..(L - 1) : pending[i].reg \in Reg /\ pending[i].reg # lhs.reg
  <2> TAKE i \in 1..(L - 1)
  <2>1. i \in Operands /\ i < L /\ pending[i].reg \in Nat /\ pending[i].reg \in Reg
    BY <1>3, <1>11, Numbers DEF IInv
  <2>2. CASE Temporary(pending[i].reg)
    BY <1>0, <1>3, <1>4, <1>5, <2>1, <2>2 DEF IInv, Stacked
  <2>3. CASE ~Temporary(pending[i].reg)
    BY <1>3, <2>1, <2>3
  <2> QED BY <2>1, <2>2, <2>3
<1>13. holds \in [Reg -> Value] /\ holds[rhs.reg] \in Value
  BY <1>5 DEF IInv, TypeOK
<1>14. /\ holds' \in [Reg -> Value]
       /\ \A q \in Reg : q # lhs.reg => holds'[q] = holds[q]
       /\ Running => holds'[lhs.reg] = holds[rhs.reg]
       /\ ~Running => holds' = holds
  BY <1>4, <1>5, <1>13 DEF CloseCircuit, Put
<1>15. next' = next \/ (next' = rhs.reg /\ Temporary(rhs.reg) /\ next = rhs.reg + 1)
  <2>1. next' = next \/ next' = Freed(next, rhs.reg)
    BY <1>4 DEF CloseCircuit
  <2>2. next \in Int /\ rhs.reg \in Int
    BY <1>5, Numbers DEF IInv
  <2> QED BY <2>1, <2>2, FreedIs
<1>16. next' \in 0..MaxRegs /\ locals_end <= next' /\ next' <= high
  BY <1>5, <1>15, Numbers DEF IInv, Placed, Temporary
<1>17. \A i \in 1..L : Temporary(pending[i].reg) => pending[i].reg < next'
  <2> TAKE i \in 1..L
  <2>1. i \in Operands /\ i < L + 1 /\ pending[i].reg \in Nat
    BY <1>3, <1>11, Numbers DEF IInv
  <2>2. CASE next' = next
    BY <2>1, <2>2 DEF IInv, Stacked
  <2>3. CASE next' = rhs.reg /\ Temporary(rhs.reg)
    BY <1>0, <1>4, <2>1, <2>3 DEF IInv, Stacked
  <2> QED BY <1>15, <2>2, <2>3
<1>18. \A q : Temporary(q)' <=> Temporary(q)
  BY <1>1 DEF Temporary
<1>19. TypeOK'
  BY <1>1, <1>8, <1>9, <1>14, <1>16 DEF IInv, TypeOK
<1>20. Placed' /\ Bodies'
  BY <1>1, <1>16 DEF IInv, Placed, Bodies
<1>21. Stacked'
  <2>1. \A i \in 1..L : Temporary(pending'[i].reg) => pending'[i].reg < next'
    BY <1>11, <1>17
  <2>2. \A i, j \in 1..L : i < j /\ Temporary(pending'[i].reg) /\ Temporary(pending'[j].reg)
                            => pending'[i].reg < pending'[j].reg
    BY <1>11 DEF IInv, Stacked
  <2> QED BY <1>11, <1>18, <2>1, <2>2 DEF Stacked
<1>22. Nested'
  <2>1. \A d \in Jumped' : open'[d].at <= Len(pending')
    BY <1>3, <1>8, <1>10
  <2>2. ASSUME NEW d \in Jumped', open'[d].kind = "circuit"
        PROVE  open'[d].at >= 1 /\ Temporary(pending'[open'[d].at].reg)
    <3>1. open[d].at >= 1 /\ Temporary(pending[open[d].at].reg) /\ open[d].at \in 1..L
      BY <1>3, <1>10, <2>2 DEF IInv, Nested
    <3> QED BY <1>10, <1>11, <3>1
  <2>3. \A d, e \in Jumped' : d < e =>
          /\ open'[d].at <= open'[e].at
          /\ open'[e].kind = "circuit" => open'[d].at < open'[e].at
    BY <1>10 DEF IInv, Nested
  <2> QED BY <1>18, <2>1, <2>2, <2>3 DEF Nested
<1>23. ASSUME ~returned PROVE Kept'
  <2>1. ASSUME NEW i \in 1..(L - 1), Passed(i)'
        PROVE  holds'[pending'[i].reg] = pending'[i].val
    <3>1. Passed(i)
      BY <1>3, <1>10, <2>1 DEF Passed
    <3>2. i \in Operands
      BY <1>3, <1>11
    <3>3. holds[pending[i].reg] = pending[i].val
      BY <1>23, <3>1, <3>2 DEF IInv, Kept
    <3> QED BY <1>8, <1>12, <1>14, <3>3
  <2>2. ASSUME Passed(L)'
        PROVE  holds'[op.reg] = op.val
    <3>1. \A d \in Jumped' : ~open[d].skip
      BY <1>3, <1>10, <2>2 DEF Passed
    <3>2. CASE open[N].skip
      <4>1. ~Running
        BY <1>0, <1>2, <3>2 DEF Running, Jumped
      <4>2. Passed(L)
        BY <1>3, <1>10, <3>1 DEF Passed
      <4>3. holds[lhs.reg] = lhs.val
        BY <1>0, <1>4, <1>23, <4>2 DEF IInv, Kept
      <4> QED BY <1>6, <1>14, <3>2, <4>1, <4>3
    <3>3. CASE ~open[N].skip
      <4>1. \A d \in Jumped : ~open[d].skip
        BY <1>10, <3>1, <3>3
      <4>2. Running /\ Passed(L + 1)
        BY <1>23, <4>1 DEF Running, Jumped, Passed
      <4>3. holds[rhs.reg] = rhs.val
        BY <1>0, <1>4, <1>23, <4>2 DEF IInv, Kept
      <4> QED BY <1>6, <1>14, <3>3, <4>2, <4>3
    <3> QED BY <3>2, <3>3
  <2>3. \A i \in Operands' : Passed(i)' => holds'[pending'[i].reg] = pending'[i].val
    <3> TAKE i \in Operands'
    <3>1. i \in 1..(L - 1) \/ (i = L /\ pending'[i] = op)
      BY <1>8, <1>11
    <3> QED BY <2>1, <2>2, <3>1
  <2>4. ASSUME NEW m \in Names, variables[m] # Absent
        PROVE  m \in DOMAIN locals /\ holds'[locals[m]] = variables[m]
    <3>1. m \in DOMAIN locals /\ holds[locals[m]] = variables[m]
      BY <1>23, <2>4 DEF IInv, Kept
    <3>2. locals[m] \in Reg /\ locals[m] # lhs.reg
      BY <1>3, <1>5, <3>1, Numbers DEF IInv, Placed, Temporary
    <3> QED BY <1>14, <3>1, <3>2
  <2> QED BY <1>1, <2>3, <2>4 DEF Kept
<1>24. Kept'
  BY <1>1, <1>23 DEF Kept
<1> QED BY <1>19, <1>20, <1>21, <1>22, <1>24 DEF IInv

\* The body's variables are its parameters, in the first registers.
LEMMA BeginFnStep ==
    ASSUME IInv, Liberties = {},
           NEW ps \in Params, NEW args \in [1..Len(ps) -> Value], BeginFn(ps, args)
    PROVE  IInv'
<1>1. ~in_fn /\ outer = <<>> /\ pending = <<>> /\ slots' = slots /\ in_place' = in_place
  BY DEF BeginFn, Statement, IInv, Bodies
<1>2. PICK k \in 0..MaxArgs : /\ ps \in [1..k -> Names]
                              /\ \A i, j \in 1..k : ps[i] = ps[j] => i = j
  BY DEF Params
<1>3. k \in Nat /\ Len(ps) = k
  BY <1>2, EmitterAssumption
<1>4. /\ k <= MaxRegs /\ locals_end' = k /\ next' = k /\ high' = Larger(high, k)
      /\ in_fn' = TRUE /\ open' = <<>> /\ pending' = <<>> /\ returned' = FALSE
      /\ outer' = Append(outer, [open |-> open, returned |-> returned, variables |-> variables])
      /\ locals' = [n \in {ps[i] : i \in 1..k} |-> (CHOOSE i \in 1..k : ps[i] = n) - 1]
      /\ holds' = [r \in Reg |-> IF r < k THEN args[r + 1] ELSE Unit]
      /\ variables' = [n \in Names |->
                          IF n \in DOMAIN locals' THEN args[locals'[n] + 1] ELSE Absent]
      /\ args \in [1..k -> Value]
  BY <1>1, <1>3 DEF BeginFn
<1>5. ASSUME NEW n \in DOMAIN locals'
      PROVE  \E i \in 1..k : n = ps[i] /\ locals'[n] = i - 1 /\ n \in Names
  <2>1. PICK i \in 1..k : n = ps[i]
    BY <1>4
  <2>2. (CHOOSE j \in 1..k : ps[j] = n) = i
    BY <1>2, <2>1
  <2> QED BY <1>2, <1>4, <2>1, <2>2
<1>6. \A n \in DOMAIN locals' : /\ n \in Names /\ locals'[n] \in Reg /\ locals'[n] \in 0..(k - 1)
                                /\ locals'[n] + 1 \in 1..k
  <2> TAKE n \in DOMAIN locals'
  <2>1. PICK i \in 1..k : n = ps[i] /\ locals'[n] = i - 1 /\ n \in Names
    BY <1>5
  <2> QED BY <1>3, <1>4, <2>1, EmitterAssumption DEF Reg
<1>7. \A m, n \in DOMAIN locals' : locals'[m] = locals'[n] => m = n
  BY <1>5
<1>8. locals' \in [DOMAIN locals' -> Reg] /\ DOMAIN locals' \in SUBSET Names
  BY <1>4, <1>6
<1>9. holds' \in [Reg -> Value]
  <2>1. \A q \in Reg : q < k => q + 1 \in 1..k
    BY <1>3, EmitterAssumption DEF Reg
  <2>2. \A q \in Reg : (IF q < k THEN args[q + 1] ELSE Unit) \in Value
    BY <1>4, <2>1, EmitterAssumption
  <2> QED BY <1>4, <2>2
<1>10. variables' \in [Names -> Value \cup {Absent}]
  BY <1>4, <1>6
<1>11. high' \in 0..MaxRegs /\ k <= high'
  BY <1>3, <1>4, Numbers DEF IInv, Larger
<1> DEFINE around == [open |-> open, returned |-> returned, variables |-> variables]
<1>12. around \in [open : Seq(Jump), returned : BOOLEAN,
                   variables : [Names -> Value \cup {Absent}]]
  BY DEF IInv, TypeOK
<1>13. around.open = open /\ around.variables = variables
  OBVIOUS
<1>14. outer' = Append(<<>>, around)
  BY <1>1, <1>4
<1> HIDE DEF around
<1>15. /\ Len(outer') = 1 /\ outer'[1] = around /\ outer' # <<>>
       /\ outer' \in Seq([open : Seq(Jump), returned : BOOLEAN,
                          variables : [Names -> Value \cup {Absent}]])
  BY <1>12, <1>14
<1>16. \A d \in Jumped : open[d].at = 0 /\ open[d].kind # "circuit"
  <2>1. Alone(0)
    BY <1>1 DEF Alone
  <2> QED BY <2>1, StatementJumps
<1>17. TypeOK'
  <2>1. \E D \in SUBSET Names : locals' \in [D -> Reg]
    BY <1>8
  <2>2. next' \in 0..MaxRegs /\ locals_end' \in 0..MaxRegs
    BY <1>3, <1>4, EmitterAssumption
  <2>5. in_fn' \in BOOLEAN /\ returned' \in BOOLEAN
    BY <1>4, Zenon
  <2>3. pending' \in Seq(Operand) /\ open' \in Seq(Jump)
    BY <1>4
  <2>4. slots' \in Seq(Names) /\ in_place' \in BOOLEAN
    BY <1>1 DEF IInv, TypeOK
  <2> QED BY <1>9, <1>10, <1>11, <1>15, <2>1, <2>2, <2>3, <2>4, <2>5 DEF TypeOK
<1>18. Placed'
  <2>1. locals_end' <= next' /\ next' <= high'
    BY <1>3, <1>4, <1>11
  <2>2. ASSUME NEW n \in DOMAIN locals' PROVE locals'[n] < locals_end'
    <3>1. locals_end' = k
      BY <1>4
    <3>2. locals'[n] \in 0..(k - 1)
      BY <1>6
    <3> QED BY <1>3, <3>1, <3>2
  <2> QED BY <1>7, <2>1, <2>2 DEF Placed
<1>19. Operands' = {} /\ Jumped' = {}
  BY <1>4 DEF Operands, Jumped
<1>20. Stacked' /\ Nested'
  BY <1>19 DEF Stacked, Nested
<1>21. Bodies'
  <2>1. \A n \in Names : around.variables[n] = Absent
    BY <1>1, <1>13 DEF IInv, Bodies
  <2>2. \A d \in 1..Len(around.open) : around.open[d].at = 0 /\ around.open[d].kind # "circuit"
    BY <1>13, <1>16 DEF Jumped
  <2> QED BY <1>4, <1>15, <2>1, <2>2 DEF Bodies
<1>22. Kept'
  <2>1. \A n \in Names : variables'[n] # Absent =>
           n \in DOMAIN locals' /\ holds'[locals'[n]] = variables'[n]
    <3> TAKE n \in Names
    <3>1. variables'[n] = IF n \in DOMAIN locals' THEN args[locals'[n] + 1] ELSE Absent
      BY <1>4
    <3>2. CASE n \in DOMAIN locals'
      <4>1. locals'[n] \in Reg /\ locals'[n] < k
        BY <1>3, <1>6, <3>2
      <4>2. holds'[locals'[n]] = args[locals'[n] + 1]
        BY <1>4, <4>1
      <4> QED BY <3>1, <3>2, <4>2
    <3> QED BY <3>1, <3>2
  <2> QED BY <1>19, <2>1 DEF Kept
<1> QED BY <1>17, <1>18, <1>20, <1>21, <1>22 DEF IInv

\* The code around is at a statement and has nothing in registers.
LEMMA EndFnStep ==
    ASSUME IInv, EndFn
    PROVE  IInv'
<1>1. /\ pending = <<>> /\ pending' = <<>> /\ outer # <<>>
      /\ outer \in Seq([open : Seq(Jump), returned : BOOLEAN,
                        variables : [Names -> Value \cup {Absent}]])
      /\ high' = high /\ slots' = slots /\ in_place' = in_place
      /\ holds' = [r \in Reg |-> Unit] /\ locals' = [n \in {} |-> 0]
      /\ locals_end' = 0 /\ in_fn' = FALSE /\ next' = 0
  <2>1. outer \in Seq([open : Seq(Jump), returned : BOOLEAN,
                      variables : [Names -> Value \cup {Absent}]])
    BY DEF IInv, TypeOK
  <2> QED BY <2>1 DEF EndFn, Statement
<1>2. Len(outer) = 1
  <2> DEFINE S == [open : Seq(Jump), returned : BOOLEAN,
                   variables : [Names -> Value \cup {Absent}]]
  <2>1. outer \in Seq(S) /\ outer # <<>> /\ Len(outer) <= 1
    BY <1>1 DEF IInv, Bodies
  <2> HIDE DEF S
  <2>2. Len(outer) \in Nat \ {0}
    BY <2>1, EmptySeq
  <2> QED BY <2>1, <2>2
<1>3. /\ open' = outer[1].open /\ returned' = outer[1].returned
      /\ variables' = outer[1].variables /\ outer' = <<>>
  <2>1. outer' = SubSeq(outer, 1, 0)
    BY <1>2 DEF EndFn
  <2> QED BY <1>1, <1>2, <2>1 DEF EndFn
<1>4. outer[1] \in [open : Seq(Jump), returned : BOOLEAN,
                    variables : [Names -> Value \cup {Absent}]]
  <2> DEFINE S == [open : Seq(Jump), returned : BOOLEAN,
                   variables : [Names -> Value \cup {Absent}]]
  <2>1. outer \in Seq(S)
    BY <1>1
  <2> HIDE DEF S
  <2>2. 1 \in 1..Len(outer)
    BY <1>2
  <2>3. outer[1] \in S
    BY <2>1, <2>2, ElementOfSeq
  <2> QED BY <2>3 DEF S
<1>5. /\ open' \in Seq(Jump) /\ returned' \in BOOLEAN
      /\ variables' \in [Names -> Value \cup {Absent}]
  BY <1>3, <1>4
<1>6. \A d \in 1..Len(open') : open'[d].at = 0 /\ open'[d].kind # "circuit"
  BY <1>1, <1>3 DEF IInv, Bodies
<1>7. \A n \in Names : variables'[n] = Absent
  BY <1>1, <1>3 DEF IInv, Bodies
<1>8. holds' \in [Reg -> Value] /\ locals' \in [{} -> Reg] /\ DOMAIN locals' = {}
  BY <1>1, EmitterAssumption
<1>9. high \in Nat /\ high <= MaxRegs /\ MaxRegs \in Nat
  BY Numbers DEF IInv
<1>10. TypeOK'
  <2>1. \E D \in SUBSET Names : locals' \in [D -> Reg]
    BY <1>8
  <2>2. next' \in 0..MaxRegs /\ high' \in 0..MaxRegs /\ locals_end' \in 0..MaxRegs
    BY <1>1, <1>9
  <2>5. in_fn' \in BOOLEAN
    BY <1>1, Zenon
  <2>3. /\ pending' \in Seq(Operand)
        /\ outer' \in Seq([open : Seq(Jump), returned : BOOLEAN,
                           variables : [Names -> Value \cup {Absent}]])
    BY <1>1, <1>3
  <2>4. slots' \in Seq(Names) /\ in_place' \in BOOLEAN
    BY <1>1 DEF IInv, TypeOK
  <2> QED BY <1>5, <1>8, <2>1, <2>2, <2>3, <2>4, <2>5 DEF TypeOK
<1>11. Operands' = {} /\ Len(pending') = 0
  BY <1>1 DEF Operands
<1>12. Placed' /\ Stacked'
  BY <1>1, <1>8, <1>9, <1>11 DEF Placed, Stacked
<1>13. Nested' /\ Bodies'
  BY <1>1, <1>3, <1>6, <1>7, <1>8, <1>11 DEF Nested, Bodies, Jumped
<1>14. Kept'
  BY <1>7, <1>11 DEF Kept
<1> QED BY <1>10, <1>12, <1>13, <1>14 DEF IInv

----------------------------------------------------------------------------
(* The invariant.                                                          *)

\* Nothing has been compiled.
LEMMA Start ==
    ASSUME Init
    PROVE  IInv
<1>1. TypeOK
  <2>1. \E D \in SUBSET Names : locals \in [D -> Reg]
    <3>1. {} \in SUBSET Names /\ locals \in [{} -> Reg]
      BY DEF Init
    <3> QED BY <3>1
  <2>2. next \in 0..MaxRegs /\ high \in 0..MaxRegs /\ locals_end \in 0..MaxRegs
    BY EmitterAssumption DEF Init
  <2>5. in_fn \in BOOLEAN /\ returned \in BOOLEAN /\ in_place \in BOOLEAN
    BY Zenon DEF Init
  <2>3. /\ slots \in Seq(Names) /\ pending \in Seq(Operand) /\ open \in Seq(Jump)
        /\ outer \in Seq([open : Seq(Jump), returned : BOOLEAN,
                          variables : [Names -> Value \cup {Absent}]])
    BY DEF Init
  <2>4. holds \in [Reg -> Value] /\ variables \in [Names -> Value \cup {Absent}]
    BY EmitterAssumption DEF Init
  <2> QED BY <2>1, <2>2, <2>3, <2>4, <2>5 DEF TypeOK
<1>2. Operands = {} /\ Jumped = {}
  BY DEF Init, Operands, Jumped
<1>3. Placed /\ Stacked /\ Nested /\ Bodies /\ Kept
  BY <1>2 DEF Init, Placed, Stacked, Nested, Bodies, Kept
<1> QED BY <1>1, <1>3 DEF IInv

\* Compiling a construct the emitter can compile keeps the invariant.
LEMMA Step ==
    ASSUME IInv, Liberties = {}, [Next]_vars
    PROVE  IInv'
<1>1. CASE UNCHANGED vars
  BY <1>1 DEF IInv, TypeOK, Placed, Stacked, Nested, Bodies, Kept, Operands, Jumped,
              Temporary, Passed, vars, emitter, run
<1>2. CASE \E v \in Value : Const(v) \/ Unary(v) \/ Binary(v)
  BY <1>2, ConstStep, UnaryStep, BinaryStep
<1>3. CASE \E n \in Names, v \in Value : ReadGlobal(n, v) \/ Index(n, v)
  BY <1>3, ReadGlobalStep, IndexStep
<1>4. CASE \E n \in Names : \/ ReadLocal(n) \/ AssignLocal(n) \/ AssignNew(n)
                           \/ AssignGlobal(n) \/ AssignElement(n)
  BY <1>4, ReadLocalStep, AssignLocalStep, AssignNewStep, AssignGlobalStep, AssignElementStep
<1>5. CASE \E v \in Value : \/ \E k \in 0..MaxArgs : Call(k, v)
                           \/ \E k \in 1..MaxArgs : List(k, v)
  BY <1>5, CallStep, ListStep
<1>6. CASE \E skip \in BOOLEAN : OpenCircuit(skip) \/ BeginIf(skip)
  BY <1>6, OpenCircuitStep, BeginIfStep
<1>7. CASE Comma \/ CloseCircuit \/ Else \/ EndIf \/ EndStatement \/ Return \/ EndFn
  BY <1>7, CommaStep, CloseCircuitStep, ElseStep, EndIfStep, StatementStep, EndFnStep
<1>8. CASE \E ps \in Params : \E args \in [1..Len(ps) -> Value] : BeginFn(ps, args)
  BY <1>8, BeginFnStep
<1> QED BY <1>1, <1>2, <1>3, <1>4, <1>5, <1>6, <1>7, <1>8 DEF Next

\* The invariant is one of the specification.
LEMMA Invariant ==
    ASSUME Liberties = {}
    PROVE  Spec => []IInv
<1>1. Init => IInv
  BY Start
<1>2. IInv /\ [Next]_vars => IInv'
  BY Step
<1> QED BY <1>1, <1>2, PTL DEF Spec

\* What the emitter and a run of its code hold is of the right shape.
THEOREM TypeCorrect ==
    ASSUME Liberties = {}
    PROVE  Spec => []TypeOK
<1>1. IInv => TypeOK
  BY DEF IInv
<1> QED BY <1>1, Invariant, PTL

\* The registers an operand and a variable are in are not written by what is
\* compiled between, however deep the expression and whichever way its jumps go:
\* an instruction finds the operands it was given.
THEOREM OperandsCorrect ==
    ASSUME Liberties = {}
    PROVE  Spec => []OperandsKept
<1>1. IInv => OperandsKept
  <2> SUFFICES ASSUME IInv, Running, NEW i \in 1..Len(pending)
               PROVE  holds[pending[i].reg] = pending[i].val
    BY DEF OperandsKept
  <2>1. Passed(i) /\ ~returned /\ i \in Operands
    BY DEF Running, Passed, Jumped, Operands
  <2> QED BY <2>1 DEF IInv, Kept
<1> QED BY <1>1, Invariant, PTL

\* A variable of a function's body is in its register for the whole body,
\* whatever temporaries come and go above it (emit.rs: "Its slot belongs to the
\* variable for the whole body").
THEOREM VariablesCorrect ==
    ASSUME Liberties = {}
    PROVE  Spec => []VariablesKept
<1>1. IInv => VariablesKept
  BY DEF IInv, Kept, VariablesKept, Running, IsLocal
<1> QED BY <1>1, Invariant, PTL

\* The frame size recorded for a body covers every register its code uses.
THEOREM FrameCorrect ==
    ASSUME Liberties = {}
    PROVE  Spec => []FrameCovers
<1>1. IInv => FrameCovers
  <2> SUFFICES ASSUME IInv PROVE FrameCovers
    OBVIOUS
  <2>1. locals_end <= next /\ next <= high /\ \A n \in DOMAIN locals : locals[n] < locals_end
    BY DEF IInv, Placed
  <2>2. ASSUME NEW i \in 1..Len(pending) PROVE pending[i].reg < high
    <3>1. i \in Operands /\ pending[i].reg \in Nat
      BY Numbers DEF IInv, Operands
    <3>2. pending[i].reg < next
      BY <2>1, <3>1, Numbers DEF IInv, Stacked, Temporary
    <3> QED BY <2>1, <3>1, <3>2, Numbers DEF IInv
  <2> QED BY <2>1, <2>2 DEF FrameCovers
<1> QED BY <1>1, Invariant, PTL

----------------------------------------------------------------------------
(* Arguments side by side.                                                 *)

\* From a temporary among the first l operands up to n, every register is that
\* of one of those operands.
Filled(l, n) ==
    \A i \in 1..l : Temporary(pending[i].reg) =>
        \A q \in pending[i].reg..(n - 1) : \E j \in 1..l : pending[j].reg = q

\* No scratch register above a pending temporary has been lost.
NoneLost == Filled(Len(pending), next)

\* Where none is lost, the last operand is next to the free registers, or is a
\* variable's.
LEMMA LastIsTop ==
    ASSUME IInv, NEW l \in Operands, NEW n \in Int, Filled(l, n),
           Temporary(pending[l].reg), pending[l].reg < n
    PROVE  n = pending[l].reg + 1
<1>1. pending[l].reg \in Nat /\ 1..l \subseteq Operands /\ l \in 1..l
  BY Numbers DEF IInv, Operands
<1>2. PICK j \in 1..l : pending[j].reg = n - 1
  <2>1. n - 1 \in pending[l].reg..(n - 1)
    BY <1>1
  <2> QED BY <1>1, <2>1 DEF Filled
<1>3. Temporary(pending[j].reg)
  BY <1>1, <1>2, Numbers DEF IInv, Temporary
<1>4. j < l => pending[j].reg < pending[l].reg
  BY <1>1, <1>3 DEF IInv, Stacked
<1> QED BY <1>1, <1>2, <1>4

\* Freeing the last operand but k loses no register.
LEMMA FreedFills ==
    ASSUME IInv, NEW k \in Nat, Available(k + 1), NEW n \in Int,
           \A i \in 1..(Len(pending) - k) : Temporary(pending[i].reg) => pending[i].reg < n,
           Filled(Len(pending) - k, n)
    PROVE  Filled(Len(pending) - (k + 1), Freed(n, Last(k + 1).reg))
<1> DEFINE l == Len(pending) - k
           p == pending[l].reg
           m == Freed(n, p)
<1>1. k + 1 \in 0..Len(pending) /\ Len(pending) \in Nat
  BY AvailableThere, Numbers DEF IInv
<1>2. /\ l \in Operands /\ Last(k + 1) = pending[l] /\ 1..l \subseteq Operands
      /\ Len(pending) - (k + 1) = l - 1 /\ l \in Nat /\ l >= 1
  BY <1>1 DEF Operands, Last
<1>3. p \in Nat /\ locals_end \in Nat /\ \A i \in 1..l : pending[i].reg \in Nat
  BY <1>2, Numbers DEF IInv
<1>4. Filled(l, n) /\ (Temporary(p) => p < n)
  BY <1>2
<1>5. Temporary(p) => n = p + 1
  BY <1>2, <1>4, LastIsTop
<1>6. m = IF Temporary(p) THEN p ELSE n
  BY <1>3, <1>5 DEF Freed
<1> HIDE DEF l, m
<1> SUFFICES ASSUME NEW i \in 1..(l - 1), Temporary(pending[i].reg),
                    NEW q \in pending[i].reg..(m - 1)
             PROVE  \E j \in 1..(l - 1) : pending[j].reg = q
  BY <1>2 DEF Filled, m
<1>7. i \in 1..l /\ i < l /\ 1..(l - 1) \subseteq 1..l
  BY <1>2
<1>8. (Temporary(p) => pending[i].reg < p) /\ pending[i].reg \in Nat
  BY <1>2, <1>3, <1>7 DEF IInv, Stacked
<1>9. q \in pending[i].reg..(n - 1) /\ q # p
  <2>1. CASE Temporary(p)
    BY <1>3, <1>5, <1>6, <1>8, <2>1
  <2>2. CASE ~Temporary(p)
    BY <1>3, <1>6, <1>8, <2>2 DEF Temporary
  <2> QED BY <2>1, <2>2
<1>10. PICK j \in 1..l : pending[j].reg = q
  BY <1>4, <1>7, <1>9 DEF Filled
<1>11. j \in 1..(l - 1)
  BY <1>2, <1>9, <1>10
<1> QED BY <1>10, <1>11

\* An instruction whose result goes next to the operands that stay loses none.
LEMMA InstructionFills ==
    ASSUME IInv, NEW k \in Nat, NEW r \in Int, NEW v \in Value, Instruction(k, r, v),
           r >= locals_end, Filled(Len(pending) - k, r)
    PROVE  NoneLost'
<1> DEFINE l == Len(pending) - k
           op == [reg |-> r, val |-> v]
<1>1. k \in 0..Len(pending) /\ l \in Nat
  BY AvailableThere, Numbers DEF IInv, Instruction
<1>2. r \in Reg /\ next' = r + 1 /\ locals_end' = locals_end
  BY Numbers DEF IInv, Instruction, Alloc, Reg
<1>3. op \in Operand /\ op.reg = r /\ pending' = Append(SubSeq(pending, 1, l), op)
  BY <1>2 DEF Operand, Instruction, Yield
<1> HIDE DEF op
<1>4. Len(pending') = l + 1 /\ pending'[l + 1] = op /\ \A i \in 1..l : pending'[i] = pending[i]
  <2>1. pending \in Seq(Operand)
    BY DEF IInv, TypeOK
  <2> QED BY <1>1, <1>3, <2>1, ReplaceLast
<1>5. \A i \in 1..l : pending[i].reg \in Nat
  BY <1>1, Numbers DEF IInv, Operands
<1>6. Filled(l, r)
  OBVIOUS
<1>9. l \in Nat
  BY <1>1
<1> HIDE DEF l
<1> SUFFICES ASSUME NEW i \in 1..(l + 1), Temporary(pending'[i].reg),
                    NEW q \in pending'[i].reg..((r + 1) - 1)
             PROVE  \E j \in 1..(l + 1) : pending'[j].reg = q
  BY <1>2, <1>4 DEF NoneLost, Filled, Temporary
<1>7. CASE i = l + 1 \/ q = r
  <2>1. q = r /\ l + 1 \in 1..(l + 1)
    BY <1>1, <1>3, <1>4, <1>7
  <2> QED BY <1>3, <1>4, <2>1
<1>8. CASE i # l + 1 /\ q # r
  <2>1. i \in 1..l /\ pending'[i] = pending[i]
    BY <1>1, <1>4, <1>8
  <2>2. q \in pending[i].reg..(r - 1)
    BY <1>5, <1>8, <2>1
  <2>3. PICK j \in 1..l : pending[j].reg = q
    BY <1>6, <2>1, <2>2 DEF Filled
  <2>4. j \in 1..(l + 1) /\ pending'[j] = pending[j]
    BY <1>4, <1>9, <2>3
  <2> QED BY <2>3, <2>4
<1> QED BY <1>7, <1>8

\* Where all the operands are consumed, there is nothing to lose one above.
LEMMA NoneFills ==
    ASSUME IInv, NEW k \in Nat, Alone(k), NEW n
    PROVE  Filled(Len(pending) - k, n)
<1>1. 1..(Len(pending) - k) = {}
  BY Numbers DEF Alone, IInv
<1> QED BY <1>1 DEF Filled

\* Nor where nothing is pending.
LEMMA EmptyFills ==
    ASSUME pending' = <<>>
    PROVE  NoneLost'
BY DEF NoneLost, Filled

\* A step that changes neither the operands nor what is free.
LEMMA SameFills ==
    ASSUME NoneLost, UNCHANGED <<pending, next, locals_end>>
    PROVE  NoneLost'
BY DEF NoneLost, Filled, Temporary

\* The one operand left is a variable's, or next to the free registers.
LEMMA OneFills ==
    ASSUME NEW op \in Operand, pending' = <<op>>, next' \in Int, locals_end' \in Int,
           op.reg >= locals_end' => next' = op.reg + 1
    PROVE  NoneLost'
<1>1. op.reg \in Nat
  BY EmitterAssumption DEF Operand, Reg
<1>2. Len(pending') = 1 /\ pending'[1] = op /\ \A i \in 1..1 : i = 1
  OBVIOUS
<1> SUFFICES ASSUME op.reg >= locals_end', NEW q \in op.reg..(next' - 1)
             PROVE  \E j \in 1..1 : pending'[j].reg = q
  BY <1>2 DEF NoneLost, Filled, Temporary
<1>3. q = op.reg
  <2>1. next' = op.reg + 1
    OBVIOUS
  <2> QED BY <1>1, <2>1
<1> QED BY <1>2, <1>3

\* Freeing the last operand and the last but one.
LEMMA FreedFillsLast ==
    ASSUME IInv, NoneLost, Available(1)
    PROVE  Filled(Len(pending) - 1, Freed(next, Last(1).reg))
<1>1. PICK k \in Nat : k = 0
  OBVIOUS
<1>2. k + 1 = 1 /\ Len(pending) - k = Len(pending)
  BY <1>1, Numbers DEF IInv
<1>3. \A i \in 1..(Len(pending) - k) : Temporary(pending[i].reg) => pending[i].reg < next
  BY <1>2, NextAbove DEF Operands
<1>4. Available(k + 1) /\ Filled(Len(pending) - k, next)
  BY <1>2 DEF NoneLost
<1>5. Filled(Len(pending) - (k + 1), Freed(next, Last(k + 1).reg))
  BY <1>3, <1>4, NextAbove, FreedFills
<1> QED BY <1>2, <1>5

LEMMA FreedFillsLastButOne ==
    ASSUME IInv, Available(2), NEW n \in Int,
           \A i \in 1..(Len(pending) - 1) : Temporary(pending[i].reg) => pending[i].reg < n,
           Filled(Len(pending) - 1, n)
    PROVE  Filled(Len(pending) - 2, Freed(n, Last(2).reg))
<1>1. PICK k \in Nat : k = 1
  OBVIOUS
<1>2. k + 1 = 2
  BY <1>1
<1>3. Available(k + 1) /\ Filled(Len(pending) - k, n)
  BY <1>1, <1>2
<1>4. \A i \in 1..(Len(pending) - k) : Temporary(pending[i].reg) => pending[i].reg < n
  BY <1>1
<1>5. Filled(Len(pending) - (k + 1), Freed(n, Last(k + 1).reg))
  BY <1>3, <1>4, FreedFills
<1> QED BY <1>2, <1>5

\* The instructions.
LEMMA InstructionsFill ==
    ASSUME IInv, NoneLost, Liberties = {}, NEW v \in Value, NEW n,
           Const(v) \/ ReadGlobal(n, v) \/ Unary(v) \/ Binary(v) \/ Index(n, v)
    PROVE  NoneLost'
<1>1. Filled(Len(pending) - 0, next) /\ next \in Int /\ next >= locals_end
  BY NextAbove, Numbers DEF IInv, NoneLost
<1>2. CASE Const(v) \/ ReadGlobal(n, v)
  <2>1. Instruction(0, next, v)
    BY <1>2 DEF Const, ReadGlobal
  <2> QED BY <1>1, <2>1, InstructionFills
<1> DEFINE m == Freed(next, Last(1).reg)
<1>3. CASE Unary(v)
  <2>1. Available(1) /\ Instruction(1, m, v)
    BY <1>3 DEF Unary
  <2>2. m \in Int /\ m >= locals_end /\ Filled(Len(pending) - 1, m)
    BY <2>1, FreedLast, FreedFillsLast
  <2> HIDE DEF m
  <2> QED BY <2>1, <2>2, InstructionFills
<1>4. CASE Binary(v)
  <2> DEFINE r == Freed(m, Last(2).reg)
  <2>1. Available(2) /\ Available(1 + 1) /\ Instruction(2, r, v)
    BY <1>4 DEF Binary
  <2>2. Available(1)
    BY <2>1, AvailableFewer DEF IInv
  <2>3. /\ m \in Int /\ m >= locals_end
        /\ \A i \in 1..(Len(pending) - 1) : Temporary(pending[i].reg) => pending[i].reg < m
    BY <2>2, FreedLast
  <2>4. Filled(Len(pending) - 1, m)
    BY <2>2, FreedFillsLast
  <2> HIDE DEF m
  <2>5. r \in Int /\ r >= locals_end
    BY <2>1, <2>3, FreedLastButOne
  <2>6. Filled(Len(pending) - 2, r)
    BY <2>1, <2>3, <2>4, FreedFillsLastButOne
  <2> HIDE DEF r
  <2> QED BY <2>1, <2>5, <2>6, InstructionFills
<1>5. CASE Index(n, v) /\ IsLocal(n)
  <2>1. Available(1) /\ Instruction(1, Freed(m, locals[n]), v)
    BY <1>5 DEF Index
  <2>2. m \in Int /\ m >= locals_end /\ Filled(Len(pending) - 1, m)
    BY <2>1, FreedLast, FreedFillsLast
  <2> HIDE DEF m
  <2>3. Instruction(1, m, v)
    BY <1>5, <2>1, <2>2, LocalNotFreed DEF IsLocal
  <2> QED BY <2>2, <2>3, InstructionFills
<1>6. CASE Index(n, v) /\ ~IsLocal(n)
  <2> DEFINE r == Freed(Freed(next + 1, Last(1).reg), next)
  <2>1. Alone(1) /\ Available(1) /\ Instruction(1, r, v)
    BY <1>6 DEF Index
  <2>2. Len(pending) \in Operands /\ Last(1) = pending[Len(pending)]
    BY <2>1, Numbers DEF IInv, Alone, Operands, Last
  <2>3. r \in Int /\ r >= locals_end
    BY <1>1, <2>2, NextAbove, Numbers DEF IInv, Freed, Temporary
  <2>4. Filled(Len(pending) - 1, r)
    BY <2>1, NoneFills
  <2> HIDE DEF r
  <2> QED BY <2>1, <2>3, <2>4, InstructionFills
<1> QED BY <1>2, <1>3, <1>4, <1>5, <1>6

\* Calls and array literals, of whose operands only one stays, or none.
LEMMA CallsFill ==
    ASSUME IInv, NoneLost, Liberties = {}, NEW v \in Value, NEW k \in Nat,
           Call(k, v) \/ (List(k, v) /\ k # 0)
    PROVE  NoneLost'
<1>1. Filled(Len(pending) - 0, next) /\ next \in Int /\ next >= locals_end
  BY NextAbove, Numbers DEF IInv, NoneLost
<1>2. CASE k = 0
  <2>1. Instruction(0, next, v)
    BY <1>2 DEF Call
  <2> QED BY <1>1, <2>1, InstructionFills
<1>3. CASE k # 0 /\ Call(k, v)
  <2> DEFINE m == Freed(next, Last(k).reg)
  <2>1. Available(k) /\ Instruction(k, m, v) /\ (k > 1 => Alone(k))
    BY <1>3 DEF Call, SideBySide
  <2>2. k \in 0..Len(pending)
    BY <2>1, AvailableThere DEF IInv
  <2>3. Len(pending) - k + 1 \in Operands /\ Last(k) = pending[Len(pending) - k + 1]
    BY <1>3, <2>2, Numbers DEF IInv, Operands, Last
  <2>4. m \in Int /\ m >= locals_end
    BY <1>1, <2>3, Numbers DEF IInv, Freed, Temporary
  <2>5. Filled(Len(pending) - k, m)
    <3>1. CASE k = 1
      BY <2>1, <3>1, FreedFillsLast
    <3>2. CASE k # 1
      BY <1>3, <2>1, <3>2, NoneFills
    <3> QED BY <3>1, <3>2
  <2> HIDE DEF m
  <2> QED BY <2>1, <2>4, <2>5, InstructionFills
<1>4. CASE k # 0 /\ List(k, v)
  <2>1. Alone(k) /\ Instruction(k, next, v)
    BY <1>4 DEF List
  <2> QED BY <1>1, <2>1, NoneFills, InstructionFills
<1> QED BY <1>2, <1>3, <1>4

\* The comma and an element's assignment, of whose two operands the second stays.
LEMMA SecondFills ==
    ASSUME IInv, NoneLost, Liberties = {}, NEW n, Comma \/ AssignElement(n)
    PROVE  NoneLost'
<1>1. Alone(2) /\ Yield(2, Last(1).reg, Last(1).val) /\ locals_end' = locals_end
  BY DEF Comma, AssignElement
<1>2. /\ Len(pending) = 2 /\ Last(1) = pending[2] /\ Last(2) = pending[1]
      /\ 1 \in Operands /\ 2 \in Operands
  BY <1>1 DEF Alone, Last, Operands
<1>3. PICK op \in Operand : op.reg = pending[2].reg /\ pending' = <<op>>
  <2> DEFINE op == [reg |-> pending[2].reg, val |-> pending[2].val]
  <2>1. op \in Operand /\ op.reg = pending[2].reg
    BY <1>2, Numbers DEF IInv, Operand
  <2>2. SubSeq(pending, 1, Len(pending) - 2) = <<>>
    BY <1>2 DEF IInv, TypeOK
  <2>3. pending' = Append(<<>>, op)
    BY <1>1, <1>2, <2>2 DEF Yield
  <2> HIDE DEF op
  <2> QED BY <2>1, <2>3
<1>4. /\ next \in Nat /\ locals_end \in Nat /\ locals_end <= next
      /\ pending[1].reg \in Nat /\ pending[2].reg \in Nat
  BY <1>2, NextAbove, Numbers DEF IInv
<1>5. Temporary(pending[2].reg) =>
         /\ next = pending[2].reg + 1
         /\ Temporary(pending[1].reg) => pending[1].reg < pending[2].reg
  <2>1. Filled(2, next) /\ (Temporary(pending[2].reg) => pending[2].reg < next)
    BY <1>2, NextAbove DEF NoneLost
  <2>2. Temporary(pending[2].reg) /\ Temporary(pending[1].reg) => pending[1].reg < pending[2].reg
    BY <1>2 DEF IInv, Stacked
  <2> QED BY <1>2, <1>4, <2>1, <2>2, LastIsTop
<1>6. next' = Freed(next, pending[1].reg) \/ next' = next
  <2>1. CASE Comma
    BY <1>2, <2>1 DEF Comma
  <2>2. CASE AssignElement(n) /\ IsLocal(n)
    BY <2>2 DEF AssignElement
  <2>3. CASE AssignElement(n) /\ ~IsLocal(n)
    <3>1. Freed(next + 1, next) = next
      BY <1>4 DEF Freed, Temporary
    <3> QED BY <2>3, <3>1 DEF AssignElement
  <2> QED BY <2>1, <2>2, <2>3
<1>7. next' \in Int /\ (Temporary(pending[2].reg) => next' = pending[2].reg + 1)
  BY <1>4, <1>5, <1>6 DEF Freed
<1>8. op.reg >= locals_end' => Temporary(pending[2].reg)
  BY <1>1, <1>3 DEF Temporary
<1>9. locals_end' \in Int /\ (op.reg >= locals_end' => next' = op.reg + 1)
  BY <1>1, <1>3, <1>4, <1>7, <1>8
<1> QED BY <1>3, <1>7, <1>9, OneFills

\* A local is an operand where it is: no register is taken for it.
LEMMA ReadLocalFills ==
    ASSUME IInv, NoneLost, NEW n \in Names, ReadLocal(n)
    PROVE  NoneLost'
<1> DEFINE v == IF variables[n] = Absent THEN Unit ELSE variables[n]
           op == [reg |-> locals[n], val |-> IF Running THEN v ELSE Unit]
           l == Len(pending)
<1>1. /\ n \in DOMAIN locals /\ l \in Nat
      /\ next \in Nat /\ locals_end \in Nat /\ locals[n] \in Reg /\ locals[n] < locals_end
      /\ UNCHANGED <<next, locals_end>>
  BY Numbers DEF ReadLocal, IsLocal, IInv, Placed, emitter
<1>2. op \in Operand
  <2>1. v \in Value
    BY EmitterAssumption DEF IInv, TypeOK
  <2> HIDE DEF v
  <2> QED BY <1>1, <2>1, EmitterAssumption DEF Operand
<1>3. pending' = Append(SubSeq(pending, 1, l - 0), op)
  BY DEF ReadLocal, Yield
<1>4. op.reg = locals[n]
  OBVIOUS
<1> HIDE DEF op
<1>5. /\ Len(pending') = l + 1 /\ pending'[l + 1].reg = locals[n]
      /\ \A i \in 1..l : pending'[i] = pending[i]
  <2>1. pending \in Seq(Operand) /\ 0 \in 0..Len(pending) /\ l - 0 = l
    BY <1>1 DEF IInv, TypeOK
  <2>2. /\ Len(pending') = Len(pending) - 0 + 1
        /\ pending'[Len(pending) - 0 + 1] = op
        /\ \A i \in 1..(Len(pending) - 0) : pending'[i] = pending[i]
    BY <1>2, <1>3, <2>1, ReplaceLast
  <2> QED BY <1>1, <1>4, <2>2
<1>6. Filled(l, next)
  BY DEF NoneLost
<1> HIDE DEF l
<1> SUFFICES ASSUME NEW i \in 1..(l + 1), pending'[i].reg >= locals_end,
                    NEW q \in pending'[i].reg..(next - 1)
             PROVE  \E j \in 1..(l + 1) : pending'[j].reg = q
  BY <1>1, <1>5 DEF NoneLost, Filled, Temporary
<1>7. i \in 1..l
  BY <1>1, <1>5, EmitterAssumption DEF Reg
<1>8. PICK j \in 1..l : pending[j].reg = q
  BY <1>5, <1>6, <1>7 DEF Filled, Temporary
<1>9. j \in 1..(l + 1) /\ pending'[j] = pending[j]
  BY <1>1, <1>5, <1>8
<1> QED BY <1>8, <1>9

\* A new variable takes a register from under the one operand there is.
LEMMA AssignNewFills ==
    ASSUME IInv, NoneLost, Liberties = {}, NEW n \in Names, AssignNew(n)
    PROVE  NoneLost'
<1>1. /\ Alone(1) /\ pending' = pending /\ locals_end' = locals_end + 1
      /\ next' = Larger(next, locals_end + 1)
  BY DEF AssignNew, MoveTo
<1>2. Len(pending) = 1 /\ 1 \in Operands
  BY <1>1 DEF Alone, Operands
<1>3. PICK op \in Operand : op = pending[1] /\ pending' = <<op>>
  <2>1. pending[1] \in Operand /\ pending = <<pending[1]>>
    BY <1>2, Numbers DEF IInv, TypeOK
  <2> QED BY <1>1, <2>1
<1>4. next \in Nat /\ locals_end \in Nat /\ op.reg \in Nat
  BY <1>2, <1>3, Numbers DEF IInv
<1>5. op.reg >= locals_end => next = op.reg + 1
  <2>1. Filled(1, next) /\ (Temporary(pending[1].reg) => pending[1].reg < next)
    BY <1>2, NextAbove DEF NoneLost
  <2> QED BY <1>2, <1>3, <1>4, <2>1, LastIsTop DEF Temporary
<1>6. next' \in Int /\ locals_end' \in Int /\ (op.reg >= locals_end' => next' = op.reg + 1)
  BY <1>1, <1>4, <1>5 DEF Larger
<1> QED BY <1>3, <1>6, OneFills

\* The answer of a circuit is in its left operand's register, and the right
\* operand's, next to it, is free again.
LEMMA CloseCircuitFills ==
    ASSUME IInv, NoneLost, CloseCircuit
    PROVE  NoneLost'
<1> DEFINE l == Len(pending)
           lhs == pending[l - 1]
           rhs == pending[l]
           top == Len(open)
<1>1. /\ top \in Jumped /\ open[top].kind = "circuit" /\ l = open[top].at + 1
      /\ l \in Nat /\ open # <<>>
  BY Numbers DEF CloseCircuit, IInv, Jumped, TypeOK
<1>2. l - 1 >= 1 /\ Temporary(lhs.reg) /\ l - 1 = open[top].at
  BY <1>1, Numbers DEF IInv, Nested
<1>3. l - 1 \in Operands /\ l \in Operands /\ Last(1) = rhs /\ Last(2) = lhs
  BY <1>1, <1>2 DEF Operands, Last
<1>4. lhs.reg \in Nat /\ rhs.reg \in Nat /\ lhs.reg # rhs.reg
  <2>1. lhs.reg \in Nat /\ rhs.reg \in Nat
    BY <1>3, Numbers DEF IInv
  <2>2. Temporary(rhs.reg) => lhs.reg < rhs.reg
    <3>1. l - 1 < l
      BY <1>1
    <3> QED BY <1>2, <1>3, <3>1 DEF IInv, Stacked
  <2> QED BY <1>2, <2>1, <2>2
<1>5. /\ next' = Freed(next, Last(1).reg) /\ locals_end' = locals_end
      /\ \E v : Yield(2, lhs.reg, v)
  BY <1>1, <1>3, <1>4 DEF CloseCircuit
<1>6. Filled(l - 1, next')
  <2>1. Available(1)
    BY <1>1, Numbers DEF Available, IInv
  <2> QED BY <1>5, <2>1, FreedFillsLast
<1>7. PICK v : pending' = Append(SubSeq(pending, 1, l - 2), [reg |-> lhs.reg, val |-> v])
  BY <1>5 DEF Yield
<1>8. Len(pending') = l - 1 /\ \A i \in 1..(l - 1) : pending'[i].reg = pending[i].reg
  <2> DEFINE s == SubSeq(pending, 1, l - 2)
             op == [reg |-> lhs.reg, val |-> v]
  <2>1. l - 2 \in Nat /\ l - 2 \in 0..l /\ pending \in Seq(Operand)
    <3>1. pending \in Seq(Operand)
      BY DEF IInv, TypeOK
    <3> QED BY <1>1, <1>2, <3>1
  <2>2. s \in Seq(Operand) /\ Len(s) = l - 2 /\ \A i \in 1..(l - 2) : s[i] = pending[i]
    <3>1. PICK k : k = l - 2
      OBVIOUS
    <3>2. k \in 0..Len(pending) /\ k \in Nat
      BY <2>1, <3>1
    <3>3. LET t == SubSeq(pending, 1, k)
          IN  t \in Seq(Operand) /\ Len(t) = k /\ \A i \in 1..k : t[i] = pending[i]
      BY <2>1, <3>2
    <3> QED BY <3>1, <3>3
  <2>3. pending' = Append(s, op) /\ op.reg = lhs.reg
    BY <1>7
  <2> HIDE DEF s, op
  <2>4. /\ Len(pending') = Len(s) + 1 /\ pending'[Len(s) + 1] = op
        /\ \A i \in 1..Len(s) : pending'[i] = s[i]
    BY <2>2, <2>3
  <2>5. \A i \in 1..(l - 1) : i \in 1..(l - 2) \/ i = l - 1
    BY <2>1
  <2> QED BY <2>1, <2>2, <2>3, <2>4, <2>5
<1>9. locals_end' = locals_end
  BY <1>5
<1> HIDE DEF l, lhs, rhs
<1> QED BY <1>6, <1>8, <1>9 DEF NoneLost, Filled, Temporary


\* Compiling a construct the emitter can compile loses no register.
LEMMA StepFills ==
    ASSUME IInv, NoneLost, Liberties = {}, [Next]_vars
    PROVE  NoneLost'
<1>1. CASE UNCHANGED vars
  BY <1>1, SameFills DEF vars, emitter
<1>2. CASE \E v \in Value : Const(v) \/ Unary(v) \/ Binary(v)
  BY <1>2, InstructionsFill
<1>3. CASE \E n \in Names, v \in Value : ReadGlobal(n, v) \/ Index(n, v)
  BY <1>3, InstructionsFill
<1>4. CASE \E n \in Names : ReadLocal(n) \/ AssignNew(n) \/ AssignElement(n)
  BY <1>4, ReadLocalFills, AssignNewFills, SecondFills
<1>5. CASE \E n \in Names : AssignLocal(n) \/ AssignGlobal(n)
  BY <1>5, SameFills DEF AssignLocal, AssignGlobal, MoveTo
<1>6. CASE \E v \in Value : \/ \E k \in 0..MaxArgs : Call(k, v)
                           \/ \E k \in 1..MaxArgs : List(k, v)
  BY <1>6, CallsFill, EmitterAssumption
<1>7. CASE \E skip \in BOOLEAN : OpenCircuit(skip)
  BY <1>7, SameFills DEF OpenCircuit, emitter
<1>8. CASE \E skip \in BOOLEAN : BeginIf(skip)
  BY <1>8, EmptyFills DEF BeginIf
<1>9. CASE Comma
  <2>1. PICK n : n = Absent
    OBVIOUS
  <2> QED BY <1>9, SecondFills
<1>10. CASE CloseCircuit
  BY <1>10, CloseCircuitFills
<1>11. CASE Else \/ EndIf \/ EndStatement \/ Return \/ EndFn
  BY <1>11, EmptyFills DEF Else, EndIf, EndStatement, Return, EndFn, Statement, emitter
<1>12. CASE \E ps \in Params : \E args \in [1..Len(ps) -> Value] : BeginFn(ps, args)
  BY <1>12, EmptyFills DEF BeginFn, Statement
<1> QED BY <1>1, <1>2, <1>3, <1>4, <1>5, <1>6, <1>7, <1>8, <1>9, <1>10, <1>11, <1>12 DEF Next

\* Operands that are all temporaries, none lost among them, are side by side.
LEMMA Consecutive ==
    ASSUME IInv, NoneLost, \A i \in Operands : Temporary(pending[i].reg), NEW k \in Operands
    PROVE  pending[k].reg = pending[1].reg + k - 1
<1> DEFINE a == pending[1].reg
           b == pending[k].reg
           f == [i \in 1..k |-> pending[i].reg]
<1>1. /\ k \in Nat /\ 1 \in 1..k /\ k \in 1..k /\ 1..k \subseteq Operands
      /\ next \in Nat /\ \A i \in Operands : pending[i].reg \in Nat /\ pending[i].reg < next
  BY NextAbove, Numbers DEF IInv, Operands
<1>2. \A i, j \in Operands : i < j => pending[i].reg < pending[j].reg
  BY DEF IInv, Stacked
<1>3. a \in Nat /\ b \in Nat /\ \A i \in 1..k : a <= f[i] /\ f[i] <= b
  <2> SUFFICES ASSUME NEW i \in 1..k PROVE a <= pending[i].reg /\ pending[i].reg <= b
    BY <1>1
  <2>1. (1 < i \/ 1 = i) /\ (i < k \/ i = k)
    BY <1>1
  <2>2. a \in Nat /\ b \in Nat /\ pending[i].reg \in Nat
    BY <1>1
  <2> QED BY <1>1, <1>2, <2>1, <2>2
<1>4. f \in [1..k -> a..b]
  BY <1>1, <1>3
<1>5. \A i, j \in 1..k : f[i] = f[j] => i = j
  <2> SUFFICES ASSUME NEW i \in 1..k, NEW j \in 1..k, i < j PROVE f[i] # f[j]
    BY <1>1
  <2> QED BY <1>1, <1>2
<1>6. \A q \in a..b : \E j \in 1..k : f[j] = q
  <2> SUFFICES ASSUME NEW q \in a..b PROVE \E j \in 1..k : f[j] = q
    OBVIOUS
  <2>1. q \in a..(next - 1)
    BY <1>1, <1>3
  <2>2. PICK j \in Operands : pending[j].reg = q
    BY <1>1, <2>1 DEF NoneLost, Filled, Operands
  <2>3. ~(k < j)
    BY <1>1, <1>2, <1>3, <2>2
  <2> QED BY <1>1, <2>2, <2>3 DEF Operands
<1>7. f \in Bijection(1..k, a..b)
  BY <1>4, <1>5, <1>6, Fun_IsBij
<1>8. Cardinality(a..b) = Cardinality(1..k) /\ IsFiniteSet(1..k)
  <2>1. IsFiniteSet(1..k)
    BY <1>1, FS_Interval
  <2> QED BY <1>7, <2>1, FS_Bijection DEF ExistsBijection
<1>9. Cardinality(1..k) = k /\ Cardinality(a..b) = b - a + 1
  <2>1. a <= b
    BY <1>1, <1>3
  <2> HIDE DEF a, b
  <2>2. Cardinality(1..k) = k - 1 + 1
    BY <1>1, FS_Interval
  <2>3. Cardinality(a..b) = b - a + 1
    BY <1>3, <2>1, FS_Interval
  <2> QED BY <1>1, <2>2, <2>3
<1> HIDE DEF a, b, f
<1>10. k = b - a + 1
  BY <1>8, <1>9
<1> QED BY <1>1, <1>3, <1>10 DEF a, b

\* A call and an array literal find their operands side by side.
LEMMA FoundInPlace ==
    ASSUME IInv, NoneLost, Liberties = {}, NEW k \in Nat, SideBySide(k), Running
    PROVE  InPlace(k)
<1>1. k \in 0..Len(pending) /\ Len(pending) \in Nat
  BY AvailableThere, Numbers DEF SideBySide, IInv
<1>2. \A i \in Operands : holds[pending[i].reg] = pending[i].val /\ pending[i].reg \in Reg
  BY Numbers DEF IInv, Kept, Passed, Running, Jumped
<1>3. CASE k <= 1
  <2> SUFFICES ASSUME NEW i \in 1..k PROVE LET r == Last(k).reg + i - 1
                                           IN  r \in Reg /\ holds[r] = Last(k - i + 1).val
    BY DEF InPlace
  <2>1. i = 1 /\ k = 1 /\ Len(pending) \in Operands
    BY <1>1, <1>3 DEF Operands
  <2>2. Last(1) = pending[Len(pending)]
    BY <1>1 DEF Last
  <2>3. pending[Len(pending)].reg \in Nat /\ k - i + 1 = 1
    BY <2>1, Numbers DEF IInv
  <2> QED BY <1>2, <2>1, <2>2, <2>3
<1>4. CASE k > 1
  <2>1. Len(pending) = k /\ \A i \in 1..k : Temporary(Last(i).reg)
    BY <1>4 DEF SideBySide, Alone
  <2>2. \A i \in Operands : Temporary(pending[i].reg)
    <3> TAKE i \in Operands
    <3>1. k - i + 1 \in 1..k /\ k - (k - i + 1) + 1 = i
      BY <1>1, <2>1 DEF Operands
    <3>2. Last(k - i + 1) = pending[i]
      BY <2>1, <3>1 DEF Last
    <3> QED BY <2>1, <3>1, <3>2
  <2> SUFFICES ASSUME NEW i \in 1..k PROVE LET r == Last(k).reg + i - 1
                                           IN  r \in Reg /\ holds[r] = Last(k - i + 1).val
    BY DEF InPlace
  <2>3. i \in Operands /\ k - (k - i + 1) + 1 = i /\ k - k + 1 = 1
    BY <1>1, <2>1 DEF Operands
  <2>4. Last(k) = pending[1] /\ Last(k - i + 1) = pending[i]
    BY <2>1, <2>3 DEF Last
  <2>5. pending[i].reg = pending[1].reg + i - 1
    BY <2>2, <2>3, Consecutive
  <2> QED BY <1>2, <2>3, <2>4, <2>5
<1> QED BY <1>1, <1>3, <1>4

\* The history of the calls stays true.
LEMMA HistoryStep ==
    ASSUME IInv, NoneLost, Liberties = {}, in_place, [Next]_vars
    PROVE  in_place'
<1>1. ASSUME NEW k \in Nat, SideBySide(k)
      PROVE  in_place'
  BY <1>1, FoundInPlace DEF SideBySide
<1>2. CASE \E v \in Value : \/ \E k \in 0..MaxArgs : Call(k, v)
                           \/ \E k \in 1..MaxArgs : List(k, v)
  BY <1>1, <1>2, EmitterAssumption DEF Call, List
<1>3. CASE \E n \in Names : \/ ReadLocal(n) \/ AssignLocal(n) \/ AssignNew(n)
                           \/ AssignGlobal(n) \/ AssignElement(n)
  BY <1>3 DEF ReadLocal, AssignLocal, AssignNew, AssignGlobal, AssignElement, MoveTo
<1>4. CASE \/ \E v \in Value : Const(v) \/ Unary(v) \/ Binary(v)
           \/ \E n \in Names, v \in Value : ReadGlobal(n, v) \/ Index(n, v)
  BY <1>4 DEF Const, Unary, Binary, ReadGlobal, Index
<1>5. CASE \/ \E skip \in BOOLEAN : OpenCircuit(skip) \/ BeginIf(skip)
           \/ Comma \/ CloseCircuit \/ Else \/ EndIf \/ EndStatement \/ Return
  BY <1>5 DEF OpenCircuit, BeginIf, Comma, CloseCircuit, Else, EndIf, EndStatement, Return
<1>6. CASE \/ EndFn
           \/ \E ps \in Params : \E args \in [1..Len(ps) -> Value] : BeginFn(ps, args)
  BY <1>6 DEF BeginFn, EndFn
<1>7. CASE UNCHANGED vars
  BY <1>7 DEF vars
<1> QED BY <1>2, <1>3, <1>4, <1>5, <1>6, <1>7 DEF Next

\* However a call's arguments and an array's elements were computed, and
\* whatever was compiled and freed before them, they are in consecutive
\* registers when the instruction comes (op.rs: "a call finds its arguments
\* already in place").
THEOREM ArgumentsCorrect ==
    ASSUME Liberties = {}
    PROVE  Spec => []ArgumentsInPlace
<1> DEFINE AInv == NoneLost /\ in_place
<1>1. Init => AInv
  BY DEF Init, NoneLost, Filled
<1>2. IInv /\ AInv /\ [Next]_vars => AInv'
  BY StepFills, HistoryStep
<1>3. AInv => ArgumentsInPlace
  BY DEF ArgumentsInPlace
<1> HIDE DEF AInv
<1> QED BY <1>1, <1>2, <1>3, Invariant, PTL DEF Spec
=============================================================================
