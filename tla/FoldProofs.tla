------------------------------ MODULE FoldProofs ------------------------------
(***************************************************************************)
(* Induction over data: over the naturals, and over the elements of a      *)
(* sequence that is folded from the left by some operator `Op`.  The       *)
(* operators that are folded are substituted for it (INSTANCE).            *)
(***************************************************************************)
EXTENDS Integers, Sequences, SequencesExt, WellFoundedInduction, TLAPS

CONSTANT Op(_, _)

\* A nonempty set of naturals has a least element,
LEMMA Least ==
    ASSUME NEW S \in SUBSET Nat, S # {}
    PROVE  \E n \in S : \A m \in S : n <= m
<1>1. PICK R : R = OpToRel(<, Nat)
  OBVIOUS
<1>2. PICK n \in S : \A m \in S : <<m, n>> \notin R
  <2>1. IsWellFoundedOn(R, Nat)
    BY <1>1, NatLessThanWellFounded, Zenon
  <2> QED BY <2>1, WFMin
<1>3. ASSUME NEW m \in S PROVE n <= m
  <2>1. R = {ss \in Nat \X Nat : ss[1] < ss[2]}
    BY <1>1 DEF OpToRel
  <2>2. n \in Nat /\ m \in Nat /\ ~(m < n)
    BY <1>2, <2>1
  <2> QED BY <2>2
<1> QED BY <1>3

\* so a set that has 0, and the successor of what it has, has all of them.
LEMMA Induction ==
    ASSUME NEW S, 0 \in S, \A n \in Nat : n \in S => n + 1 \in S
    PROVE  \A n \in Nat : n \in S
<1> SUFFICES ASSUME NEW k \in Nat, k \notin S PROVE FALSE
  OBVIOUS
<1> DEFINE Out == {i \in Nat : i \notin S}
<1>1. PICK n \in Out : \A m \in Out : n <= m
  BY Least
<1>2. n # 0 /\ n - 1 \in Nat /\ n - 1 \in S
  BY <1>1
<1> QED BY <1>1, <1>2

---------------------------------------------------------------------------
(* A fold takes one element after the other.                               *)

\* What FoldLeft defines by recursion over the sets of places, the last first; and
\* what it has come to after `many` elements.
Partial(base, s) ==
    CHOOSE f : f = [S \in SUBSET (DOMAIN s) |->
                       IF S = {} THEN base ELSE Op(f[S \ {Max(S)}], s[Max(S)])]
After(base, s, many) == Partial(base, s)[1..many]

LEMMA MaxIsLast ==
    ASSUME NEW k \in Nat, NEW S \in SUBSET (1..k), k \in S
    PROVE  Max(S) = k
<1>1. k >= k /\ \A y \in S : k >= y
  OBVIOUS
<1>2. PICK m : m = Max(S)
  OBVIOUS
<1>3. m \in S /\ \A y \in S : m >= y
  BY <1>1, <1>2 DEF Max
<1>4. m >= k /\ k >= m /\ m \in Nat
  BY <1>3
<1> QED BY <1>2, <1>4

\* There is such a function: one for k places extends to k + 1.
LEMMA PartialIsDefined ==
    ASSUME NEW base, NEW s, NEW size \in Nat, DOMAIN s = 1..size
    PROVE  /\ Partial(base, s)[{}] = base
           /\ \A S \in SUBSET (1..size) :
                 S # {} => Partial(base, s)[S] = Op(Partial(base, s)[S \ {Max(S)}], s[Max(S)])
<1> DEFINE Body(f, S) == IF S = {} THEN base ELSE Op(f[S \ {Max(S)}], s[Max(S)])
           Defined(k) == \E f : f = [S \in SUBSET (1..k) |-> Body(f, S)]
           Good == {k \in Nat : Defined(k)}
<1>1. Defined(0)
  <2>1. PICK f : f = [S \in SUBSET (1..0) |-> base]
    OBVIOUS
  <2>2. \A S \in SUBSET (1..0) : S = {}
    OBVIOUS
  <2>3. f = [S \in SUBSET (1..0) |-> Body(f, S)]
    BY <2>1, <2>2
  <2> QED BY <2>3
<1>2. ASSUME NEW n \in Nat, Defined(n) PROVE Defined(n + 1)
  <2>1. PICK f : f = [S \in SUBSET (1..n) |-> Body(f, S)]
    BY <1>2
  <2>2. PICK g : g = [S \in SUBSET (1..n + 1) |-> IF n + 1 \in S THEN Body(f, S) ELSE f[S]]
    OBVIOUS
  <2>3. \A S \in SUBSET (1..n) : S \in SUBSET (1..n + 1) /\ n + 1 \notin S
    OBVIOUS
  <2>4. \A S \in SUBSET (1..n) : g[S] = f[S]
    BY <2>2, <2>3
  <2>5. \A S \in SUBSET (1..n + 1) : S \ {n + 1} \in SUBSET (1..n)
    OBVIOUS
  <2>6. ASSUME NEW S \in SUBSET (1..n + 1) PROVE g[S] = Body(g, S)
    <3>1. CASE n + 1 \in S
      <4>1. Max(S) = n + 1
        <5>1. n + 1 \in Nat
          OBVIOUS
        <5> QED BY <3>1, <5>1, MaxIsLast
      <4>2. g[S \ {Max(S)}] = f[S \ {Max(S)}]
        BY <2>4, <2>5, <4>1
      <4>3. g[S] = Body(f, S)
        BY <2>2, <3>1
      <4> QED BY <4>2, <4>3
    <3>2. CASE n + 1 \notin S
      <4>1. S \in SUBSET (1..n) /\ S \ {Max(S)} \in SUBSET (1..n)
        <5>1. S \ {n + 1} = S
          BY <3>2
        <5> QED BY <2>5, <5>1
      <4>2. g[S] = f[S] /\ g[S \ {Max(S)}] = f[S \ {Max(S)}]
        BY <2>4, <4>1
      <4>3. f[S] = Body(f, S)
        BY <2>1, <4>1
      <4> QED BY <4>2, <4>3
    <3> QED BY <3>1, <3>2
  <2>7. g = [S \in SUBSET (1..n + 1) |-> Body(g, S)]
    <3>1. g = [S \in SUBSET (1..n + 1) |-> g[S]]
      BY <2>2
    <3> HIDE DEF Body
    <3> QED BY <2>6, <3>1
  <2> QED BY <2>7
<1>3. Defined(size)
  <2> HIDE DEF Defined
  <2>1. 0 \in Good /\ \A n \in Nat : n \in Good => n + 1 \in Good
    BY <1>1, <1>2
  <2> HIDE DEF Good
  <2>2. size \in Good
    BY <2>1, Induction
  <2> QED BY <2>2 DEF Good
<1>4. PICK f : f = Partial(base, s)
  OBVIOUS
<1>5. f = [S \in SUBSET (1..size) |-> Body(f, S)]
  BY <1>3, <1>4 DEF Partial
<1> HIDE DEF Body
<1>6. \A S \in SUBSET (1..size) : f[S] = Body(f, S)
  BY <1>5
<1>7. f[{}] = base
  BY <1>6 DEF Body
<1>8. ASSUME NEW S \in SUBSET (1..size), S # {}
      PROVE  f[S] = Op(f[S \ {Max(S)}], s[Max(S)])
  BY <1>6, <1>8 DEF Body
<1> QED BY <1>4, <1>7, <1>8

LEMMA FoldsOneByOne ==
    ASSUME NEW base, NEW s, NEW size \in Nat, DOMAIN s = 1..size
    PROVE  /\ After(base, s, 0) = base
           /\ \A i \in 1..size : After(base, s, i) = Op(After(base, s, i - 1), s[i])
           /\ FoldLeft(Op, base, s) = After(base, s, size)
<1>1. Partial(base, s)[1..0] = base
  <2>1. 1..0 = {}
    OBVIOUS
  <2> QED BY <2>1, PartialIsDefined
<1>2. ASSUME NEW i \in 1..size
      PROVE  Partial(base, s)[1..i] = Op(Partial(base, s)[1..i - 1], s[i])
  <2>1. i \in Nat /\ 1..i \in SUBSET (1..i) /\ i \in 1..i /\ 1..i \in SUBSET (1..size)
    OBVIOUS
  <2>2. Max(1..i) = i
    BY <2>1, MaxIsLast
  <2>3. (1..i) \ {i} = 1..i - 1 /\ 1..i # {}
    BY <2>1
  <2>4. PICK S : S = 1..i
    OBVIOUS
  <2>5. Partial(base, s)[S] = Op(Partial(base, s)[S \ {Max(S)}], s[Max(S)])
    <3>1. S \in SUBSET (1..size) /\ S # {}
      BY <2>1, <2>3, <2>4
    <3> QED BY <3>1, PartialIsDefined
  <2>6. Max(S) = i /\ S \ {i} = 1..i - 1
    BY <2>2, <2>3, <2>4
  <2> QED BY <2>4, <2>5, <2>6
<1>3. FoldLeft(Op, base, s) = Partial(base, s)[1..size]
  BY DEF FoldLeft, MapThenFoldSet, Partial
<1> QED BY <1>1, <1>2, <1>3 DEF After

Extends(s, size, t, more) == more = size + 1 /\ \A i \in 1..size : t[i] = s[i]

\* With one element more, it is what it was and that element.
LEMMA FoldsOneMore ==
    ASSUME NEW base, NEW size \in Nat, NEW s, DOMAIN s = 1..size,
           NEW more \in Nat, NEW t, DOMAIN t = 1..more, Extends(s, size, t, more)
    PROVE  After(base, t, more) = Op(After(base, s, size), t[more])
<1>1. /\ After(base, s, 0) = base
      /\ \A i \in 1..size : After(base, s, i) = Op(After(base, s, i - 1), s[i])
  BY FoldsOneByOne
<1>2. /\ After(base, t, 0) = base
      /\ \A i \in 1..more : After(base, t, i) = Op(After(base, t, i - 1), t[i])
  BY FoldsOneByOne
<1> DEFINE a(i) == After(base, s, i)
           b(i) == After(base, t, i)
           Same == {i \in Nat : i <= size => b(i) = a(i)}
<1>3. size \in Same
  <2> HIDE DEF a, b
  <2>1. 0 \in Same
    BY <1>1, <1>2 DEF a, b
  <2>2. ASSUME NEW i \in Nat, i \in Same PROVE i + 1 \in Same
    <3> SUFFICES ASSUME i + 1 <= size PROVE b(i + 1) = a(i + 1)
      OBVIOUS
    <3>1. i + 1 \in 1..size /\ i + 1 \in 1..more /\ (i + 1) - 1 = i
      BY DEF Extends
    <3>2. b(i + 1) = Op(b(i), t[i + 1])
      BY <1>2, <3>1 DEF b
    <3>3. a(i + 1) = Op(a(i), s[i + 1])
      BY <1>1, <3>1 DEF a
    <3>4. b(i) = a(i) /\ t[i + 1] = s[i + 1]
      BY <2>2, <3>1 DEF Extends
    <3> QED BY <3>2, <3>3, <3>4
  <2> HIDE DEF Same
  <2> QED BY <2>1, <2>2, Induction
<1>4. b(size) = a(size)
  BY <1>3
<1>5. more \in 1..more /\ more - 1 = size
  BY DEF Extends
<1>6. b(more) = Op(b(size), t[more])
  BY <1>2, <1>5
<1> QED BY <1>4, <1>6

===============================================================================
