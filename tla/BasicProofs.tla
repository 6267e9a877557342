------------------------------ MODULE BasicProofs ------------------------------
(***************************************************************************)
(* What the interpreter keeps balanced, proved for every program: however  *)
(* an evaluation ends, by a value, an error or a jump of any kind, what    *)
(* its activations entered is left, and what rides beside a jump is there  *)
(* while it travels and gone when it has arrived.  And where EXIT and      *)
(* CONTINUE arrive: at the loop around them in the text.  And that each    *)
(* expression is folded into the one tree its operator table defines.      *)
(***************************************************************************)
EXTENDS Basic, FiniteSetTheorems, TLAPS

----------------------------------------------------------------------------
(* Sequences, whatever their elements.                                     *)

IsSeq(s) == Len(s) \in Nat /\ s = [i \in 1..Len(s) |-> s[i]]

LEMMA SeqOfElements ==
    ASSUME NEW s, IsSeq(s)
    PROVE  s \in Seq({s[i] : i \in 1..Len(s)}) /\ DOMAIN s = 1..Len(s)
<1> DEFINE S == {s[i] : i \in 1..Len(s)}
           n == Len(s)
<1>1. n \in Nat /\ s = [i \in 1..n |-> s[i]]
  BY DEF IsSeq
<1>2. \A i \in 1..n : s[i] \in S
  OBVIOUS
<1> HIDE DEF S, n
<1>3. s \in [1..n -> S]
  BY <1>1, <1>2
<1>4. s \in Seq(S)
  BY <1>1, <1>3
<1> QED BY <1>1, <1>4 DEF S, n

LEMMA ASeqIs ==
    ASSUME NEW S, NEW s \in Seq(S)
    PROVE  IsSeq(s)
BY DEF IsSeq

LEMMA Pushed ==
    ASSUME NEW s, IsSeq(s), NEW e
    PROVE  LET t == Append(s, e)
           IN  /\ IsSeq(t) /\ Len(t) = Len(s) + 1 /\ t[Len(s) + 1] = e
               /\ \A i \in 1..Len(s) : t[i] = s[i]
<1> DEFINE S == {s[i] : i \in 1..Len(s)} \cup {e}
<1>1. \A i \in 1..Len(s) : s[i] \in S
  OBVIOUS
<1>2. e \in S /\ Len(s) \in Nat
  BY DEF IsSeq
<1> HIDE DEF S
<1>3. s \in Seq(S)
  BY <1>1, <1>2 DEF IsSeq
<1>4. Append(s, e) \in Seq(S)
  BY <1>2, <1>3
<1>5. /\ Len(Append(s, e)) = Len(s) + 1 /\ Append(s, e)[Len(s) + 1] = e
      /\ \A i \in 1..Len(s) : Append(s, e)[i] = s[i]
  BY <1>2, <1>3
<1>6. IsSeq(Append(s, e))
  BY <1>4, ASeqIs
<1> QED BY <1>5, <1>6

LEMMA Popped ==
    ASSUME NEW s, IsSeq(s), s # <<>>
    PROVE  /\ IsSeq(Front(s)) /\ Len(s) \in Nat \ {0} /\ Len(Front(s)) = Len(s) - 1
           /\ \A i \in 1..(Len(s) - 1) : Front(s)[i] = s[i]
<1> DEFINE S == {s[i] : i \in 1..Len(s)}
<1>1. s \in Seq(S)
  BY SeqOfElements
<1> HIDE DEF S
<1>2. Len(s) \in Nat \ {0}
  BY <1>1
<1> DEFINE k == Len(s) - 1
<1>3. k \in 0..Len(s) /\ Front(s) = SubSeq(s, 1, k)
  BY <1>2 DEF Front
<1> HIDE DEF k
<1>4. Front(s) \in Seq(S) /\ Len(Front(s)) = k /\ \A i \in 1..k : Front(s)[i] = s[i]
  BY <1>1, <1>3
<1> QED BY <1>2, <1>4, ASeqIs DEF k

\* The last element is replaced.
LEMMA LastReplaced ==
    ASSUME NEW s, IsSeq(s), s # <<>>, NEW e
    PROVE  LET t == Append(Front(s), e)
           IN  /\ IsSeq(t) /\ Len(t) = Len(s) /\ t[Len(s)] = e
               /\ \A i \in 1..(Len(s) - 1) : t[i] = s[i]
<1>1. /\ IsSeq(Front(s)) /\ Len(s) \in Nat \ {0} /\ Len(Front(s)) = Len(s) - 1
      /\ \A i \in 1..(Len(s) - 1) : Front(s)[i] = s[i]
  BY Popped
<1> DEFINE f == Front(s)
           t == Append(f, e)
<1>2. /\ IsSeq(t) /\ Len(t) = Len(f) + 1 /\ t[Len(f) + 1] = e
      /\ \A i \in 1..Len(f) : t[i] = f[i]
  BY <1>1, Pushed
<1> HIDE DEF f
<1>3. Len(f) = Len(s) - 1 /\ \A i \in 1..(Len(s) - 1) : f[i] = s[i]
  BY <1>1 DEF f
<1>4. Len(s) \in Nat
  BY <1>1
<1> HIDE DEF t
<1> QED BY <1>2, <1>3, <1>4 DEF t, f

----------------------------------------------------------------------------
(* Indices counted.                                                        *)

LEMMA SomeIndices ==
    ASSUME NEW n \in Nat, NEW S \in SUBSET (1..n)
    PROVE  IsFiniteSet(S) /\ Cardinality(S) \in Nat
<1>1. IsFiniteSet(1..n)
  BY FS_Interval
<1> QED BY <1>1, FS_Subset, FS_CardinalityType

\* One more index, above the others.
LEMMA RankPushed ==
    ASSUME NEW n \in Nat, NEW S \in SUBSET (1..n)
    PROVE  LET T == S \cup {n + 1}
           IN  /\ Cardinality(T) = Cardinality(S) + 1
               /\ \A i \in S : Rank(T, i) = Rank(S, i)
               /\ Rank(T, n + 1) = Cardinality(S) + 1
<1> DEFINE T == S \cup {n + 1}
<1>1. IsFiniteSet(S) /\ n + 1 \notin S
  <2>1. \A i \in S : i \in Int /\ i <= n
    OBVIOUS
  <2> QED BY <2>1, SomeIndices
<1>2. Cardinality(T) = Cardinality(S) + 1
  BY <1>1, FS_AddElement
<1>3. \A i \in S : {j \in T : j <= i} = {j \in S : j <= i}
  OBVIOUS
<1>4. {j \in T : j <= n + 1} = T
  <2>1. \A i \in T : i <= n + 1
    OBVIOUS
  <2> QED BY <2>1
<1> QED BY <1>2, <1>3, <1>4 DEF Rank

\* One less, the last.
LEMMA RankPopped ==
    ASSUME NEW n \in Nat, NEW S \in SUBSET (1..n), n \in S
    PROVE  /\ Cardinality(S) \in Nat \ {0}
           /\ Cardinality(S \ {n}) = Cardinality(S) - 1
           /\ \A i \in S \ {n} : Rank(S \ {n}, i) = Rank(S, i)
<1> DEFINE T == S \ {n}
<1>1. IsFiniteSet(S) /\ Cardinality(S) \in Nat /\ IsFiniteSet(T) /\ Cardinality(T) \in Nat
  BY SomeIndices
<1>2. Cardinality(T) = Cardinality(S) - 1
  BY <1>1, FS_RemoveElement
<1>3. \A i \in T : {j \in T : j <= i} = {j \in S : j <= i}
  OBVIOUS
<1> QED BY <1>1, <1>2, <1>3 DEF Rank

LEMMA RankWithin ==
    ASSUME NEW n \in Nat, NEW S \in SUBSET (1..n), NEW i \in S
    PROVE  Rank(S, i) \in 1..Cardinality(S)
<1> DEFINE T == {j \in S : j <= i}
<1>1. IsFiniteSet(S) /\ Cardinality(S) \in Nat /\ T \subseteq S /\ i \in T
  <2>1. i <= i
    OBVIOUS
  <2> QED BY <2>1, SomeIndices
<1>2. IsFiniteSet(T) /\ Cardinality(T) \in Nat /\ Cardinality(T) <= Cardinality(S)
  BY <1>1, FS_Subset, FS_CardinalityType
<1>3. Cardinality(T) # 0
  BY <1>1, <1>2, FS_EmptySet
<1> QED BY <1>1, <1>2, <1>3 DEF Rank

----------------------------------------------------------------------------
(* The invariant.                                                          *)

Fields == {"at", "vals", "doing", "body", "line", "count"}

\* An activation has the fields of one, and tests or passes only for a loop.
IsActivation(t) ==
    /\ t = [field \in Fields |-> t[field]]
    /\ t.doing = "test" => Node(t.at).kind = "while"
    /\ t.doing = "pass" => Node(t.at).kind = "for"

\* The spans are those of the activations.
SpansMatch ==
    /\ IsSeq(spans)
    /\ Len(spans) = Cardinality(Spanned)
    /\ \A i \in Spanned : spans[Rank(Spanned, i)] = stack[i].at

Held ==
    /\ IsSeq(stack)
    /\ \A i \in 1..Len(stack) : IsActivation(stack[i])
    /\ SpansMatch

\* The depth and the frames are those of the calls whose bodies run.
CallsCounted ==
    /\ IsSeq(frames)
    /\ depth = Cardinality(InBody({"call", "call_fn"}))
    /\ Len(frames) = Cardinality(InBody({"call_fn"}))
    /\ depth <= MaxCallDepth

IInv == Held /\ CallsCounted /\ PayloadsTravel

----------------------------------------------------------------------------
(* Calling, going on and returning.                                        *)

\* The tree does not change.
LEMMA SameNodes ==
    ASSUME UNCHANGED <<source, ast>>
    PROVE  \A p : Node(p)' = Node(p)
BY DEF Node

\* Whether an activation runs the body of a node of one of some kinds.
Runs(t, kinds) == t.doing = "body" /\ Node(t.at).kind \in kinds

LEMMA Marked ==
    ASSUME Held
    PROVE  /\ Len(stack) \in Nat /\ DOMAIN stack = 1..Len(stack)
           /\ Spanned \in SUBSET (1..Len(stack))
           /\ \A kinds : InBody(kinds) \in SUBSET (1..Len(stack))
           /\ stack # <<>> => Len(stack) \in 1..Len(stack) /\ Top = stack[Len(stack)]
<1>1. Len(stack) \in Nat /\ DOMAIN stack = 1..Len(stack)
  BY SeqOfElements DEF Held, IsSeq
<1>2. stack # <<>> => Len(stack) # 0
  BY SeqOfElements DEF Held
<1> QED BY <1>1, <1>2 DEF Spanned, InBody, Top, Last

\* What the top of the stack is replaced by.
LEMMA Replaced ==
    ASSUME Held, Running, UNCHANGED <<source, ast>>, NEW t, IsActivation(t), t.at = Top.at,
           stack' = ReplaceTop(t), spans' = spans
    PROVE  /\ Held'
           /\ \A kinds : InBody(kinds)' = IF Runs(t, kinds) THEN InBody(kinds) \cup {Len(stack)}
                                          ELSE InBody(kinds) \ {Len(stack)}
<1>n. PICK n \in Nat : n = Len(stack)
  BY Marked
<1>1. n \in 1..n /\ DOMAIN stack = 1..n /\ Top = stack[n]
  BY <1>n, Marked DEF Running
<1>2. /\ IsSeq(stack') /\ Len(stack') = n /\ stack'[n] = t
      /\ \A i \in 1..(n - 1) : stack'[i] = stack[i]
  BY <1>n, LastReplaced DEF Held, Running, ReplaceTop
<1>3. DOMAIN stack' = 1..n
  BY <1>2, SeqOfElements
<1>4. \A p : Node(p)' = Node(p)
  BY SameNodes
<1>5. \A i \in 1..n : i = n \/ i \in 1..(n - 1)
  BY <1>1
<1>6. \A i \in 1..n : stack'[i].at = stack[i].at
  BY <1>1, <1>2, <1>5
<1>7. Spanned' = Spanned
  BY <1>1, <1>3, <1>4, <1>6 DEF Spanned, HasSpan
<1>8. SpansMatch'
  <2>1. \A i \in Spanned : stack'[i].at = stack[i].at
    BY <1>1, <1>6 DEF Spanned
  <2> QED BY <1>7, <2>1 DEF Held, SpansMatch
<1>9. \A i \in 1..n : IsActivation(stack[i])' <=> IsActivation(stack'[i])
  BY <1>4 DEF IsActivation
<1>10. \A i \in 1..n : IsActivation(stack'[i])
  BY <1>n, <1>2, <1>5 DEF Held
<1>11. Held'
  BY <1>2, <1>4, <1>8, <1>10 DEF Held, IsActivation
<1>12. ASSUME NEW kinds
       PROVE  InBody(kinds)' = IF Runs(t, kinds) THEN InBody(kinds) \cup {n} ELSE InBody(kinds) \ {n}
  <2>1. \A i \in 1..n : i \in InBody(kinds)' <=> Runs(stack'[i], kinds)
    BY <1>3, <1>4 DEF InBody, Runs
  <2>2. \A i \in 1..n : i \in InBody(kinds) <=> Runs(stack[i], kinds)
    BY <1>1 DEF InBody, Runs
  <2>3. InBody(kinds)' \subseteq 1..n /\ InBody(kinds) \subseteq 1..n
    BY <1>1, <1>3 DEF InBody
  <2> QED BY <1>1, <1>2, <1>5, <2>1, <2>2, <2>3
<1> QED BY <1>n, <1>11, <1>12

\* What calls another, and that.
LEMMA Entered ==
    ASSUME Held, Running, UNCHANGED <<source, ast>>, NEW t, IsActivation(t), t.at = Top.at,
           NEW place, Enter(t, place)
    PROVE  /\ Held'
           /\ \A kinds : InBody(kinds)' = IF Runs(t, kinds) THEN InBody(kinds) \cup {Len(stack)}
                                          ELSE InBody(kinds) \ {Len(stack)}
<1>n. PICK n \in Nat : n = Len(stack)
  BY Marked
<1>1. n \in 1..n /\ DOMAIN stack = 1..n /\ Top = stack[n]
  BY <1>n, Marked DEF Running
<1> DEFINE a == Activation(place)
           mid == ReplaceTop(t)
<1>2. /\ IsSeq(mid) /\ Len(mid) = n /\ mid[n] = t
      /\ \A i \in 1..(n - 1) : mid[i] = stack[i]
  BY <1>n, LastReplaced DEF Held, Running, ReplaceTop
<1> HIDE DEF mid
<1>3. stack' = Append(mid, a)
  BY DEF Enter, mid
<1>4. a.at = place /\ IsActivation(a) /\ \A kinds : ~Runs(a, kinds)
  BY DEF IsActivation, Fields, Activation, Runs
<1> HIDE DEF a
<1>5. /\ IsSeq(stack') /\ Len(stack') = n + 1 /\ stack'[n + 1] = a
      /\ \A i \in 1..n : stack'[i] = mid[i]
  BY <1>2, <1>3, Pushed
<1>6. DOMAIN stack' = 1..(n + 1)
  BY <1>5, SeqOfElements
<1>7. \A p : Node(p)' = Node(p)
  BY SameNodes
<1>8. \A i \in 1..(n + 1) : i = n + 1 \/ i = n \/ i \in 1..(n - 1)
  OBVIOUS
<1>9. /\ stack'[n] = t /\ \A i \in 1..(n - 1) : stack'[i] = stack[i]
      /\ 1..(n - 1) \subseteq 1..n /\ n + 1 \notin 1..n
  BY <1>1, <1>2, <1>5
<1>10. \A i \in 1..n : stack'[i].at = stack[i].at
  BY <1>1, <1>8, <1>9
<1>11. Spanned \in SUBSET (1..n)
  BY <1>n, Marked
<1>12. SpansMatch'
  <2>1. ASSUME NEW i \in 1..n PROVE i \in Spanned' <=> i \in Spanned
    BY <1>1, <1>6, <1>7, <1>10 DEF Spanned, HasSpan
  <2>2. n + 1 \in Spanned' <=> HasSpan(Node(place))
    BY <1>4, <1>5, <1>6, <1>7 DEF Spanned, HasSpan
  <2>3. \A i \in Spanned' : i \in 1..n \/ i = n + 1
    BY <1>6 DEF Spanned
  <2>7. n + 1 \notin Spanned
    BY <1>9, <1>11
  <2>4. \A i \in Spanned : stack'[i].at = stack[i].at
    BY <1>10, <1>11
  <2>5. CASE HasSpan(Node(place))
    <3>1. Spanned' = Spanned \cup {n + 1}
      BY <1>11, <2>1, <2>2, <2>3, <2>5
    <3>2. /\ Cardinality(Spanned') = Cardinality(Spanned) + 1
          /\ \A i \in Spanned : Rank(Spanned', i) = Rank(Spanned, i)
          /\ Rank(Spanned', n + 1) = Cardinality(Spanned) + 1
      BY <1>11, <3>1, RankPushed
    <3>3. spans' = Append(spans, place)
      BY <2>5 DEF Enter
    <3>4. /\ IsSeq(spans') /\ Len(spans') = Len(spans) + 1 /\ spans'[Len(spans) + 1] = place
          /\ \A i \in 1..Len(spans) : spans'[i] = spans[i]
      BY <3>3, Pushed DEF Held, SpansMatch
    <3>5. \A i \in Spanned : Rank(Spanned, i) \in 1..Len(spans)
      BY <1>11, RankWithin DEF Held, SpansMatch
    <3>6. \A i \in Spanned : spans'[Rank(Spanned', i)] = stack'[i].at
      BY <2>4, <3>2, <3>4, <3>5 DEF Held, SpansMatch
    <3>7. spans'[Rank(Spanned', n + 1)] = stack'[n + 1].at
      BY <1>4, <1>5, <3>2, <3>4 DEF Held, SpansMatch
    <3>8. Len(spans') = Cardinality(Spanned')
      BY <3>2, <3>4 DEF Held, SpansMatch
    <3>9. \A i \in Spanned' : spans'[Rank(Spanned', i)] = stack'[i].at
      BY <3>1, <3>6, <3>7
    <3>10. \A i \in Spanned' : (spans[Rank(Spanned, i)] = stack[i].at)'
      BY <3>9 DEF Rank
    <3> QED BY <3>4, <3>8, <3>10 DEF SpansMatch
  <2>6. CASE ~HasSpan(Node(place))
    <3>1. Spanned' = Spanned /\ spans' = spans
      <4>1. Spanned' = Spanned
        BY <1>11, <2>1, <2>2, <2>3, <2>6, <2>7
      <4> QED BY <2>6, <4>1 DEF Enter
    <3> QED BY <2>4, <3>1 DEF Held, SpansMatch
  <2> QED BY <2>5, <2>6
<1>13. \A i \in 1..(n + 1) : IsActivation(stack'[i])
  BY <1>n, <1>4, <1>5, <1>8, <1>9 DEF Held
<1>14. Held'
  BY <1>5, <1>7, <1>12, <1>13 DEF Held, IsActivation
<1>15. ASSUME NEW kinds
       PROVE  InBody(kinds)' = IF Runs(t, kinds) THEN InBody(kinds) \cup {n} ELSE InBody(kinds) \ {n}
  <2>1. \A i \in 1..(n + 1) : i \in InBody(kinds)' <=> Runs(stack'[i], kinds)
    BY <1>6, <1>7 DEF InBody, Runs
  <2>2. \A i \in 1..n : i \in InBody(kinds) <=> Runs(stack[i], kinds)
    BY <1>1 DEF InBody, Runs
  <2>3. InBody(kinds)' \subseteq 1..(n + 1) /\ InBody(kinds) \subseteq 1..n
    BY <1>1, <1>6 DEF InBody
  <2>4. n + 1 \notin InBody(kinds)'
    BY <1>4, <1>5, <2>1
  <2>5. \A i \in 1..n : i # n => stack'[i] = stack[i]
    BY <1>9
  <2> QED BY <1>1, <1>9, <1>8, <2>1, <2>2, <2>3, <2>4, <2>5
<1> QED BY <1>n, <1>14, <1>15

\* What returns.
LEMMA Left ==
    ASSUME Held, Running, UNCHANGED <<source, ast>>, NEW r, Leave(r)
    PROVE  Held' /\ \A kinds : InBody(kinds)' = InBody(kinds) \ {Len(stack)}
<1>n. PICK n \in Nat : n = Len(stack)
  BY Marked
<1>1. n \in 1..n /\ DOMAIN stack = 1..n /\ Top = stack[n]
  BY <1>n, Marked DEF Running
<1>2. /\ IsSeq(stack') /\ Len(stack') = n - 1 /\ n - 1 \in Nat
      /\ \A i \in 1..(n - 1) : stack'[i] = stack[i]
  <2>1. stack' = Front(stack)
    BY DEF Leave
  <2> QED BY <1>n, <1>1, <2>1, Popped DEF Held, Running
<1>3. DOMAIN stack' = 1..(n - 1) /\ 1..(n - 1) = (1..n) \ {n}
  BY <1>1, <1>2, SeqOfElements
<1>4. \A p : Node(p)' = Node(p)
  BY SameNodes
<1>5. Spanned \in SUBSET (1..n)
  BY <1>n, Marked
<1>6. Spanned' = Spanned \ {n}
  BY <1>1, <1>2, <1>3, <1>4 DEF Spanned, HasSpan
<1>7. n \in Spanned <=> HasSpan(Node(Top.at))
  BY <1>1 DEF Spanned
<1>8. \A i \in Spanned \ {n} : stack'[i].at = stack[i].at
  BY <1>2, <1>3, <1>5
<1>9. SpansMatch'
  <2>1. CASE n \in Spanned
    <3>1. /\ Cardinality(Spanned) \in Nat \ {0}
          /\ Cardinality(Spanned') = Cardinality(Spanned) - 1
          /\ \A i \in Spanned' : Rank(Spanned', i) = Rank(Spanned, i)
      BY <1>5, <1>6, <2>1, RankPopped
    <3>2. spans' = Front(spans) /\ Len(spans) = Cardinality(Spanned) /\ IsSeq(spans)
      BY <1>7, <2>1 DEF Leave, Held, SpansMatch
    <3>3. spans # <<>>
      BY <3>1, <3>2
    <3>4. /\ IsSeq(spans') /\ Len(spans') = Len(spans) - 1
          /\ \A i \in 1..(Len(spans) - 1) : spans'[i] = spans[i]
      BY <3>2, <3>3, Popped
    <3>5. \A i \in Spanned' : Rank(Spanned', i) \in 1..Cardinality(Spanned')
      <4>1. Spanned' \in SUBSET (1..n)
        BY <1>5, <1>6
      <4> QED BY <4>1, RankWithin
    <3>6. \A i \in Spanned' : spans'[Rank(Spanned', i)] = stack'[i].at
      BY <1>6, <1>8, <3>1, <3>2, <3>4, <3>5 DEF Held, SpansMatch
    <3>7. \A i \in Spanned' : (spans[Rank(Spanned, i)] = stack[i].at)'
      BY <3>6 DEF Rank
    <3> QED BY <3>1, <3>2, <3>4, <3>7 DEF SpansMatch
  <2>2. CASE n \notin Spanned
    <3>1. Spanned' = Spanned /\ spans' = spans
      BY <1>6, <1>7, <2>2 DEF Leave
    <3> QED BY <1>8, <2>2, <3>1 DEF Held, SpansMatch
  <2> QED BY <2>1, <2>2
<1>10. \A i \in 1..(n - 1) : IsActivation(stack'[i])
  BY <1>n, <1>2, <1>3 DEF Held
<1>11. Held'
  BY <1>2, <1>4, <1>9, <1>10 DEF Held, IsActivation
<1>12. ASSUME NEW kinds
       PROVE  InBody(kinds)' = InBody(kinds) \ {n}
  BY <1>1, <1>2, <1>3, <1>4 DEF InBody
<1> QED BY <1>n, <1>11, <1>12

----------------------------------------------------------------------------
(* Steps that neither begin nor end a call.                                *)

Calling == {"call", "call_fn"}

LEMMA TopIs ==
    ASSUME Held, Running
    PROVE  IsActivation(Top)
BY Marked DEF Held, Running

\* What an activation becomes when it goes on.
LEMMA Changed ==
    ASSUME NEW t, IsActivation(t), NEW x
    PROVE  /\ LET u == [t EXCEPT !.vals = x]
              IN  IsActivation(u) /\ u.at = t.at /\ u.doing = t.doing
           /\ LET u == [t EXCEPT !.line = x]
              IN  IsActivation(u) /\ u.at = t.at /\ u.doing = t.doing
           /\ Node(t.at).kind = "while" =>
                 LET u == [t EXCEPT !.doing = "test"] IN IsActivation(u) /\ u.at = t.at
           /\ Node(t.at).kind = "for" =>
                 LET u == [t EXCEPT !.doing = "pass", !.count = x] IN IsActivation(u) /\ u.at = t.at
           /\ LET u == [t EXCEPT !.doing = "body", !.body = x, !.line = 0]
              IN  IsActivation(u) /\ u.at = t.at /\ u.doing = "body"
<1> USE DEF IsActivation, Fields
<1>1. LET u == [t EXCEPT !.vals = x]
      IN  IsActivation(u) /\ u.at = t.at /\ u.doing = t.doing
  OBVIOUS
<1>2. LET u == [t EXCEPT !.line = x]
      IN  IsActivation(u) /\ u.at = t.at /\ u.doing = t.doing
  OBVIOUS
<1>3. Node(t.at).kind = "while" =>
         LET u == [t EXCEPT !.doing = "test"] IN IsActivation(u) /\ u.at = t.at
  OBVIOUS
<1>4. Node(t.at).kind = "for" =>
         LET u == [t EXCEPT !.doing = "pass", !.count = x] IN IsActivation(u) /\ u.at = t.at
  OBVIOUS
<1>5. LET u == [t EXCEPT !.doing = "body", !.body = x, !.line = 0]
      IN  IsActivation(u) /\ u.at = t.at /\ u.doing = "body"
  OBVIOUS
<1> QED BY <1>1, <1>2, <1>3, <1>4, <1>5

\* The calls whose bodies run are the same, and so are the books about them.
SameCalls ==
    /\ \A kinds \in {Calling, {"call_fn"}} : InBody(kinds)' = InBody(kinds)
    /\ depth' = depth
    /\ IsSeq(frames') /\ Len(frames') = Len(frames)

LEMMA SameCallsCounted ==
    ASSUME CallsCounted, SameCalls
    PROVE  CallsCounted'
BY DEF CallsCounted, SameCalls, Calling, IsSeq

\* The top of the stack goes on, calling another or not.
LEMMA GoesOn ==
    ASSUME Held, CallsCounted, Running, UNCHANGED <<source, ast, depth>>,
           IsSeq(frames'), Len(frames') = Len(frames),
           NEW t, IsActivation(t), t.at = Top.at,
           t.doing = Top.doing \/ Node(Top.at).kind \notin Calling,
           \/ \E place : Enter(t, place)
           \/ stack' = ReplaceTop(t) /\ spans' = spans
    PROVE  Held' /\ CallsCounted'
<1>1. /\ Held'
      /\ \A kinds : InBody(kinds)' = IF Runs(t, kinds) THEN InBody(kinds) \cup {Len(stack)}
                                     ELSE InBody(kinds) \ {Len(stack)}
  BY Entered, Replaced
<1>2. ASSUME NEW kinds \in {Calling, {"call_fn"}}
      PROVE  InBody(kinds)' = InBody(kinds)
  <2>1. Len(stack) \in InBody(kinds) <=> Runs(Top, kinds)
    BY Marked DEF InBody, Runs, Running
  <2>2. Runs(t, kinds) <=> Runs(Top, kinds)
    BY DEF Runs, Calling
  <2> QED BY <1>1, <2>1, <2>2
<1> QED BY <1>1, <1>2, SameCallsCounted DEF SameCalls

\* The top of the stack returns, and is not the body of a call.
LEMMA GoesBack ==
    ASSUME Held, CallsCounted, Running, UNCHANGED <<source, ast, depth>>,
           IsSeq(frames'), Len(frames') = Len(frames),
           Top.doing # "body" \/ Node(Top.at).kind \notin Calling,
           NEW r, Leave(r)
    PROVE  Held' /\ CallsCounted'
<1>1. Held' /\ \A kinds : InBody(kinds)' = InBody(kinds) \ {Len(stack)}
  BY Left
<1>2. ASSUME NEW kinds \in {Calling, {"call_fn"}}
      PROVE  InBody(kinds)' = InBody(kinds)
  <2>1. Len(stack) \in InBody(kinds) <=> Runs(Top, kinds)
    BY Marked DEF InBody, Runs, Running
  <2>2. ~Runs(Top, kinds)
    BY DEF Runs, Calling
  <2> QED BY <1>1, <2>1, <2>2
<1> QED BY <1>1, <1>2, SameCallsCounted DEF SameCalls

\* A variable is given a value in the innermost frame, or outside them all.
LEMMA StoreKeeps ==
    ASSUME IsSeq(frames), NEW name, NEW v, Store(name, v)
    PROVE  /\ IsSeq(frames') /\ Len(frames') = Len(frames)
           /\ \A i \in 1..Len(frames) : i < Len(frames) => frames'[i] = frames[i]
<1>1. CASE frames' = frames
  BY <1>1
<1>2. CASE frames # <<>> /\ frames' = [frames EXCEPT ![Len(frames)][name] = v]
  <2> DEFINE n == Len(frames)
             S == {frames[i] : i \in 1..n} \cup {[frames[n] EXCEPT ![name] = v]}
  <2>1. n \in Nat /\ frames = [i \in 1..n |-> frames[i]] /\ \A i \in 1..n : frames[i] \in S
    BY DEF IsSeq
  <2>2. frames' = [i \in 1..n |-> IF i = n THEN [frames[n] EXCEPT ![name] = v] ELSE frames[i]]
    BY <1>2, <2>1
  <2>3. [frames[n] EXCEPT ![name] = v] \in S
    OBVIOUS
  <2> HIDE DEF S
  <2>4. frames' \in [1..n -> S]
    BY <2>1, <2>2, <2>3
  <2> HIDE DEF n
  <2>5. frames' \in Seq(S) /\ Len(frames') = n
    BY <2>1, <2>4
  <2>6. IsSeq(frames')
    BY <2>5, ASeqIs
  <2> QED BY <2>1, <2>2, <2>5, <2>6 DEF n
<1> QED BY <1>1, <1>2 DEF Store

----------------------------------------------------------------------------
(* What rides beside a jump.                                               *)

Carried(r) == IsSignal(r, {"RETURN", "goto"})

\* Nothing is on its way, and nothing sets out.
LEMMA NothingTravels ==
    ASSUME PayloadsTravel, UNCHANGED <<ret, jump>>, ~Carried(back), ~Carried(back')
    PROVE  PayloadsTravel'
BY DEF PayloadsTravel, Carried, IsSignal

\* What is on its way goes on.
LEMMA StillTravels ==
    ASSUME PayloadsTravel, UNCHANGED <<ret, jump, back>>
    PROVE  PayloadsTravel'
BY DEF PayloadsTravel, IsSignal

LEMMA NotCarried ==
    /\ ~Carried(NoResult)
    /\ \A v : ~Carried(Ok(v))
    /\ \A at : ~Carried(Error(at))
    /\ \A r : ~Failed(r) => ~Carried(r)
    /\ \A r : IsSignal(r, ForControl \cup WhileControl \cup {"EXIT SUB"}) => ~Carried(r)
BY DEF Carried, IsSignal, NoResult, Ok, Error, Failed, ForControl, WhileControl

----------------------------------------------------------------------------
(* The shapes of a step.                                                   *)

\* A call of another activation.
LEMMA Enters ==
    ASSUME IInv, Running, ~Carried(back), UNCHANGED <<source, ast, interp>>,
           NEW t, IsActivation(t), t.at = Top.at,
           t.doing = Top.doing \/ Node(Top.at).kind \notin Calling,
           NEW place, Enter(t, place)
    PROVE  IInv'
<1>1. /\ UNCHANGED <<source, ast, depth, ret, jump>>
      /\ IsSeq(frames') /\ Len(frames') = Len(frames)
  BY DEF interp, IInv, CallsCounted
<1>2. Held' /\ CallsCounted'
  BY <1>1, GoesOn DEF IInv
<1>3. ~Carried(back')
  BY NotCarried DEF Enter
<1> QED BY <1>1, <1>2, <1>3, NothingTravels DEF IInv

\* Work of one's own.
LEMMA Continues ==
    ASSUME IInv, Running, ~Carried(back), UNCHANGED <<source, ast, depth, ret, jump>>,
           IsSeq(frames'), Len(frames') = Len(frames),
           NEW t, IsActivation(t), t.at = Top.at,
           t.doing = Top.doing \/ Node(Top.at).kind \notin Calling,
           stack' = ReplaceTop(t), spans' = spans, ~Carried(back')
    PROVE  IInv'
<1>1. Held' /\ CallsCounted'
  BY GoesOn DEF IInv
<1> QED BY <1>1, NothingTravels DEF IInv

\* The lines of a body, by what is no call.
LEMMA StartsBody ==
    ASSUME IInv, Running, ~Carried(back), UNCHANGED <<source, ast, depth, ret, jump>>,
           IsSeq(frames'), Len(frames') = Len(frames),
           Node(Top.at).kind \notin Calling, NEW place, StartBody(place)
    PROVE  IInv'
<1>1. PICK t : t = [Top EXCEPT !.doing = "body", !.body = place, !.line = 0]
  OBVIOUS
<1>2. IsActivation(t) /\ t.at = Top.at
  <2>1. PICK top : top = Top
    OBVIOUS
  <2>2. IsActivation(top)
    BY <2>1, TopIs DEF IInv
  <2> QED BY <1>1, <2>1, <2>2, Changed
<1>3. stack' = ReplaceTop(t) /\ spans' = spans /\ ~Carried(back')
  BY <1>1, NotCarried DEF StartBody
<1> QED BY <1>2, <1>3, Continues

\* A return, with what does not set out from here.
LEMMA Leaves ==
    ASSUME IInv, Running, ~Carried(back), UNCHANGED <<source, ast, depth, ret, jump>>,
           IsSeq(frames'), Len(frames') = Len(frames),
           Top.doing # "body" \/ Node(Top.at).kind \notin Calling,
           NEW r, Leave(r), ~Carried(r)
    PROVE  IInv'
<1>1. Held' /\ CallsCounted'
  BY GoesBack DEF IInv
<1>2. back' = r
  BY DEF Leave
<1> QED BY <1>1, <1>2, NothingTravels DEF IInv

\* What the guards of the actions give.
LEMMA Guards ==
    /\ \A kinds : Ready(kinds) =>
          /\ Running /\ back = NoResult /\ ~Carried(back) /\ Top.doing = "operands"
          /\ Node(Top.at).kind \in kinds
    /\ \A doing : Given(doing) => Running /\ Top.doing = doing
    /\ \A kind : LastLineDone(kind) =>
          /\ Running /\ ~Carried(back) /\ ~Failed(back)
          /\ Top.doing = "body" /\ Node(Top.at).kind = kind
BY NotCarried DEF Ready, Given, LastLineDone

----------------------------------------------------------------------------
(* Expressions and simple statements.                                      *)

LEMMA OperandStep ==
    ASSUME IInv, EvalOperand \/ TakeOperand
    PROVE  IInv'
<1>1. PICK top : top = Top
  OBVIOUS
<1>2. IsActivation(top) /\ Running /\ ~Carried(back)
  BY <1>1, TopIs, NotCarried DEF IInv, EvalOperand, TakeOperand, Given
<1>3. CASE EvalOperand
  <2>1. PICK place : place = Append(Top.at, -(Len(Top.vals) + 1))
    OBVIOUS
  <2>2. Enter(top, place) /\ UNCHANGED <<source, ast, interp>>
    BY <1>1, <1>3, <2>1 DEF EvalOperand, Enter, ReplaceTop
  <2> QED BY <1>1, <1>2, <2>2, Enters
<1>4. CASE TakeOperand
  <2>1. PICK vals : vals = Append(Top.vals, back.value)
    OBVIOUS
  <2>2. PICK t : t = [top EXCEPT !.vals = vals]
    OBVIOUS
  <2>3. IsActivation(t) /\ t.at = Top.at /\ t.doing = Top.doing
    <3>1. IsActivation(t) /\ t.at = top.at /\ t.doing = top.doing
      BY <1>2, <2>2, Changed
    <3> QED BY <1>1, <3>1
  <2>4. stack' = ReplaceTop(t) /\ spans' = spans /\ back' = NoResult
    BY <1>1, <1>4, <2>1, <2>2 DEF TakeOperand, Continue
  <2>5. /\ UNCHANGED <<source, ast, depth, ret, jump>>
        /\ IsSeq(frames') /\ Len(frames') = Len(frames)
    BY <1>4 DEF TakeOperand, interp, IInv, CallsCounted
  <2> QED BY <1>2, <2>3, <2>4, <2>5, Continues, NotCarried
<1> QED BY <1>3, <1>4

\* What an operator makes of its operands is a value or an error.
LEMMA Operated ==
    ASSUME NEW node, node.kind \in {"infix", "prefix", "postfix"}, NEW vals
    PROVE  ~Carried(Operate(node, vals))
<1>1. \A op, a, b : ~Carried(Arithmetic(op, a, b))
  BY NotCarried, Zenon DEF Arithmetic
<1>2. \A op, l, r : ~Carried(Binary(op, l, r))
  BY <1>1, NotCarried, Zenon DEF Binary
<1>3. \A op, v : ~Carried(Unary(op, v))
  BY NotCarried, Zenon DEF Unary
<1> QED BY <1>2, <1>3, NotCarried DEF Operate

LEMMA ExpressionStep ==
    ASSUME IInv, Primary \/ EvalOperator
    PROVE  IInv'
<1>1. PICK r : Leave(r) /\ ~Carried(r)
  <2>1. CASE Primary
    <3>1. PICK r : /\ Leave(r)
                   /\ \/ \E v : r = Ok(v)
                      \/ \E at : r = Error(at)
      <4>1. Node(Top.at).kind \in {"num", "str", "var"}
        BY <2>1, Guards DEF Primary
      <4>2. CASE Node(Top.at).kind = "num"
        BY <2>1, <4>2 DEF Primary
      <4>3. CASE Node(Top.at).kind = "str"
        BY <2>1, <4>3 DEF Primary
      <4>4. CASE Node(Top.at).kind = "var"
        BY <2>1, <4>4 DEF Primary
      <4> QED BY <4>1, <4>2, <4>3, <4>4
    <3> QED BY <3>1, NotCarried
  <2>2. CASE EvalOperator
    <3>1. Node(Top.at).kind \in Unlabelled
      BY <2>2, Guards DEF EvalOperator
    <3>2. CASE Node(Top.at).kind = "paren"
      <4>1. Leave(Ok(Top.vals[1]))
        BY <2>2, <3>2 DEF EvalOperator
      <4> QED BY <4>1, NotCarried
    <3>3. CASE Node(Top.at).kind # "paren"
      <4>1. PICK node : node = Node(Top.at)
        OBVIOUS
      <4>2. Leave(Operate(Node(Top.at), Top.vals))
        BY <2>2, <3>3 DEF EvalOperator
      <4>3. ~Carried(Operate(node, Top.vals))
        BY <3>1, <3>3, <4>1, Operated DEF Unlabelled
      <4> QED BY <4>1, <4>2, <4>3
    <3> QED BY <3>2, <3>3
  <2> QED BY <2>1, <2>2
<1>2. /\ Running /\ ~Carried(back) /\ Top.doing # "body"
      /\ UNCHANGED <<source, ast, depth, ret, jump>>
      /\ IsSeq(frames') /\ Len(frames') = Len(frames)
  BY Guards DEF Primary, EvalOperator, interp, IInv, CallsCounted
<1> QED BY <1>1, <1>2, Leaves

LEMMA StatementStep ==
    ASSUME IInv, Let \/ PrintLine \/ Exit \/ DefineSub \/ DefineFunction
    PROVE  IInv'
<1>1. PICK r : Leave(r) /\ ~Carried(r)
  <2>1. CASE Let \/ PrintLine
    BY <2>1, NotCarried DEF Let, PrintLine
  <2>2. CASE Exit
    <3>1. PICK label \in ForControl \cup WhileControl \cup {"EXIT SUB"} : Leave(Signal(label, Here))
      BY <2>2 DEF Exit
    <3>2. ~Carried(Signal(label, Here))
      BY DEF Carried, IsSignal, Signal, ForControl, WhileControl
    <3> QED BY <3>1, <3>2
  <2>3. CASE DefineSub \/ DefineFunction
    <3>1. Leave(Error(Here)) \/ Leave(Ok(Void))
      BY <2>3 DEF DefineSub, DefineFunction
    <3> QED BY <3>1, NotCarried
  <2> QED BY <2>1, <2>2, <2>3
<1>2. /\ Running /\ ~Carried(back) /\ Top.doing # "body"
      /\ UNCHANGED <<source, ast, depth, ret, jump>>
  BY Guards DEF Let, PrintLine, Exit, DefineSub, DefineFunction, interp
<1>3. IsSeq(frames') /\ Len(frames') = Len(frames)
  <2>1. CASE Let
    <3>1. PICK name, v : Store(name, v)
      BY <2>1 DEF Let
    <3> QED BY <3>1, StoreKeeps DEF IInv, CallsCounted
  <2>2. CASE frames' = frames
    BY <2>2 DEF IInv, CallsCounted
  <2> QED BY <2>1, <2>2 DEF PrintLine, Exit, DefineSub, DefineFunction, interp
<1> QED BY <1>1, <1>2, <1>3, Leaves

\* A jump sets out, with its value or its target.
LEMMA JumpSetsOut ==
    ASSUME IInv, Return \/ Goto
    PROVE  IInv'
<1>1. PICK r : Leave(r)
  BY DEF Return, Goto
<1>2. /\ Running /\ back = NoResult /\ Top.doing # "body"
      /\ UNCHANGED <<source, ast, depth>>
      /\ IsSeq(frames') /\ Len(frames') = Len(frames)
  BY Guards DEF Return, Goto, IInv, CallsCounted
<1>3. Held' /\ CallsCounted'
  BY <1>1, <1>2, GoesBack DEF IInv
<1>4. ret = None /\ jump = None
  BY <1>2 DEF IInv, PayloadsTravel, IsSignal, NoResult
<1>5. PayloadsTravel'
  <2>1. \A x : Some(x) # None
    BY DEF Some, None
  <2>2. CASE Return
    <3>1. back' = Signal("RETURN", Here) /\ ret' # None /\ jump' = None
      BY <1>4, <2>1, <2>2 DEF Return, Leave
    <3> QED BY <3>1 DEF PayloadsTravel, IsSignal, Signal, None
  <2>3. CASE Goto
    <3>1. back' = Signal("goto", Here) /\ ret' = None /\ jump' # None
      BY <1>4, <2>1, <2>3 DEF Goto, Leave
    <3> QED BY <3>1 DEF PayloadsTravel, IsSignal, Signal, None
  <2> QED BY <2>2, <2>3
<1> QED BY <1>3, <1>5 DEF IInv

----------------------------------------------------------------------------
(* Statements that run others.                                             *)

LEMMA NextLineStep ==
    ASSUME IInv, NextLine
    PROVE  IInv'
<1>1. PICK top : top = Top
  OBVIOUS
<1>2. PICK place, line : place = Append(Top.body, Top.line + 1) /\ line = Top.line + 1
  OBVIOUS
<1>3. PICK t : t = [top EXCEPT !.line = line]
  OBVIOUS
<1>4. IsActivation(top) /\ Running /\ ~Carried(back)
  BY <1>1, TopIs, NotCarried DEF IInv, NextLine, Given
<1>5. IsActivation(t) /\ t.at = top.at /\ t.doing = top.doing
  BY <1>3, <1>4, Changed
<1>6. t = [Top EXCEPT !.line = @ + 1]
  BY <1>1, <1>2, <1>3
<1>7. Enter(t, place) /\ UNCHANGED <<source, ast, interp>>
  BY <1>2, <1>6 DEF NextLine, Enter, ReplaceTop
<1> QED BY <1>1, <1>4, <1>5, <1>7, Enters

LEMMA IfStep ==
    ASSUME IInv, If \/ EndIf
    PROVE  IInv'
<1>1. /\ Running /\ ~Carried(back) /\ Node(Top.at).kind \notin Calling
      /\ UNCHANGED <<source, ast, depth, ret, jump>>
      /\ IsSeq(frames') /\ Len(frames') = Len(frames)
  BY Guards DEF If, EndIf, interp, IInv, CallsCounted, Calling
<1>2. \/ \E place : StartBody(place)
      \/ \E r : Leave(r) /\ ~Carried(r)
  BY <1>1, NotCarried DEF If, EndIf
<1> QED BY <1>1, <1>2, StartsBody, Leaves

\* The counter of a FOR goes on to its next pass.
LEMMA Passes ==
    ASSUME IInv, Running, ~Carried(back), UNCHANGED <<source, ast, interp>>,
           Node(Top.at).kind = "for", NEW x, Pass(x)
    PROVE  IInv'
<1>1. PICK top : top = Top
  OBVIOUS
<1>2. IsActivation(top) /\ Node(top.at).kind = "for"
  BY <1>1, TopIs DEF IInv
<1>3. PICK t : t = [top EXCEPT !.doing = "pass", !.count = x]
  OBVIOUS
<1>4. IsActivation(t) /\ t.at = top.at
  BY <1>2, <1>3, Changed
<1>5. stack' = ReplaceTop(t) /\ spans' = spans /\ ~Carried(back')
  BY <1>1, <1>3, NotCarried DEF Pass, Continue
<1>6. /\ UNCHANGED <<source, ast, depth, ret, jump>> /\ Node(Top.at).kind \notin Calling
      /\ IsSeq(frames') /\ Len(frames') = Len(frames)
  BY DEF interp, IInv, CallsCounted, Calling
<1> QED BY <1>1, <1>4, <1>5, <1>6, Continues

LEMMA ForStep ==
    ASSUME IInv, For \/ ForPass \/ ForNext \/ ExitFor
    PROVE  IInv'
<1>1. CASE For
  <2>1. /\ Running /\ ~Carried(back) /\ Node(Top.at).kind = "for" /\ Top.doing # "body"
        /\ UNCHANGED <<source, ast, interp>>
    BY <1>1, Guards DEF For
  <2>2. \/ Leave(Error(Here))
        \/ \E x : Pass(x)
    BY <1>1 DEF For
  <2>3. CASE Leave(Error(Here))
    <3>1. PICK r : Leave(r) /\ ~Carried(r)
      BY <2>3, NotCarried
    <3>2. /\ UNCHANGED <<source, ast, depth, ret, jump>>
          /\ IsSeq(frames') /\ Len(frames') = Len(frames)
      BY <2>1 DEF interp, IInv, CallsCounted
    <3> QED BY <2>1, <3>1, <3>2, Leaves
  <2>4. CASE \E x : Pass(x)
    BY <2>1, <2>4, Passes
  <2> QED BY <2>2, <2>3, <2>4
<1>2. CASE ForNext
  <2>1. /\ Running /\ ~Carried(back) /\ Node(Top.at).kind = "for"
        /\ UNCHANGED <<source, ast, interp>>
    BY <1>2, Guards DEF ForNext, Carried, IsSignal
  <2>2. PICK x : Pass(x)
    BY <1>2 DEF ForNext
  <2> QED BY <2>1, <2>2, Passes
<1>3. CASE ForPass \/ ExitFor
  <2>1. /\ Running /\ ~Carried(back) /\ Node(Top.at).kind \notin Calling
        /\ UNCHANGED <<source, ast, depth, ret, jump>>
    <3>1. CASE ForPass
      <4>1. PICK top : top = Top
        OBVIOUS
      <4>2. IsActivation(top) /\ top.doing = "pass"
        BY <3>1, <4>1, TopIs DEF ForPass, IInv
      <4>3. Node(Top.at).kind = "for"
        BY <4>1, <4>2 DEF IsActivation
      <4> QED BY <3>1, <4>3, NotCarried DEF ForPass, Calling
    <3>2. CASE ExitFor
      BY <3>2, Guards DEF ExitFor, Carried, IsSignal, Calling
    <3> QED BY <1>3, <3>1, <3>2
  <2>2. IsSeq(frames') /\ Len(frames') = Len(frames)
    <3>1. PICK name, v : Store(name, v)
      BY <1>3 DEF ForPass, ExitFor
    <3> QED BY <3>1, StoreKeeps DEF IInv, CallsCounted
  <2>3. \/ \E place : StartBody(place)
        \/ \E r : Leave(r) /\ ~Carried(r)
    BY <1>3, NotCarried DEF ForPass, ExitFor
  <2> QED BY <2>1, <2>2, <2>3, StartsBody, Leaves
<1> QED BY <1>1, <1>2, <1>3

LEMMA WhileStep ==
    ASSUME IInv, While \/ WhilePass \/ ExitWhile
    PROVE  IInv'
<1>1. PICK top : top = Top
  OBVIOUS
<1>2. IsActivation(top) /\ Running /\ ~Carried(back) /\ Node(top.at).kind = "while"
  <2>1. Running
    BY Guards DEF While, WhilePass, ExitWhile
  <2>2. IsActivation(top)
    BY <1>1, <2>1, TopIs DEF IInv
  <2>3. CASE While \/ ExitWhile
    <3>1. CASE Ready({"while"}) \/ LastLineDone("while")
      BY <1>1, <2>1, <2>2, <3>1, Guards
    <3>2. CASE Given("body") /\ Node(Top.at).kind = "while" /\ IsSignal(back, WhileControl)
      BY <1>1, <2>1, <2>2, <3>2, NotCarried DEF IsSignal
    <3> QED BY <2>3, <3>1, <3>2 DEF While, ExitWhile, IsSignal, WhileControl
  <2>4. CASE WhilePass
    BY <1>1, <2>1, <2>2, <2>4, Guards, NotCarried DEF WhilePass, IsActivation
  <2> QED BY <2>3, <2>4
<1>3. CASE While
  <2>1. PICK t : t = [top EXCEPT !.doing = "test"]
    OBVIOUS
  <2>2. IsActivation(t) /\ t.at = top.at
    BY <1>2, <2>1, Changed
  <2>3. PICK place : place = Append(Top.at, -1)
    OBVIOUS
  <2>4. Enter(t, place) /\ UNCHANGED <<source, ast, interp>>
    BY <1>1, <1>3, <2>1, <2>3 DEF While
  <2> QED BY <1>1, <1>2, <2>2, <2>4, Enters DEF Calling
<1>4. CASE WhilePass \/ ExitWhile
  <2>1. /\ UNCHANGED <<source, ast, depth, ret, jump>> /\ Node(Top.at).kind \notin Calling
        /\ IsSeq(frames') /\ Len(frames') = Len(frames)
    BY <1>1, <1>2, <1>4 DEF WhilePass, ExitWhile, interp, IInv, CallsCounted, Calling
  <2>2. \/ \E place : StartBody(place)
        \/ \E r : Leave(r) /\ ~Carried(r)
    BY <1>4, NotCarried DEF WhilePass, ExitWhile
  <2> QED BY <1>2, <2>1, <2>2, StartsBody, Leaves
<1> QED BY <1>3, <1>4

----------------------------------------------------------------------------
(* Calls.                                                                  *)

\* The body of a call begins.
LEMMA Begins ==
    ASSUME IInv, Running, Top.doing = "operands", Node(Top.at).kind \in Calling,
           UNCHANGED <<source, ast>>, NEW place, StartBody(place)
    PROVE  /\ Held'
           /\ Cardinality(InBody(Calling)') = depth + 1
           /\ Cardinality(InBody({"call_fn"})')
                = Len(frames) + IF Node(Top.at).kind = "call_fn" THEN 1 ELSE 0
<1>n. PICK n \in Nat : n = Len(stack)
  BY Marked DEF IInv
<1>0. n \in 1..n /\ DOMAIN stack = 1..n /\ Top = stack[n]
  BY <1>n, Marked DEF IInv, Running
<1>1. PICK top : top = Top
  OBVIOUS
<1>2. PICK t : t = [top EXCEPT !.doing = "body", !.body = place, !.line = 0]
  OBVIOUS
<1>3. IsActivation(t) /\ t.at = top.at /\ t.doing = "body"
  <2>1. IsActivation(top)
    BY <1>1, TopIs DEF IInv
  <2> QED BY <1>2, <2>1, Changed
<1>4. /\ Held'
      /\ \A kinds : InBody(kinds)' = IF Runs(t, kinds) THEN InBody(kinds) \cup {n}
                                     ELSE InBody(kinds) \ {n}
  <2>1. stack' = ReplaceTop(t) /\ spans' = spans
    BY <1>1, <1>2 DEF StartBody
  <2> QED BY <1>n, <1>1, <1>3, <2>1, Replaced DEF IInv
<1>5. ASSUME NEW kinds
      PROVE  n \notin InBody(kinds) /\ IsFiniteSet(InBody(kinds))
  <2>1. n \notin InBody(kinds)
    BY <1>0 DEF InBody
  <2>2. InBody(kinds) \in SUBSET (1..n)
    BY <1>n, Marked DEF IInv
  <2> QED BY <2>1, <2>2, SomeIndices
<1>6. Cardinality(InBody(Calling)') = depth + 1
  <2>1. InBody(Calling)' = InBody(Calling) \cup {n}
    BY <1>1, <1>3, <1>4 DEF Runs
  <2>2. Cardinality(InBody(Calling)) = depth
    BY DEF IInv, CallsCounted, Calling
  <2> QED BY <1>5, <2>1, <2>2, FS_AddElement
<1>7. Cardinality(InBody({"call_fn"})')
        = Len(frames) + IF Node(Top.at).kind = "call_fn" THEN 1 ELSE 0
  <2>1. Cardinality(InBody({"call_fn"})) = Len(frames) /\ Len(frames) \in Nat
    BY DEF IInv, CallsCounted, IsSeq
  <2>2. CASE Node(Top.at).kind = "call_fn"
    <3>1. InBody({"call_fn"})' = InBody({"call_fn"}) \cup {n}
      BY <1>1, <1>3, <1>4, <2>2 DEF Runs
    <3>2. Cardinality(InBody({"call_fn"})') = Len(frames) + 1
      BY <1>5, <2>1, <3>1, FS_AddElement
    <3> QED BY <2>2, <3>2
  <2>3. CASE Node(Top.at).kind # "call_fn"
    <3>1. InBody({"call_fn"})' = InBody({"call_fn"})
      BY <1>1, <1>3, <1>4, <1>5, <2>3 DEF Runs
    <3> QED BY <2>1, <2>3, <3>1
  <2> QED BY <2>2, <2>3
<1> QED BY <1>4, <1>6, <1>7

\* And ends.
LEMMA Ends ==
    ASSUME IInv, Running, Top.doing = "body", Node(Top.at).kind \in Calling,
           UNCHANGED <<source, ast>>, NEW r, Leave(r)
    PROVE  /\ Held'
           /\ Cardinality(InBody(Calling)') = depth - 1
           /\ Node(Top.at).kind = "call" => Cardinality(InBody({"call_fn"})') = Len(frames)
           /\ Node(Top.at).kind = "call_fn" =>
                 frames # <<>> /\ Cardinality(InBody({"call_fn"})') = Len(frames) - 1
<1>n. PICK n \in Nat : n = Len(stack)
  BY Marked DEF IInv
<1>0. n \in 1..n /\ DOMAIN stack = 1..n /\ Top = stack[n]
  BY <1>n, Marked DEF IInv, Running
<1>1. Held' /\ \A kinds : InBody(kinds)' = InBody(kinds) \ {n}
  BY <1>n, Left DEF IInv
<1>2. ASSUME NEW kinds
      PROVE  IsFiniteSet(InBody(kinds)) /\ Cardinality(InBody(kinds)) \in Nat
  <2>1. InBody(kinds) \in SUBSET (1..n)
    BY <1>n, Marked DEF IInv
  <2> QED BY <2>1, SomeIndices
<1>3. /\ Cardinality(InBody(Calling)) = depth
      /\ Cardinality(InBody({"call_fn"})) = Len(frames)
  BY DEF IInv, CallsCounted, Calling
<1>4. Cardinality(InBody(Calling)') = depth - 1
  <2>1. n \in InBody(Calling)
    BY <1>0 DEF InBody
  <2> QED BY <1>1, <1>2, <1>3, <2>1, FS_RemoveElement
<1>5. ASSUME Node(Top.at).kind = "call"
      PROVE  Cardinality(InBody({"call_fn"})') = Len(frames)
  <2>1. n \notin InBody({"call_fn"})
    BY <1>0, <1>5 DEF InBody
  <2>2. InBody({"call_fn"})' = InBody({"call_fn"})
    BY <1>1, <2>1
  <2> QED BY <1>3, <2>2
<1>6. ASSUME Node(Top.at).kind = "call_fn"
      PROVE  frames # <<>> /\ Cardinality(InBody({"call_fn"})') = Len(frames) - 1
  <2>1. n \in InBody({"call_fn"})
    BY <1>0, <1>6 DEF InBody
  <2>2. Cardinality(InBody({"call_fn"})') = Len(frames) - 1
    BY <1>1, <1>2, <1>3, <2>1, FS_RemoveElement
  <2>3. InBody({"call_fn"}) # {}
    BY <2>1
  <2>4. Cardinality(InBody({"call_fn"})) # 0
    BY <1>2, <2>3, FS_EmptySet
  <2> QED BY <1>3, <2>2, <2>4
<1> QED BY <1>1, <1>4, <1>5, <1>6

LEMMA CallStep ==
    ASSUME IInv, Call \/ CallFn
    PROVE  IInv'
<1>1. /\ Running /\ ~Carried(back) /\ Top.doing = "operands" /\ Node(Top.at).kind \in Calling
      /\ UNCHANGED <<source, ast, ret, jump>>
  BY Guards DEF Call, CallFn, Calling
<1>2. CASE (\E r : Leave(r) /\ ~Carried(r)) /\ UNCHANGED <<depth, frames>>
  BY <1>1, <1>2, Leaves DEF IInv, CallsCounted
<1>3. CASE /\ \E place : StartBody(place)
           /\ ~TooDeep /\ EnterCall
           /\ IF Node(Top.at).kind = "call" THEN frames' = frames
              ELSE \E frame : frames' = Append(frames, frame)
  <2>1. /\ Held'
        /\ Cardinality(InBody(Calling)') = depth + 1
        /\ Cardinality(InBody({"call_fn"})')
             = Len(frames) + IF Node(Top.at).kind = "call_fn" THEN 1 ELSE 0
    BY <1>1, <1>3, Begins
  <2>2. depth' = depth + 1 /\ ~(depth + 1 > MaxCallDepth) /\ depth \in Nat
    <3>1. InBody(Calling) \in SUBSET (1..Len(stack)) /\ Len(stack) \in Nat
      BY Marked DEF IInv
    <3>2. Cardinality(InBody(Calling)) \in Nat
      BY <3>1, SomeIndices
    <3> QED BY <1>3, <3>2 DEF TooDeep, EnterCall, IInv, CallsCounted, Calling
  <2>3. depth' <= MaxCallDepth
    BY <2>2, BasicAssumption
  <2>4. /\ IsSeq(frames')
        /\ Len(frames') = Len(frames) + IF Node(Top.at).kind = "call_fn" THEN 1 ELSE 0
    <3>1. IsSeq(frames) /\ Len(frames) \in Nat
      BY DEF IInv, CallsCounted, IsSeq
    <3>2. CASE Node(Top.at).kind = "call"
      <4>1. frames' = frames
        BY <1>3, <3>2
      <4> QED BY <3>1, <3>2, <4>1
    <3>3. CASE Node(Top.at).kind = "call_fn"
      <4>1. PICK frame : frames' = Append(frames, frame)
        BY <1>3, <3>3
      <4>2. IsSeq(frames') /\ Len(frames') = Len(frames) + 1
        BY <3>1, <4>1, Pushed
      <4> QED BY <3>3, <4>2
    <3> QED BY <1>1, <3>2, <3>3 DEF Calling
  <2>5. CallsCounted'
    BY <2>1, <2>2, <2>3, <2>4 DEF CallsCounted, Calling
  <2>6. ~Carried(back')
    BY <1>3, NotCarried DEF StartBody
  <2> QED BY <1>1, <2>1, <2>5, <2>6, NothingTravels DEF IInv
<1>4. CASE Call
  <2>1. Node(Top.at).kind = "call"
    BY <1>4, Guards DEF Call
  <2> QED BY <1>2, <1>3, <1>4, <2>1, NotCarried DEF Call
<1>5. CASE CallFn
  <2>1. Node(Top.at).kind = "call_fn"
    <3>1. Ready({"call_fn"})
      BY <1>5 DEF CallFn
    <3> QED BY <3>1, Guards
  <2> QED BY <1>2, <1>3, <1>5, <2>1, NotCarried DEF CallFn
<1> QED BY <1>4, <1>5

\* The books, when a call ends.
LEMMA CallEnds ==
    ASSUME IInv, EndCall \/ EndCallFn
    PROVE  Held' /\ CallsCounted'
<1>1. /\ Running /\ Top.doing = "body" /\ UNCHANGED <<source, ast>> /\ depth' = depth - 1
      /\ \E r : Leave(r)
  BY Guards DEF EndCall, EndCallFn, LeaveCall
<1>2. \/ Node(Top.at).kind = "call" /\ frames' = frames
      \/ Node(Top.at).kind = "call_fn" /\ frames' = Front(frames)
  BY Guards DEF EndCall, EndCallFn
<1>3. /\ Held'
      /\ Cardinality(InBody(Calling)') = depth - 1
      /\ Node(Top.at).kind = "call" => Cardinality(InBody({"call_fn"})') = Len(frames)
      /\ Node(Top.at).kind = "call_fn" =>
            frames # <<>> /\ Cardinality(InBody({"call_fn"})') = Len(frames) - 1
  BY <1>1, <1>2, Ends DEF Calling
<1>4. IsSeq(frames') /\ Len(frames') = Cardinality(InBody({"call_fn"})')
  <2>1. IsSeq(frames)
    BY DEF IInv, CallsCounted
  <2>2. CASE Node(Top.at).kind = "call" /\ frames' = frames
    BY <1>3, <2>1, <2>2
  <2>3. CASE Node(Top.at).kind = "call_fn" /\ frames' = Front(frames)
    <3>1. IsSeq(frames') /\ Len(frames') = Len(frames) - 1
      BY <1>3, <2>1, <2>3, Popped
    <3> QED BY <1>3, <2>3, <3>1
  <2> QED BY <1>2, <2>2, <2>3
<1>5. depth' <= MaxCallDepth
  <2>1. InBody(Calling) \in SUBSET (1..Len(stack)) /\ Len(stack) \in Nat
    BY Marked DEF IInv
  <2>2. Cardinality(InBody(Calling)) \in Nat
    BY <2>1, SomeIndices
  <2>3. depth \in Nat /\ depth <= MaxCallDepth
    BY <2>2 DEF IInv, CallsCounted, Calling
  <2> QED BY <1>1, <2>3, BasicAssumption
<1> QED BY <1>1, <1>3, <1>4, <1>5 DEF CallsCounted, Calling

LEMMA EndCallStep ==
    ASSUME IInv, EndCall \/ EndCallFn
    PROVE  IInv'
<1>1. Held' /\ CallsCounted'
  BY CallEnds
<1>2. CASE EndCall
  <2>1. back' = CallResult(back) /\ UNCHANGED <<ret, jump>>
    BY <1>2 DEF EndCall, Leave
  <2>2. \/ CallResult(back) = back
        \/ ~Carried(back) /\ ~Carried(CallResult(back))
    <3>1. CASE ~Failed(back) \/ IsSignal(back, {"EXIT SUB"})
      BY <3>1, NotCarried DEF CallResult, Failed, Carried, IsSignal
    <3>2. CASE IsSignal(back, ForControl \cup WhileControl)
      <4>1. ~Carried(back)
        BY <3>2, NotCarried DEF IsSignal
      <4>2. CallResult(back) = Error(Here) \/ CallResult(back) = Ok(Void)
        BY <3>2 DEF CallResult
      <4> QED BY <4>1, <4>2, NotCarried
    <3>3. CASE /\ ~(~Failed(back) \/ IsSignal(back, {"EXIT SUB"}))
               /\ ~IsSignal(back, ForControl \cup WhileControl)
      BY <3>3 DEF CallResult
    <3> QED BY <3>1, <3>2, <3>3
  <2>3. PayloadsTravel'
    BY <2>1, <2>2, StillTravels, NothingTravels DEF IInv
  <2> QED BY <1>1, <2>3 DEF IInv
<1>3. CASE EndCallFn
  <2>1. jump' = jump
    BY <1>3 DEF EndCallFn
  <2>2. CASE IsSignal(back, {"RETURN"})
    <3>1. ret # None /\ jump = None
      BY <2>2 DEF IInv, PayloadsTravel, IsSignal
    <3>2. ret' = None
      BY <1>3, <2>2 DEF EndCallFn, TakeReturned
    <3>3. back' = Ok(ret[1])
      BY <1>3, <2>2, <3>1 DEF EndCallFn, Leave
    <3> QED BY <1>1, <2>1, <3>1, <3>2, <3>3 DEF IInv, PayloadsTravel, IsSignal, Ok
  <2>3. CASE ~IsSignal(back, {"RETURN"})
    <3>1. ret' = ret
      BY <1>3, <2>3 DEF EndCallFn, TakeReturned
    <3>2. CASE ~Failed(back) \/ IsSignal(back, ForControl \cup WhileControl)
      <4>1. back' = Error(Here)
        BY <1>3, <2>3, <3>2 DEF EndCallFn, Leave
      <4>2. ~Carried(back) /\ ~Carried(back')
        BY <3>2, <4>1, NotCarried DEF IsSignal
      <4> QED BY <1>1, <2>1, <3>1, <4>2, NothingTravels DEF IInv
    <3>3. CASE ~(~Failed(back) \/ IsSignal(back, ForControl \cup WhileControl))
      <4>1. back' = back
        BY <1>3, <2>3, <3>3 DEF EndCallFn, Leave
      <4> QED BY <1>1, <2>1, <3>1, <4>1, StillTravels DEF IInv
    <3> QED BY <3>2, <3>3
  <2> QED BY <2>2, <2>3
<1> QED BY <1>2, <1>3

----------------------------------------------------------------------------
(* The program, and what passes through.                                   *)

LEMMA ProgramStep ==
    ASSUME IInv, Program \/ EndProgram
    PROVE  IInv'
<1>1. /\ Running /\ ~Carried(back) /\ Node(Top.at).kind \notin Calling
      /\ UNCHANGED <<source, ast, depth, ret, jump>>
      /\ IsSeq(frames') /\ Len(frames') = Len(frames)
  BY Guards DEF Program, EndProgram, interp, IInv, CallsCounted, Calling
<1>2. \/ \E place : StartBody(place)
      \/ \E r : Leave(r) /\ ~Carried(r)
  BY NotCarried DEF Program, EndProgram
<1> QED BY <1>1, <1>2, StartsBody, Leaves

LEMMA JumpStep ==
    ASSUME IInv, Jump
    PROVE  IInv'
<1>1. /\ Running /\ Node(Top.at).kind \notin Calling /\ UNCHANGED <<source, ast, depth, ret>>
      /\ IsSeq(frames') /\ Len(frames') = Len(frames)
  BY Guards DEF Jump, IInv, CallsCounted, Calling
<1>2. ret = None /\ ret' = None /\ jump' = None
  BY DEF Jump, IInv, PayloadsTravel, IsSignal
<1>3. CASE Leave(Error(Here))
  <2>1. PICK r : r = Error(Here)
    OBVIOUS
  <2>2. Held' /\ CallsCounted' /\ back' = r /\ ~Carried(r)
    BY <1>1, <1>3, <2>1, GoesBack, NotCarried DEF IInv, Leave
  <2> QED BY <1>2, <2>2 DEF IInv, PayloadsTravel, Carried, IsSignal
<1>4. CASE \E i : Enter([Top EXCEPT !.line = i], <<i>>)
  <2>1. PICK i : Enter([Top EXCEPT !.line = i], <<i>>)
    BY <1>4
  <2>2. PICK top : top = Top
    OBVIOUS
  <2>3. PICK t : t = [top EXCEPT !.line = i]
    OBVIOUS
  <2>4. IsActivation(t) /\ t.at = top.at /\ t.doing = top.doing
    <3>1. IsActivation(top)
      BY <1>1, <2>2, TopIs DEF IInv
    <3> QED BY <2>3, <3>1, Changed
  <2>5. Enter(t, <<i>>)
    BY <2>1, <2>2, <2>3
  <2>6. Held' /\ CallsCounted'
    BY <1>1, <2>2, <2>4, <2>5, GoesOn DEF IInv
  <2>7. back' = NoResult
    BY <2>5 DEF Enter
  <2> QED BY <1>2, <2>6, <2>7 DEF IInv, PayloadsTravel, IsSignal, NoResult
<1> QED BY <1>3, <1>4 DEF Jump

LEMMA PropagateStep ==
    ASSUME IInv, Propagate
    PROVE  IInv'
<1>1. PICK r : r = back
  OBVIOUS
<1>2. /\ Running /\ Leave(r) /\ back' = back
      /\ Top.doing # "body" \/ Node(Top.at).kind \notin Calling
      /\ UNCHANGED <<source, ast, depth, ret, jump>>
      /\ IsSeq(frames') /\ Len(frames') = Len(frames)
  BY <1>1 DEF Propagate, Leave, Catches, Calling, interp, IInv, CallsCounted
<1>3. Held' /\ CallsCounted'
  BY <1>2, GoesBack DEF IInv
<1> QED BY <1>2, <1>3, StillTravels DEF IInv

----------------------------------------------------------------------------
(* The theorems.                                                           *)

LEMMA InitHolds ==
    ASSUME Init
    PROVE  IInv
<1>1. PayloadsTravel
  <2>1. back = NoResult /\ ret = None /\ jump = None
    BY DEF Init
  <2> QED BY <2>1 DEF PayloadsTravel, IsSignal, NoResult
<1>0. frames = <<>> /\ depth = 0 /\ depth <= MaxCallDepth
  <2>1. frames = <<>> /\ depth = 0
    BY DEF Init
  <2> QED BY <2>1, BasicAssumption
<1>2. /\ Cardinality({}) = 0
      /\ IsSeq(<<>>) /\ Len(<<>>) = 0 /\ DOMAIN <<>> = {}
  <2>1. <<>> \in Seq({})
    OBVIOUS
  <2>2. IsSeq(<<>>) /\ Len(<<>>) = 0
    BY <2>1, ASeqIs
  <2>3. DOMAIN <<>> = {}
    OBVIOUS
  <2> QED BY <2>2, <2>3, FS_EmptySet
<1>3. CASE stack = <<>> /\ spans = <<>>
  <2>1. Spanned = {} /\ \A kinds : InBody(kinds) = {}
    BY <1>2, <1>3 DEF Spanned, InBody
  <2>2. Held
    BY <1>2, <1>3, <2>1 DEF Held, SpansMatch
  <2>3. CallsCounted
    BY <1>0, <1>2, <2>1 DEF CallsCounted
  <2> QED BY <1>1, <2>2, <2>3 DEF IInv
<1>4. CASE stack = <<Activation(<<>>)>> /\ spans = << <<>> >>
  <2> DEFINE a == Activation(<<>>)
  <2>1. a.at = <<>> /\ IsActivation(a) /\ \A kinds : ~Runs(a, kinds)
    BY DEF IsActivation, Fields, Activation, Runs
  <2>2. Node(<<>>).kind = "program"
    <3>1. source \in Sources /\ ast = Exprs(source) /\ Built(ast)
      BY <1>4 DEF Init
    <3> QED BY <3>1, GrammarAssumption DEF Grammatical, Node
  <2> HIDE DEF a
  <2>3. /\ IsSeq(stack) /\ Len(stack) = 1 /\ stack[1] = a /\ DOMAIN stack = 1..1
        /\ IsSeq(spans) /\ Len(spans) = 1 /\ spans[1] = <<>>
    BY <1>4 DEF IsSeq, a
  <2>4. Spanned = {1}
    BY <2>1, <2>2, <2>3 DEF Spanned, HasSpan, Unlabelled
  <2>5. \A kinds : InBody(kinds) = {}
    BY <2>1, <2>3 DEF InBody, Runs
  <2>6. Cardinality(Spanned) = 1 /\ Rank(Spanned, 1) = 1
    <3>1. {j \in {1} : j <= 1} = {1} /\ Cardinality({1}) = 1
      BY FS_Singleton
    <3> QED BY <2>4, <3>1 DEF Rank
  <2>7. SpansMatch
    BY <2>1, <2>3, <2>4, <2>6 DEF SpansMatch
  <2>8. Held
    BY <2>1, <2>3, <2>7 DEF Held
  <2>9. CallsCounted
    BY <1>0, <1>2, <2>5 DEF CallsCounted
  <2> QED BY <1>1, <2>8, <2>9 DEF IInv
<1> QED BY <1>3, <1>4 DEF Init

LEMMA StepHolds ==
    ASSUME IInv, [Next]_allvars
    PROVE  IInv'
<1>1. CASE Next
  BY <1>1, OperandStep, ExpressionStep, StatementStep, JumpSetsOut, NextLineStep, IfStep,
     ForStep, WhileStep, CallStep, EndCallStep, ProgramStep, JumpStep, PropagateStep DEF Next
<1>2. CASE UNCHANGED allvars
  <2>1. UNCHANGED <<stack, spans, frames, depth, ret, jump, back, source, ast>>
    BY <1>2 DEF allvars, interp
  <2>2. \A p : Node(p)' = Node(p)
    BY <2>1, SameNodes
  <2>3. Spanned' = Spanned /\ \A kinds : InBody(kinds)' = InBody(kinds)
    BY <2>1, <2>2 DEF Spanned, InBody
  <2>4. SpansMatch'
    BY <2>1, <2>3 DEF IInv, Held, SpansMatch
  <2>5. Held'
    BY <2>1, <2>2, <2>4 DEF IInv, Held, IsActivation
  <2>6. CallsCounted' /\ PayloadsTravel'
    BY <2>1, <2>3, StillTravels DEF IInv, CallsCounted
  <2> QED BY <2>5, <2>6 DEF IInv
<1> QED BY <1>1, <1>2

\* The invariant is inductive (lib.rs and ctx.rs: what one call changes, its
\* return undoes).
THEOREM InvariantHolds == Spec => []IInv
<1>1. Init => IInv
  BY InitHolds
<1>2. IInv /\ [Next]_allvars => IInv'
  BY StepHolds
<1> QED BY <1>1, <1>2, PTL DEF Spec

\* However an evaluation ends, the spans, the depth and the frames are those of the
\* activations there are (ctx.rs, enter and leave; lib.rs, enter_call and
\* leave_call; call_fn.rs).
THEOREM BooksStayBalanced == Spec => []BooksBalance
<1>1. IInv => BooksBalance
  BY DEF IInv, Held, SpansMatch, CallsCounted, BooksBalance
<1> QED BY <1>1, InvariantHolds, PTL

\* Recursion is no deeper than MAX_CALL_DEPTH, and of the calls under way those of
\* functions have the frames (lib.rs, enter_call).
THEOREM CallsAreBounded == Spec => [](depth \in 0..MaxCallDepth /\ Len(frames) <= depth)
<1>1. ASSUME IInv
      PROVE  depth \in 0..MaxCallDepth /\ Len(frames) <= depth
  <2>1. InBody(Calling) \in SUBSET (1..Len(stack)) /\ Len(stack) \in Nat
    BY <1>1, Marked DEF IInv
  <2>2. IsFiniteSet(InBody(Calling)) /\ Cardinality(InBody(Calling)) \in Nat
    BY <2>1, SomeIndices
  <2>3. InBody({"call_fn"}) \subseteq InBody(Calling)
    BY DEF InBody, Calling
  <2>4. Cardinality(InBody({"call_fn"})) <= Cardinality(InBody(Calling))
    BY <2>2, <2>3, FS_Subset
  <2> QED BY <1>1, <2>2, <2>4, BasicAssumption DEF IInv, CallsCounted, Calling
<1>2. IInv => depth \in 0..MaxCallDepth /\ Len(frames) <= depth
  BY <1>1
<1> QED BY <1>2, InvariantHolds, PTL

\* A value is kept for RETURN, and a target for GOTO, exactly while one is on its
\* way (ret.rs, goto.rs, call_fn.rs).
THEOREM PayloadsTravelWithJumps == Spec => []PayloadsTravel
<1>1. IInv => PayloadsTravel
  BY DEF IInv
<1> QED BY <1>1, InvariantHolds, PTL

----------------------------------------------------------------------------
(* The chain of activations.  What runs the lines of a node, or has an     *)
(* operand evaluated, is the activation under the one that does it.        *)

Sited(p) == p \in Places(source.program, ast)

\* A source is being run as parsed and folded.
Rooted == source \in Sources /\ ast = Exprs(source) /\ (Running => Built(ast))

\* An activation's place, and whose lines it runs: its own, or those it calls.
Placed(t) ==
    /\ Sited(t.at) /\ Sited(t.body) /\ IsSeq(t.vals) /\ t.line \in Nat
    /\ t.doing = "body" =>
          /\ Node(t.body).kind \in Bodied
          /\ Node(t.at).kind \in {"program", "if", "for", "while"} \cup Calling
          /\ Node(t.at).kind \notin Calling => t.body = t.at

\* One activation has called that of a place: a line of a body, or an operand.
Called(t, place) ==
    /\ place # <<>>
    /\ IF t.doing = "body" THEN Front(place) = t.body
       ELSE Front(place) = t.at /\ Last(place) < 0

Chained ==
    /\ \A i \in 1..Len(stack) : Placed(stack[i])
    /\ \A i \in 1..(Len(stack) - 1) : Called(stack[i], stack[i + 1].at)

\* What is kept under a name is the body of a definition.
BodiesPlaced ==
    /\ \A name \in DOMAIN subs : Sited(subs[name]) /\ Node(subs[name]).kind = "sub"
    /\ \A name \in DOMAIN funcs : Sited(funcs[name]) /\ Node(funcs[name]).kind = "function"

\* From a place to another there is no loop of a kind and no definition.
Around(kind, from, at) ==
    /\ IsStrictPrefix(from, at)
    /\ \A n \in Len(from) + 1..Len(at) - 1 :
          Node(SubSeq(at, 1, n)).kind \notin {kind, "sub", "function"}

Controls(kind) == IF kind = "for" THEN ForControl ELSE WhileControl
Loop(r) == IsSignal(r, ForControl \cup WhileControl)

\* A signal about a loop is given to what runs lines, and comes from within them,
\* past no loop of its kind.
SignalsInside ==
    \A kind \in {"for", "while"} :
        Running /\ IsSignal(back, Controls(kind)) =>
            /\ Top.doing = "body"
            /\ Node(Top.at).kind \notin Calling => back.at \in Seq(Int) /\ Around(kind, Top.at, back.at)

LexInv == Rooted /\ Chained /\ BodiesPlaced /\ SignalsInside

----------------------------------------------------------------------------
(* Places.                                                                 *)

\* What the grammar gives of a node that is being evaluated.
LEMMA Grammar ==
    ASSUME Rooted, Running
    PROVE  /\ Sited(<<>>) /\ Node(<<>>) = source.program
           /\ \A p : Sited(p) =>
                 /\ p \in Seq(Int)
                 /\ Node(p).exprs \in Seq(Range(Node(p).exprs))
                 /\ Node(p).kind \in Bodied => Node(p).lines \in Seq(Range(Node(p).lines))
                 /\ Node(p).kind = "while" => Len(Node(p).exprs) = 1
                 /\ Node(p).kind = "program" <=> p = <<>>
                 /\ p # <<>> /\ Last(p) < 0 => Node(p).kind \notin Statements
                 /\ Node(p).kind \in Bodied =>
                       \A i \in 1..Len(Node(p).lines) : Sited(Append(p, i))
                 /\ \A i \in 1..Len(Node(p).exprs) : Sited(Append(p, -i))
<1>1. Grammatical(source.program, ast)
  BY GrammarAssumption DEF Rooted
<1>2. Sited(<<>>) /\ Node(<<>>) = source.program
  BY <1>1 DEF Grammatical, Sited, Node
<1>3. ASSUME NEW p, Sited(p)
      PROVE  /\ p \in Seq(Int)
             /\ Node(p).exprs \in Seq(Range(Node(p).exprs))
             /\ Node(p).kind \in Bodied => Node(p).lines \in Seq(Range(Node(p).lines))
             /\ Node(p).kind = "while" => Len(Node(p).exprs) = 1
             /\ Node(p).kind = "program" <=> p = <<>>
             /\ p # <<>> /\ Last(p) < 0 => Node(p).kind \notin Statements
             /\ \A q \in Parts(Node(p), p) : Sited(q)
  BY <1>1, <1>3 DEF Grammatical, Sited, Node
<1>4. ASSUME NEW p, Sited(p), Node(p).kind \in Bodied, NEW i \in 1..Len(Node(p).lines)
      PROVE  Sited(Append(p, i))
  <2>1. i \in DOMAIN Node(p).lines
    BY <1>3, <1>4
  <2>2. Append(p, i) \in Parts(Node(p), p)
    BY <1>4, <2>1 DEF Parts
  <2> QED BY <1>3, <1>4, <2>2
<1>5. ASSUME NEW p, Sited(p), NEW i \in 1..Len(Node(p).exprs)
      PROVE  Sited(Append(p, -i))
  <2>1. i \in DOMAIN Node(p).exprs
    BY <1>3, <1>5
  <2>2. Append(p, -i) \in Parts(Node(p), p)
    BY <2>1 DEF Parts
  <2> QED BY <1>3, <1>5, <2>2
<1> QED BY <1>2, <1>3, <1>4, <1>5

\* One step further down.
LEMMA OneDeeper ==
    ASSUME NEW p \in Seq(Int), NEW i \in Int
    PROVE  LET q == Append(p, i)
           IN  q \in Seq(Int) /\ q # <<>> /\ Front(q) = p /\ Last(q) = i
<1> DEFINE q == Append(p, i)
<1>1. /\ Len(p) \in Nat /\ q \in Seq(Int) /\ Len(q) = Len(p) + 1 /\ q[Len(p) + 1] = i
      /\ \A j \in 1..Len(p) : q[j] = p[j]
  OBVIOUS
<1> HIDE DEF q
<1>2. q # <<>> /\ Last(q) = i
  BY <1>1 DEF Last
<1>3. Front(q) \in Seq(Int) /\ Len(Front(q)) = Len(p) /\ \A j \in 1..Len(p) : Front(q)[j] = p[j]
  <2>1. IsSeq(q)
    BY <1>1, ASeqIs
  <2>2. Len(Front(q)) = Len(q) - 1 /\ \A j \in 1..(Len(q) - 1) : Front(q)[j] = q[j]
    BY <1>2, <2>1, Popped
  <2>3. Front(q) \in Seq(Int)
    BY <1>1, <1>2 DEF Front
  <2> QED BY <1>1, <2>2, <2>3
<1>4. Front(q) = p
  BY <1>3
<1> QED BY <1>1, <1>2, <1>4 DEF q

LEMMA OneHigher ==
    ASSUME NEW q \in Seq(Int), q # <<>>
    PROVE  /\ Len(q) \in Nat \ {0} /\ Front(q) \in Seq(Int) /\ Len(Front(q)) = Len(q) - 1
           /\ \A i \in 1..(Len(q) - 1) : Front(q)[i] = q[i]
<1>1. IsSeq(q)
  BY ASeqIs
<1>2. Len(q) \in Nat \ {0}
  OBVIOUS
<1>3. Front(q) \in Seq(Int)
  BY <1>2 DEF Front
<1> QED BY <1>1, <1>2, <1>3, Popped

\* A place is around what is one step further down.
LEMMA AroundPart ==
    ASSUME NEW kind, NEW at \in Seq(Int), at # <<>>
    PROVE  Around(kind, Front(at), at)
<1> DEFINE from == Front(at)
<1>1. /\ Len(at) \in Nat \ {0} /\ from \in Seq(Int) /\ Len(from) = Len(at) - 1
      /\ \A i \in 1..(Len(at) - 1) : from[i] = at[i]
  BY OneHigher
<1> HIDE DEF from
<1>2. IsStrictPrefix(from, at)
  <2>1. from # at /\ Len(from) <= Len(at)
    BY <1>1
  <2>2. SubSeq(from, 1, Len(from)) = SubSeq(at, 1, Len(from))
    BY <1>1
  <2> QED BY <2>1, <2>2 DEF IsStrictPrefix, IsPrefix
<1>3. Len(from) + 1..Len(at) - 1 = {}
  BY <1>1
<1>4. Around(kind, from, at)
  BY <1>2, <1>3 DEF Around
<1> QED BY <1>4 DEF from

\* And what it is a part of is around what it is around itself.
LEMMA AroundMore ==
    ASSUME NEW kind, NEW p \in Seq(Int), p # <<>>, NEW at \in Seq(Int), Around(kind, p, at),
           Node(p).kind \notin {kind, "sub", "function"}
    PROVE  Around(kind, Front(p), at)
<1> DEFINE from == Front(p)
<1>1. /\ Len(p) \in Nat \ {0} /\ from \in Seq(Int) /\ Len(from) = Len(p) - 1
      /\ \A i \in 1..(Len(p) - 1) : from[i] = p[i]
  BY OneHigher
<1> HIDE DEF from
<1>2. Len(p) <= Len(at) /\ Len(at) \in Nat /\ SubSeq(at, 1, Len(p)) = p
  <2>1. Len(p) <= Len(at) /\ SubSeq(at, 1, Len(p)) = SubSeq(p, 1, Len(p))
    BY DEF Around, IsStrictPrefix, IsPrefix
  <2>2. SubSeq(p, 1, Len(p)) = p
    OBVIOUS
  <2> QED BY <2>1, <2>2
<1>3. \A i \in 1..Len(p) : at[i] = p[i]
  <2>1. ASSUME NEW i \in 1..Len(p)
        PROVE  at[i] = p[i]
    <3>1. SubSeq(at, 1, Len(p))[i] = at[i]
      BY <1>2
    <3> QED BY <1>2, <3>1
  <2> QED BY <2>1
<1>4. IsStrictPrefix(from, at)
  <2>1. Len(from) <= Len(at) /\ from # at
    BY <1>1, <1>2
  <2>2. SubSeq(from, 1, Len(from)) = SubSeq(at, 1, Len(from))
    BY <1>1, <1>2, <1>3
  <2> QED BY <2>1, <2>2 DEF IsStrictPrefix, IsPrefix
<1>5. ASSUME NEW n \in Len(from) + 1..Len(at) - 1
      PROVE  Node(SubSeq(at, 1, n)).kind \notin {kind, "sub", "function"}
  <2>1. n = Len(p) \/ n \in Len(p) + 1..Len(at) - 1
    BY <1>1, <1>2
  <2>2. CASE n = Len(p)
    BY <1>2, <2>2
  <2>3. CASE n \in Len(p) + 1..Len(at) - 1
    BY <2>3 DEF Around
  <2> QED BY <2>1, <2>2, <2>3
<1>6. Around(kind, from, at)
  BY <1>4, <1>5 DEF Around
<1> QED BY <1>6 DEF from

----------------------------------------------------------------------------
(* Calling, going on and returning, along the chain.                       *)

\* The tree does not change.
LEMMA SameTree ==
    ASSUME UNCHANGED <<source, ast>>
    PROVE  /\ \A p : Sited(p)' <=> Sited(p)
           /\ \A t : Placed(t)' <=> Placed(t)
BY SameNodes DEF Sited, Placed

LEMMA ChainGoesOn ==
    ASSUME Held, Rooted, Chained, Running, UNCHANGED <<source, ast>>,
           NEW t, Placed(t), t.at = Top.at, stack' = ReplaceTop(t)
    PROVE  Rooted' /\ Chained'
<1>n. PICK n \in Nat : n = Len(stack)
  BY Marked
<1>1. n \in 1..n /\ Top = stack[n]
  BY <1>n, Marked DEF Running
<1>2. /\ Len(stack') = n /\ stack'[n] = t
      /\ \A i \in 1..(n - 1) : stack'[i] = stack[i]
  <2>1. IsSeq(stack) /\ stack # <<>>
    BY DEF Held, Running
  <2>2. stack' = Append(Front(stack), t)
    BY DEF ReplaceTop
  <2> QED BY <1>n, <2>1, <2>2, LastReplaced
<1>3. \A i \in 1..n : i = n \/ i \in 1..(n - 1)
  BY <1>1
<1>4. \A i \in 1..n : Placed(stack'[i])
  BY <1>n, <1>2, <1>3 DEF Chained
<1>5. \A i \in 1..(n - 1) : Called(stack'[i], stack'[i + 1].at)
  <2>1. \A i \in 1..(n - 1) : Called(stack[i], stack[i + 1].at)
    BY <1>n DEF Chained
  <2>2. \A i \in 1..(n - 1) : stack'[i + 1].at = stack[i + 1].at
    <3>1. \A i \in 1..(n - 1) : i + 1 = n \/ i + 1 \in 1..(n - 1)
      OBVIOUS
    <3> QED BY <1>1, <1>2, <3>1
  <2> QED BY <1>2, <2>1, <2>2
<1>6. Chained'
  <2>1. \A i \in 1..n : Placed(stack[i])'
    <3>1. \A i \in 1..n : \A u : u = stack'[i] => Placed(u)'
      BY <1>4, SameTree
    <3> QED BY <3>1 DEF Placed
  <2>2. \A i \in 1..(n - 1) : Called(stack[i], stack[i + 1].at)'
    BY <1>5 DEF Called
  <2> QED BY <1>2, <2>1, <2>2 DEF Chained
<1>7. Rooted'
  BY DEF Rooted, Running
<1> QED BY <1>6, <1>7

LEMMA ChainEnters ==
    ASSUME Held, Rooted, Chained, Running, UNCHANGED <<source, ast>>,
           NEW t, Placed(t), t.at = Top.at, NEW place, Sited(place), Called(t, place),
           Enter(t, place)
    PROVE  Rooted' /\ Chained'
<1>n. PICK n \in Nat : n = Len(stack)
  BY Marked
<1>1. n \in 1..n /\ Top = stack[n]
  BY <1>n, Marked DEF Running
<1> DEFINE a == Activation(place)
           mid == ReplaceTop(t)
<1>2. /\ IsSeq(mid) /\ Len(mid) = n /\ mid[n] = t
      /\ \A i \in 1..(n - 1) : mid[i] = stack[i]
  BY <1>n, LastReplaced DEF Held, Running, ReplaceTop
<1> HIDE DEF mid
<1>3. a.at = place /\ Placed(a)
  <2>1. <<>> \in Seq({})
    OBVIOUS
  <2>2. IsSeq(<<>>)
    BY <2>1, ASeqIs
  <2> QED BY <2>2 DEF Activation, Placed
<1> HIDE DEF a
<1>4. /\ Len(stack') = n + 1 /\ stack'[n + 1] = a
      /\ \A i \in 1..n : stack'[i] = mid[i]
  <2>1. stack' = Append(mid, a)
    BY DEF Enter, mid, a
  <2> QED BY <1>2, <2>1, Pushed
<1>5. stack'[n] = t /\ \A i \in 1..(n - 1) : stack'[i] = stack[i]
  BY <1>1, <1>2, <1>4
<1>6. \A i \in 1..(n + 1) : Placed(stack'[i])
  <2>1. \A i \in 1..(n + 1) : i = n + 1 \/ i = n \/ i \in 1..(n - 1)
    OBVIOUS
  <2>2. \A i \in 1..(n - 1) : Placed(stack[i])
    BY <1>n DEF Chained
  <2> QED BY <1>3, <1>4, <1>5, <2>1, <2>2
<1>7. \A i \in 1..n : Called(stack'[i], stack'[i + 1].at)
  <2>1. \A i \in 1..(n - 1) : Called(stack[i], stack[i + 1].at)
    BY <1>n DEF Chained
  <2>2. \A i \in 1..(n - 1) : stack'[i + 1].at = stack[i + 1].at
    <3>1. \A i \in 1..(n - 1) : i + 1 = n \/ i + 1 \in 1..(n - 1)
      OBVIOUS
    <3> QED BY <1>1, <1>5, <3>1
  <2>3. \A i \in 1..(n - 1) : Called(stack'[i], stack'[i + 1].at)
    BY <1>5, <2>1, <2>2
  <2>4. Called(stack'[n], stack'[n + 1].at)
    BY <1>3, <1>4, <1>5
  <2>5. \A i \in 1..n : i = n \/ i \in 1..(n - 1)
    OBVIOUS
  <2> QED BY <2>3, <2>4, <2>5
<1>8. Chained'
  <2>1. \A i \in 1..(n + 1) : Placed(stack[i])'
    <3>1. \A i \in 1..(n + 1) : \A u : u = stack'[i] => Placed(u)'
      BY <1>6, SameTree
    <3> QED BY <3>1 DEF Placed
  <2>2. \A i \in 1..n : Called(stack[i], stack[i + 1].at)'
    BY <1>7 DEF Called
  <2> QED BY <1>4, <2>1, <2>2 DEF Chained
<1>9. Rooted'
  BY DEF Rooted, Running
<1> QED BY <1>8, <1>9

LEMMA ChainLeaves ==
    ASSUME Held, Rooted, Chained, Running, UNCHANGED <<source, ast>>, NEW r, Leave(r)
    PROVE  Rooted' /\ Chained'
<1>n. PICK n \in Nat : n = Len(stack)
  BY Marked
<1>1. n \in 1..n
  BY <1>n, Marked DEF Running
<1>2. Len(stack') = n - 1 /\ \A i \in 1..(n - 1) : stack'[i] = stack[i]
  <2>1. stack' = Front(stack)
    BY DEF Leave
  <2> QED BY <1>n, <2>1, Popped DEF Held, Running
<1>3. \A i \in 1..(n - 1) : Placed(stack'[i])
  BY <1>n, <1>2 DEF Chained
<1>4. \A i \in 1..(n - 2) : Called(stack'[i], stack'[i + 1].at)
  <2>1. \A i \in 1..(n - 1) : Called(stack[i], stack[i + 1].at)
    BY <1>n DEF Chained
  <2>2. \A i \in 1..(n - 2) : i \in 1..(n - 1) /\ i + 1 \in 1..(n - 1)
    OBVIOUS
  <2> QED BY <1>2, <2>1, <2>2
<1>5. Chained'
  <2>1. \A i \in 1..(n - 1) : Placed(stack[i])'
    <3>1. \A i \in 1..(n - 1) : \A u : u = stack'[i] => Placed(u)'
      BY <1>3, SameTree
    <3> QED BY <3>1 DEF Placed
  <2>2. \A i \in 1..(n - 2) : Called(stack[i], stack[i + 1].at)'
    BY <1>4 DEF Called
  <2>3. Len(stack') - 1 = n - 2
    BY <1>2
  <2> QED BY <1>2, <2>1, <2>2, <2>3 DEF Chained
<1>6. Rooted'
  BY DEF Rooted, Running
<1> QED BY <1>5, <1>6

\* Where an error or a signal is raised is the place of the node that raises it.
LEMMA HereIsTop ==
    ASSUME Held, Running, HasSpan(Node(Top.at))
    PROVE  Here = Top.at
<1>n. PICK n \in Nat : n = Len(stack)
  BY Marked
<1>1. n \in 1..n /\ DOMAIN stack = 1..n /\ Top = stack[n] /\ Spanned \in SUBSET (1..n)
  BY <1>n, Marked DEF Running
<1>2. n \in Spanned
  BY <1>1 DEF Spanned
<1>3. Rank(Spanned, n) = Cardinality(Spanned)
  <2>1. \A j \in 1..n : j <= n
    OBVIOUS
  <2>2. {j \in Spanned : j <= n} = Spanned
    BY <1>1, <2>1
  <2> QED BY <2>2 DEF Rank
<1>4. spans[Len(spans)] = stack[n].at
  BY <1>2, <1>3 DEF Held, SpansMatch
<1> QED BY <1>1, <1>4 DEF Here, Last

----------------------------------------------------------------------------
(* The steps along the chain.                                              *)

LEMMA NoLoop ==
    /\ ~Loop(NoResult)
    /\ \A v : ~Loop(Ok(v))
    /\ \A at : ~Loop(Error(at))
    /\ \A at : ~Loop(Signal("RETURN", at)) /\ ~Loop(Signal("goto", at))
    /\ \A r : ~Failed(r) => ~Loop(r)
BY DEF Loop, IsSignal, NoResult, Ok, Error, Signal, Failed, ForControl, WhileControl

LEMMA NothingSignalled ==
    ASSUME ~Loop(back')
    PROVE  SignalsInside'
<1>1. \A kind \in {"for", "while"} : ~IsSignal(back', Controls(kind))
  BY DEF Loop, IsSignal, Controls
<1>2. \A kind \in {"for", "while"} : ~IsSignal(back, Controls(kind))'
  BY <1>1 DEF IsSignal, Controls
<1> QED BY <1>2 DEF SignalsInside

\* What the top of the stack is.
LEMMA TopPlaced ==
    ASSUME Held, Chained, Running
    PROVE  Placed(Top)
BY Marked DEF Chained, Running

\* The definitions are as they were.
LEMMA SameBodies ==
    ASSUME BodiesPlaced, UNCHANGED <<source, ast, subs, funcs>>
    PROVE  BodiesPlaced'
<1>1. (\A p : Sited(p)' <=> Sited(p)) /\ \A p : Node(p)' = Node(p)
  BY SameTree, SameNodes
<1> QED BY <1>1 DEF BodiesPlaced, Sited, Node

\* A step that has nothing to do with loops: it returns, goes on or calls.
LEMMA PlainStep ==
    ASSUME IInv, LexInv, Running, UNCHANGED <<source, ast, subs, funcs>>, ~Loop(back'),
           \/ \E r : Leave(r)
           \/ \E t : Placed(t) /\ t.at = Top.at /\ stack' = ReplaceTop(t)
           \/ \E t, place : /\ Placed(t) /\ t.at = Top.at
                            /\ Sited(place) /\ Called(t, place) /\ Enter(t, place)
    PROVE  LexInv'
<1>1. Rooted' /\ Chained'
  <2>1. CASE \E r : Leave(r)
    BY <2>1, ChainLeaves DEF IInv, LexInv
  <2>2. CASE \E t : Placed(t) /\ t.at = Top.at /\ stack' = ReplaceTop(t)
    <3>1. PICK t : Placed(t) /\ t.at = Top.at /\ stack' = ReplaceTop(t)
      BY <2>2
    <3> QED BY <3>1, ChainGoesOn DEF IInv, LexInv
  <2>3. CASE \E t, place : /\ Placed(t) /\ t.at = Top.at
                           /\ Sited(place) /\ Called(t, place) /\ Enter(t, place)
    <3>1. PICK t, place : /\ Placed(t) /\ t.at = Top.at
                          /\ Sited(place) /\ Called(t, place) /\ Enter(t, place)
      BY <2>3
    <3> QED BY <3>1, ChainEnters DEF IInv, LexInv
  <2> QED BY <2>1, <2>2, <2>3
<1> QED BY <1>1, NothingSignalled, SameBodies DEF LexInv

\* What an activation becomes, as far as places go.
LEMMA ChangedPlaced ==
    ASSUME NEW t, IsActivation(t), Placed(t)
    PROVE  /\ \A x : LET u == [t EXCEPT !.vals = Append(@, x)]
                     IN  Placed(u) /\ u.at = t.at
           /\ \A n \in Nat : LET u == [t EXCEPT !.line = n]
                             IN  Placed(u) /\ u.at = t.at /\ u.doing = t.doing /\ u.body = t.body
           /\ LET u == [t EXCEPT !.doing = "test"]
              IN  Placed(u) /\ u.at = t.at /\ u.doing = "test"
           /\ \A x : LET u == [t EXCEPT !.doing = "pass", !.count = x]
                     IN  Placed(u) /\ u.at = t.at
<1>1. ASSUME NEW x
      PROVE  LET u == [t EXCEPT !.vals = Append(@, x)]
             IN  Placed(u) /\ u.at = t.at
  <2>1. PICK vals : vals = Append(t.vals, x)
    OBVIOUS
  <2>2. IsSeq(vals)
    BY <2>1, Pushed DEF Placed
  <2>3. PICK u : u = [t EXCEPT !.vals = vals]
    OBVIOUS
  <2>4. u.vals = vals /\ u.at = t.at /\ u.body = t.body /\ u.doing = t.doing /\ u.line = t.line
    BY <2>3 DEF IsActivation, Fields
  <2>5. Placed(u)
    BY <2>2, <2>4 DEF Placed
  <2>6. u = [t EXCEPT !.vals = Append(@, x)]
    BY <2>1, <2>3
  <2> QED BY <2>4, <2>5, <2>6
<1>2. ASSUME NEW n \in Nat
      PROVE  LET u == [t EXCEPT !.line = n]
             IN  Placed(u) /\ u.at = t.at /\ u.doing = t.doing /\ u.body = t.body
  BY DEF IsActivation, Fields, Placed
<1>3. LET u == [t EXCEPT !.doing = "test"]
      IN  Placed(u) /\ u.at = t.at /\ u.doing = "test"
  BY DEF IsActivation, Fields, Placed
<1>4. ASSUME NEW x
      PROVE  LET u == [t EXCEPT !.doing = "pass", !.count = x]
             IN  Placed(u) /\ u.at = t.at
  BY DEF IsActivation, Fields, Placed
<1> QED BY <1>1, <1>2, <1>3, <1>4

LEMMA BodyPlaced ==
    ASSUME NEW t, IsActivation(t), Placed(t), NEW p, Sited(p), Node(p).kind \in Bodied,
           Node(t.at).kind \in {"program", "if", "for", "while"} \cup Calling,
           Node(t.at).kind \notin Calling => p = t.at
    PROVE  LET u == [t EXCEPT !.doing = "body", !.body = p, !.line = 0]
           IN  Placed(u) /\ u.at = t.at
BY DEF IsActivation, Fields, Placed

LEMMA OperatedQuietly ==
    ASSUME NEW node, node.kind \in {"infix", "prefix", "postfix"}, NEW vals
    PROVE  ~Loop(Operate(node, vals))
<1>1. \A op, a, b : ~Loop(Arithmetic(op, a, b))
  BY NoLoop, Zenon DEF Arithmetic
<1>2. \A op, l, r : ~Loop(Binary(op, l, r))
  BY <1>1, NoLoop, Zenon DEF Binary
<1>3. \A op, v : ~Loop(Unary(op, v))
  BY NoLoop, Zenon DEF Unary
<1> QED BY <1>2, <1>3, NoLoop DEF Operate

\* Expressions, and the statements that are done at once.
LEMMA LexReturn ==
    ASSUME IInv, LexInv,
           \/ Primary \/ EvalOperator \/ Let \/ PrintLine \/ Return \/ Goto
           \/ EndIf \/ ExitFor \/ ExitWhile \/ EndProgram
    PROVE  LexInv'
<1>1. Running /\ UNCHANGED <<source, ast, subs, funcs>>
  BY Guards DEF Primary, EvalOperator, Let, PrintLine, Return, Goto, EndIf, ExitFor,
                ExitWhile, EndProgram, interp
<1>2. \E r : Leave(r) /\ ~Loop(r)
  <2>1. CASE Primary
    <3>1. Node(Top.at).kind \in {"num", "str", "var"}
      BY <2>1, Guards DEF Primary
    <3>2. \/ \E v : Leave(Ok(v))
          \/ \E at : Leave(Error(at))
      <4>1. CASE Node(Top.at).kind = "num"
        BY <2>1, <4>1 DEF Primary
      <4>2. CASE Node(Top.at).kind = "str"
        BY <2>1, <4>2 DEF Primary
      <4>3. CASE Node(Top.at).kind = "var"
        BY <2>1, <4>3 DEF Primary
      <4> QED BY <3>1, <4>1, <4>2, <4>3
    <3> QED BY <3>2, NoLoop
  <2>2. CASE EvalOperator
    <3>1. Node(Top.at).kind \in Unlabelled
      BY <2>2, Guards DEF EvalOperator
    <3>2. CASE Node(Top.at).kind = "paren"
      <4>1. Leave(Ok(Top.vals[1]))
        BY <2>2, <3>2 DEF EvalOperator
      <4> QED BY <4>1, NoLoop
    <3>3. CASE Node(Top.at).kind # "paren"
      <4>1. PICK node : node = Node(Top.at)
        OBVIOUS
      <4>2. Leave(Operate(Node(Top.at), Top.vals))
        BY <2>2, <3>3 DEF EvalOperator
      <4>3. ~Loop(Operate(node, Top.vals))
        BY <3>1, <3>3, <4>1, OperatedQuietly DEF Unlabelled
      <4> QED BY <4>1, <4>2, <4>3
    <3> QED BY <3>2, <3>3
  <2>3. CASE Let \/ PrintLine \/ ExitFor \/ ExitWhile \/ EndProgram
    <3>1. Leave(Ok(Void))
      BY <2>3 DEF Let, PrintLine, ExitFor, ExitWhile, EndProgram
    <3> QED BY <3>1, NoLoop
  <2>4. CASE Return \/ Goto
    <3>1. \/ Leave(Signal("RETURN", Here))
          \/ Leave(Signal("goto", Here))
      BY <2>4 DEF Return, Goto
    <3> QED BY <3>1, NoLoop
  <2>5. CASE EndIf
    <3>1. Leave(back) /\ ~Failed(back)
      BY <2>5, Guards DEF EndIf
    <3> QED BY <3>1, NoLoop
  <2> QED BY <2>1, <2>2, <2>3, <2>4, <2>5
<1>3. ~Loop(back') /\ \E r : Leave(r)
  BY <1>2 DEF Leave
<1> QED BY <1>1, <1>3, PlainStep

\* A call ends here for loops (call.rs, call_fn.rs).
LEMMA LexEndCall ==
    ASSUME IInv, LexInv, EndCall \/ EndCallFn
    PROVE  LexInv'
<1>1. Running /\ UNCHANGED <<source, ast, subs, funcs>>
  BY Guards DEF EndCall, EndCallFn
<1>2. \E r : Leave(r) /\ ~Loop(r)
  <2>1. CASE EndCall
    <3>1. Leave(CallResult(back))
      BY <2>1 DEF EndCall
    <3>2. ~Loop(CallResult(back))
      <4>1. CASE ~Failed(back) \/ IsSignal(back, {"EXIT SUB"})
        BY <4>1, NoLoop DEF CallResult
      <4>2. CASE ~(~Failed(back) \/ IsSignal(back, {"EXIT SUB"}))
        BY <4>2, NoLoop DEF CallResult, Loop
      <4> QED BY <4>1, <4>2
    <3> QED BY <3>1, <3>2
  <2>2. CASE EndCallFn
    <3>1. \/ \E v : Leave(Ok(v))
          \/ Leave(Error(Here))
          \/ Leave(back) /\ ~Loop(back)
      <4>1. CASE IsSignal(back, {"RETURN"}) /\ ret # None
        BY <2>2, <4>1 DEF EndCallFn
      <4>2. CASE ~(IsSignal(back, {"RETURN"}) /\ ret # None)
        BY <2>2, <4>2 DEF EndCallFn, Loop
      <4> QED BY <4>1, <4>2
    <3> QED BY <3>1, NoLoop
  <2> QED BY <2>1, <2>2
<1>3. ~Loop(back') /\ \E r : Leave(r)
  BY <1>2 DEF Leave
<1> QED BY <1>1, <1>3, PlainStep

\* The lines of a node's own, or of a definition that a call names.
LEMMA LexStartBody ==
    ASSUME IInv, LexInv, Running, UNCHANGED <<source, ast, subs, funcs>>,
           NEW p, Sited(p), Node(p).kind \in Bodied,
           Node(Top.at).kind \in {"program", "if", "for", "while"} \cup Calling,
           Node(Top.at).kind \notin Calling => p = Top.at,
           StartBody(p)
    PROVE  LexInv'
<1>1. PICK top : top = Top
  OBVIOUS
<1>2. IsActivation(top) /\ Placed(top)
  BY <1>1, TopIs, TopPlaced DEF IInv, LexInv
<1>3. PICK t : t = [top EXCEPT !.doing = "body", !.body = p, !.line = 0]
  OBVIOUS
<1>4. Placed(t) /\ t.at = top.at
  <2>1. /\ Node(top.at).kind \in {"program", "if", "for", "while"} \cup Calling
        /\ Node(top.at).kind \notin Calling => p = top.at
    BY <1>1
  <2>2. LET u == [top EXCEPT !.doing = "body", !.body = p, !.line = 0]
        IN  Placed(u) /\ u.at = top.at
    BY <1>2, <2>1, BodyPlaced
  <2> QED BY <1>3, <2>2
<1>5. stack' = ReplaceTop(t) /\ ~Loop(back')
  BY <1>1, <1>3, NoLoop DEF StartBody
<1> QED BY <1>1, <1>4, <1>5, PlainStep

LEMMA LexOwnBody ==
    ASSUME IInv, LexInv, Running, UNCHANGED <<source, ast, subs, funcs>>,
           Node(Top.at).kind \in {"program", "if", "for", "while"}, StartBody(Top.at)
    PROVE  LexInv'
<1>1. PICK p : p = Top.at
  OBVIOUS
<1>2. Sited(p)
  BY <1>1, TopPlaced DEF IInv, LexInv, Placed
<1> QED BY <1>1, <1>2, LexStartBody DEF Bodied

LEMMA LexBody ==
    ASSUME IInv, LexInv, If \/ WhilePass \/ ForPass \/ Program
    PROVE  LexInv'
<1>1. Running /\ UNCHANGED <<source, ast, subs, funcs>>
  BY Guards DEF If, WhilePass, ForPass, Program, interp
<1>2. Node(Top.at).kind \in {"program", "if", "for", "while"}
  <2>1. PICK top : top = Top
    OBVIOUS
  <2>2. IsActivation(top)
    BY <1>1, <2>1, TopIs DEF IInv
  <2>3. WhilePass \/ ForPass => Node(top.at).kind \in {"for", "while"}
    BY <2>1, <2>2, Guards DEF WhilePass, ForPass, IsActivation
  <2> QED BY <2>1, <2>3, Guards DEF If, Program
<1>3. CASE StartBody(Top.at)
  BY <1>1, <1>2, <1>3, LexOwnBody
<1>4. CASE Leave(Ok(Void)) \/ Leave(Error(Here))
  <2>1. ~Loop(back') /\ \E r : Leave(r)
    BY <1>4, NoLoop DEF Leave
  <2> QED BY <1>1, <2>1, PlainStep
<1>5. Program => StartBody(Top.at) \/ Leave(Error(Here))
  <2>1. ASSUME Program
        PROVE  Top.at = <<>>
    <3>1. Node(Top.at).kind = "program"
      BY <2>1, Guards DEF Program
    <3>2. Sited(Top.at)
      BY <1>1, TopPlaced DEF IInv, LexInv, Placed
    <3>3. PICK p : p = Top.at
      OBVIOUS
    <3> QED BY <1>1, <3>1, <3>2, <3>3, Grammar DEF LexInv
  <2> QED BY <2>1 DEF Program
<1> QED BY <1>3, <1>4, <1>5 DEF If, WhilePass, ForPass

LEMMA LexCall ==
    ASSUME IInv, LexInv, Call \/ CallFn
    PROVE  LexInv'
<1>1. Running /\ UNCHANGED <<source, ast, subs, funcs>> /\ Node(Top.at).kind \in Calling
  BY Guards DEF Call, CallFn, Calling
<1>2. CASE \E at : Leave(Error(at))
  <2>1. ~Loop(back') /\ \E r : Leave(r)
    BY <1>2, NoLoop DEF Leave
  <2> QED BY <1>1, <2>1, PlainStep
<1>3. CASE \E p : Sited(p) /\ Node(p).kind \in Bodied /\ StartBody(p)
  BY <1>1, <1>3, LexStartBody
<1>4. Call => \/ \E at : Leave(Error(at))
              \/ \E p : Sited(p) /\ Node(p).kind \in Bodied /\ StartBody(p)
  <2>1. \A name \in DOMAIN subs : Sited(subs[name]) /\ Node(subs[name]).kind \in Bodied
    BY DEF LexInv, BodiesPlaced, Bodied
  <2> QED BY <2>1 DEF Call
<1>5. CallFn => \/ \E at : Leave(Error(at))
                \/ \E p : Sited(p) /\ Node(p).kind \in Bodied /\ StartBody(p)
  <2>1. \A name \in DOMAIN funcs : Sited(funcs[name]) /\ Node(funcs[name]).kind \in Bodied
    BY DEF LexInv, BodiesPlaced, Bodied
  <2> QED BY <2>1 DEF CallFn
<1> QED BY <1>2, <1>3, <1>4, <1>5

\* An operand is evaluated, and its value taken.
LEMMA LexOperand ==
    ASSUME IInv, LexInv, EvalOperand \/ TakeOperand
    PROVE  LexInv'
<1>1. PICK top : top = Top
  OBVIOUS
<1>2. Running /\ top.doing = "operands" /\ UNCHANGED <<source, ast, subs, funcs>>
  BY <1>1, Guards DEF EvalOperand, TakeOperand, interp
<1>3. IsActivation(top) /\ Placed(top)
  BY <1>1, <1>2, TopIs, TopPlaced DEF IInv, LexInv
<1>4. CASE EvalOperand
  <2>1. PICK i \in Nat : i = Len(top.vals) + 1
    BY <1>3 DEF Placed, IsSeq
  <2>2. i \in 1..Len(Node(top.at).exprs)
    <3>1. Len(top.vals) \in Nat /\ Len(top.vals) < Strict(Node(top.at))
      BY <1>1, <1>3, <1>4 DEF EvalOperand, Placed, IsSeq
    <3>2. Len(Node(top.at).exprs) \in Nat
      <4>1. Node(top.at).exprs \in Seq(Range(Node(top.at).exprs))
        BY <1>2, <1>3, Grammar DEF LexInv, Placed
      <4> QED BY <4>1
    <3>3. Strict(Node(top.at)) \in {0, Len(Node(top.at).exprs)}
      BY DEF Strict
    <3> QED BY <2>1, <3>1, <3>2, <3>3
  <2>3. PICK place : place = Append(top.at, -i)
    OBVIOUS
  <2>4. Sited(place) /\ top.at \in Seq(Int) /\ -i \in Int /\ -i < 0
    BY <1>2, <1>3, <2>2, <2>3, Grammar DEF LexInv, Placed
  <2>5. Called(top, place)
    BY <1>2, <2>3, <2>4, OneDeeper DEF Called
  <2>6. Enter(top, place)
    BY <1>1, <1>4, <2>1, <2>3 DEF EvalOperand
  <2>7. ~Loop(back')
    BY <2>6, NoLoop DEF Enter
  <2> QED BY <1>1, <1>2, <1>3, <2>4, <2>5, <2>6, <2>7, PlainStep
<1>5. CASE TakeOperand
  <2>1. PICK x : x = back.value
    OBVIOUS
  <2>2. PICK t : t = [top EXCEPT !.vals = Append(@, x)]
    OBVIOUS
  <2>3. Placed(t) /\ t.at = top.at
    BY <1>3, <2>2, ChangedPlaced
  <2>4. stack' = ReplaceTop(t) /\ ~Loop(back')
    BY <1>1, <1>5, <2>1, <2>2, NoLoop DEF TakeOperand, Continue
  <2> QED BY <1>1, <1>2, <2>3, <2>4, PlainStep
<1> QED BY <1>4, <1>5

LEMMA LexNextLine ==
    ASSUME IInv, LexInv, NextLine
    PROVE  LexInv'
<1>1. PICK top : top = Top
  OBVIOUS
<1>2. Running /\ top.doing = "body" /\ UNCHANGED <<source, ast, subs, funcs>>
  BY <1>1, Guards DEF NextLine, interp
<1>3. IsActivation(top) /\ Placed(top)
  BY <1>1, <1>2, TopIs, TopPlaced DEF IInv, LexInv
<1>4. PICK i \in Nat : i = top.line + 1
  BY <1>3 DEF Placed
<1>5. Node(top.body).kind \in Bodied /\ i \in 1..Len(Node(top.body).lines)
  <2>1. Node(top.body).kind \in Bodied /\ top.line \in Nat
    BY <1>2, <1>3 DEF Placed
  <2>2. Len(Node(top.body).lines) \in Nat
    <3>1. Node(top.body).lines \in Seq(Range(Node(top.body).lines))
      BY <1>2, <1>3, <2>1, Grammar DEF LexInv, Placed
    <3> QED BY <3>1
  <2>3. top.line < Len(Node(top.body).lines)
    BY <1>1 DEF NextLine, Lines
  <2> QED BY <1>4, <2>1, <2>2, <2>3
<1>6. PICK place : place = Append(top.body, i)
  OBVIOUS
<1>7. Sited(place) /\ top.body \in Seq(Int)
  BY <1>2, <1>3, <1>5, <1>6, Grammar DEF LexInv, Placed
<1>8. PICK t : t = [top EXCEPT !.line = i]
  OBVIOUS
<1>9. Placed(t) /\ t.at = top.at /\ t.doing = "body" /\ t.body = top.body
  BY <1>2, <1>3, <1>8, ChangedPlaced
<1>10. Called(t, place)
  BY <1>6, <1>7, <1>9, OneDeeper DEF Called
<1>11. Enter(t, place) /\ ~Loop(back')
  <2>1. t = [Top EXCEPT !.line = @ + 1]
    BY <1>1, <1>4, <1>8
  <2>2. Enter(t, place)
    BY <1>1, <1>4, <1>6, <2>1 DEF NextLine
  <2> QED BY <2>2, NoLoop DEF Enter
<1> QED BY <1>1, <1>2, <1>7, <1>9, <1>10, <1>11, PlainStep

\* A FOR goes on to its next pass.
LEMMA LexFor ==
    ASSUME IInv, LexInv, For \/ ForNext
    PROVE  LexInv'
<1>1. PICK top : top = Top
  OBVIOUS
<1>2. Running /\ UNCHANGED <<source, ast, subs, funcs>>
  BY Guards DEF For, ForNext, interp
<1>3. IsActivation(top) /\ Placed(top)
  BY <1>1, <1>2, TopIs, TopPlaced DEF IInv, LexInv
<1>4. CASE Leave(Error(Here))
  <2>1. ~Loop(back') /\ \E r : Leave(r)
    BY <1>4, NoLoop DEF Leave
  <2> QED BY <1>2, <2>1, PlainStep
<1>5. CASE \E x : Pass(x)
  <2>1. PICK x : Pass(x)
    BY <1>5
  <2>2. PICK t : t = [top EXCEPT !.doing = "pass", !.count = x]
    OBVIOUS
  <2>3. Placed(t) /\ t.at = top.at
    BY <1>3, <2>2, ChangedPlaced
  <2>4. stack' = ReplaceTop(t) /\ ~Loop(back')
    BY <1>1, <2>1, <2>2, NoLoop DEF Pass, Continue
  <2> QED BY <1>1, <1>2, <2>3, <2>4, PlainStep
<1> QED BY <1>4, <1>5 DEF For, ForNext

\* A WHILE tests its condition.
LEMMA LexWhile ==
    ASSUME IInv, LexInv, While
    PROVE  LexInv'
<1>1. PICK top : top = Top
  OBVIOUS
<1>2. Running /\ Node(top.at).kind = "while" /\ UNCHANGED <<source, ast, subs, funcs>>
  <2>1. UNCHANGED <<source, ast, subs, funcs>>
    BY DEF While, interp
  <2>2. \/ Ready({"while"}) \/ LastLineDone("while")
        \/ Given("body") /\ Node(Top.at).kind = "while"
    BY DEF While
  <2>3. Running /\ Node(Top.at).kind = "while"
    BY <2>2, Guards
  <2> QED BY <1>1, <2>1, <2>3
<1>3. IsActivation(top) /\ Placed(top)
  BY <1>1, <1>2, TopIs, TopPlaced DEF IInv, LexInv
<1>4. PICK place : place = Append(top.at, -1)
  OBVIOUS
<1>5. Sited(place) /\ top.at \in Seq(Int)
  <2>1. Sited(top.at) /\ Len(Node(top.at).exprs) = 1 /\ top.at \in Seq(Int)
    BY <1>2, <1>3, Grammar DEF LexInv, Placed
  <2>2. 1 \in 1..Len(Node(top.at).exprs)
    BY <2>1
  <2> QED BY <1>2, <1>4, <2>1, <2>2, Grammar DEF LexInv
<1>6. PICK t : t = [top EXCEPT !.doing = "test"]
  OBVIOUS
<1>7. Placed(t) /\ t.at = top.at /\ t.doing = "test"
  BY <1>3, <1>6, ChangedPlaced
<1>8. Called(t, place)
  BY <1>4, <1>5, <1>7, OneDeeper DEF Called
<1>9. Enter(t, place)
  BY <1>1, <1>4, <1>6 DEF While
<1>10. ~Loop(back')
  BY <1>9, NoLoop DEF Enter
<1> QED BY <1>1, <1>2, <1>5, <1>7, <1>8, <1>9, <1>10, PlainStep

\* The program goes on at another of its lines.
LEMMA LexJump ==
    ASSUME IInv, LexInv, Jump
    PROVE  LexInv'
<1>1. PICK top : top = Top
  OBVIOUS
<1>2. /\ Running /\ top.doing = "body" /\ Node(top.at).kind = "program"
      /\ UNCHANGED <<source, ast, subs, funcs>>
  BY <1>1, Guards DEF Jump
<1>3. IsActivation(top) /\ Placed(top)
  BY <1>1, <1>2, TopIs, TopPlaced DEF IInv, LexInv
<1>4. CASE Leave(Error(Here))
  <2>1. ~Loop(back') /\ \E r : Leave(r)
    BY <1>4, NoLoop DEF Leave
  <2> QED BY <1>2, <2>1, PlainStep
<1>5. CASE \E i \in DOMAIN source.program.lines : Enter([Top EXCEPT !.line = i], <<i>>)
  <2>1. PICK i \in DOMAIN source.program.lines : Enter([Top EXCEPT !.line = i], <<i>>)
    BY <1>5
  <2>2. top.at = <<>> /\ top.body = <<>>
    <3>1. top.at = <<>>
      BY <1>2, <1>3, Grammar DEF LexInv, Placed
    <3>2. top.body = top.at
      BY <1>2, <1>3 DEF Placed, Calling
    <3> QED BY <3>1, <3>2
  <2>3. i \in 1..Len(Node(<<>>).lines) /\ i \in Nat /\ Node(<<>>).kind \in Bodied
    <3>1. Node(<<>>).kind \in Bodied
      BY <1>2, <2>2 DEF Bodied
    <3>2. Node(<<>>).lines \in Seq(Range(Node(<<>>).lines)) /\ Node(<<>>) = source.program
      BY <1>2, <3>1, Grammar DEF LexInv
    <3> QED BY <2>1, <3>1, <3>2
  <2>4. PICK place : place = Append(top.body, i)
    OBVIOUS
  <2>5. Sited(place) /\ top.body \in Seq(Int)
    BY <1>2, <2>2, <2>3, <2>4, Grammar DEF LexInv
  <2>6. PICK t : t = [top EXCEPT !.line = i]
    OBVIOUS
  <2>7. Placed(t) /\ t.at = top.at /\ t.doing = "body" /\ t.body = top.body
    BY <1>2, <1>3, <2>3, <2>6, ChangedPlaced
  <2>8. Called(t, place)
    BY <2>3, <2>4, <2>5, <2>7, OneDeeper DEF Called
  <2>9. Enter(t, place)
    <3>1. place = <<i>>
      BY <2>2, <2>4
    <3> QED BY <1>1, <2>1, <2>6, <3>1
  <2>10. ~Loop(back')
    BY <2>9, NoLoop DEF Enter
  <2> QED BY <1>1, <1>2, <2>5, <2>7, <2>8, <2>9, <2>10, PlainStep
<1>6. \/ Leave(Error(Here))
      \/ \E i \in DOMAIN source.program.lines : Enter([Top EXCEPT !.line = i], <<i>>)
  <2>1. CASE Labelled(jump[1]) = {}
    BY <2>1 DEF Jump
  <2>2. CASE Labelled(jump[1]) # {}
    <3>1. PICK i : i = CHOOSE j \in Labelled(jump[1]) : TRUE
      OBVIOUS
    <3>2. i \in DOMAIN source.program.lines
      BY <2>2, <3>1 DEF Labelled
    <3>3. Enter([Top EXCEPT !.line = i], <<i>>)
      BY <2>2, <3>1 DEF Jump
    <3> QED BY <3>2, <3>3
  <2> QED BY <2>1, <2>2
<1> QED BY <1>4, <1>5, <1>6

LEMMA OneMoreKept ==
    ASSUME NEW kept, NEW kind, NEW name, NEW at, Sited(at), Node(at).kind = kind,
           \A n \in DOMAIN kept : Sited(kept[n]) /\ Node(kept[n]).kind = kind
    PROVE  LET more == Inserted(kept, name, at)
           IN  \A n \in DOMAIN more : Sited(more[n]) /\ Node(more[n]).kind = kind
BY DEF Inserted

\* A definition is kept for its later calls.
LEMMA LexDefine ==
    ASSUME IInv, LexInv, DefineSub \/ DefineFunction
    PROVE  LexInv'
<1>1. /\ Running /\ UNCHANGED <<source, ast>>
      /\ Leave(Ok(Void)) \/ Leave(Error(Here))
  BY Guards DEF DefineSub, DefineFunction
<1>2. Rooted' /\ Chained'
  BY <1>1, ChainLeaves DEF IInv, LexInv
<1>3. SignalsInside'
  <2>1. ~Loop(back')
    BY <1>1, NoLoop DEF Leave
  <2> QED BY <2>1, NothingSignalled
<1>4. Sited(Top.at)
  BY <1>1, TopPlaced DEF IInv, LexInv, Placed
<1>5. PICK at : at = Top.at
  OBVIOUS
<1>6. /\ \A name \in DOMAIN subs' : Sited(subs'[name]) /\ Node(subs'[name]).kind = "sub"
      /\ \A name \in DOMAIN funcs' : Sited(funcs'[name]) /\ Node(funcs'[name]).kind = "function"
  <2>1. CASE DefineSub
    <3>1. Node(at).kind = "sub" /\ funcs' = funcs
      BY <1>5, <2>1, Guards DEF DefineSub
    <3>2. subs' = subs \/ \E name : subs' = Inserted(subs, name, at)
      BY <1>5, <2>1 DEF DefineSub
    <3>3. \A name \in DOMAIN subs' : Sited(subs'[name]) /\ Node(subs'[name]).kind = "sub"
      <4>1. PICK kept : kept = subs /\ \A n \in DOMAIN kept :
                           Sited(kept[n]) /\ Node(kept[n]).kind = "sub"
        BY DEF LexInv, BodiesPlaced
      <4>2. CASE subs' = kept
        BY <4>1, <4>2
      <4>3. CASE \E name : subs' = Inserted(kept, name, at)
        BY <1>4, <1>5, <3>1, <4>1, <4>3, OneMoreKept
      <4> QED BY <3>2, <4>1, <4>2, <4>3
    <3> QED BY <3>1, <3>3 DEF LexInv, BodiesPlaced
  <2>2. CASE DefineFunction
    <3>1. Node(at).kind = "function" /\ subs' = subs
      BY <1>5, <2>2, Guards DEF DefineFunction
    <3>2. funcs' = funcs \/ \E name : funcs' = Inserted(funcs, name, at)
      BY <1>5, <2>2 DEF DefineFunction
    <3>3. \A name \in DOMAIN funcs' : Sited(funcs'[name]) /\ Node(funcs'[name]).kind = "function"
      <4>1. PICK kept : kept = funcs /\ \A n \in DOMAIN kept :
                           Sited(kept[n]) /\ Node(kept[n]).kind = "function"
        BY DEF LexInv, BodiesPlaced
      <4>2. CASE funcs' = kept
        BY <4>1, <4>2
      <4>3. CASE \E name : funcs' = Inserted(kept, name, at)
        BY <1>4, <1>5, <3>1, <4>1, <4>3, OneMoreKept
      <4> QED BY <3>2, <4>1, <4>2, <4>3
    <3> QED BY <3>1, <3>3 DEF LexInv, BodiesPlaced
  <2> QED BY <2>1, <2>2
<1>7. BodiesPlaced'
  BY <1>1, <1>6 DEF BodiesPlaced, Sited, Node
<1> QED BY <1>2, <1>3, <1>7 DEF LexInv

\* What a statement returns to runs the lines it is one of.
LEMMA Returned ==
    ASSUME IInv, LexInv, Running, UNCHANGED <<source, ast>>, NEW r, Leave(r),
           Running'
    PROVE  LET over == Top'
           IN  /\ Top.at \in Seq(Int) /\ Top.at # <<>>
               /\ Node(Top.at).kind \in Statements =>
                     /\ over.doing = "body"
                     /\ Node(over.at).kind \notin Calling => over.at = Front(Top.at)
<1>n. PICK n \in Nat : n = Len(stack)
  BY Marked DEF IInv
<1>1. n \in 1..n /\ Top = stack[n]
  BY <1>n, Marked DEF IInv, Running
<1>2. /\ IsSeq(stack') /\ Len(stack') = n - 1
      /\ \A i \in 1..(n - 1) : stack'[i] = stack[i]
  <2>1. stack' = Front(stack)
    BY DEF Leave
  <2> QED BY <1>n, <2>1, Popped DEF IInv, Held, Running
<1>3. n - 1 \in 1..(n - 1)
  <2>1. Len(stack') # 0
    BY <1>2, SeqOfElements DEF Running
  <2> QED BY <1>1, <1>2, <2>1
<1>4. PICK over : over = stack[n - 1]
  OBVIOUS
<1>5. Top' = over
  BY <1>2, <1>3, <1>4 DEF Top, Last
<1>6. PICK at : at = Top.at
  OBVIOUS
<1>7. Placed(over) /\ Called(over, at)
  <2>1. n - 1 \in 1..n /\ (n - 1) + 1 = n
    BY <1>1, <1>3
  <2> QED BY <1>n, <1>1, <1>3, <1>4, <1>6, <2>1 DEF LexInv, Chained
<1>8. Sited(at)
  BY <1>6, TopPlaced DEF IInv, LexInv, Placed
<1>9. at \in Seq(Int) /\ at # <<>>
  BY <1>7, <1>8, Grammar DEF LexInv, Called
<1>10. ASSUME Node(at).kind \in Statements
       PROVE  /\ over.doing = "body"
              /\ Node(over.at).kind \notin Calling => over.at = Front(at)
  <2>1. ~(Last(at) < 0)
    BY <1>8, <1>9, <1>10, Grammar DEF LexInv
  <2>2. over.doing = "body" /\ Front(at) = over.body
    BY <1>7, <2>1 DEF Called
  <2> QED BY <1>7, <2>2 DEF Placed
<1> QED BY <1>5, <1>6, <1>9, <1>10

\* A signal is raised in a line of the body it is given to.
LEMMA LexExit ==
    ASSUME IInv, LexInv, Exit
    PROVE  LexInv'
<1>1. Running /\ Node(Top.at).kind = "exit" /\ UNCHANGED <<source, ast, subs, funcs>>
  <2>1. Running /\ Node(Top.at).kind = "exit"
    <3>1. Ready({"exit"})
      BY DEF Exit
    <3> QED BY <3>1, Guards
  <2>2. UNCHANGED <<source, ast, subs, funcs>>
    BY DEF Exit, interp
  <2> QED BY <2>1, <2>2
<1>2. PICK at : at = Top.at
  OBVIOUS
<1>3. PICK r : Leave(r) /\ \E label : r = Signal(label, at)
  <2>1. HasSpan(Node(Top.at))
    BY <1>1 DEF HasSpan, Unlabelled
  <2>2. Here = Top.at
    BY <1>1, <2>1, HereIsTop DEF IInv
  <2> QED BY <1>2, <2>2 DEF Exit
<1>4. Rooted' /\ Chained' /\ BodiesPlaced'
  BY <1>1, <1>3, ChainLeaves, SameBodies DEF IInv, LexInv
<1>5. SignalsInside'
  <2>1. CASE Running'
    <3>1. PICK over : over = Top'
      OBVIOUS
    <3>2. /\ at \in Seq(Int) /\ at # <<>> /\ over.doing = "body"
          /\ Node(over.at).kind \notin Calling => over.at = Front(at)
      BY <1>1, <1>2, <1>3, <2>1, <3>1, Returned DEF Statements
    <3>3. \A kind : Around(kind, Front(at), at)
      BY <3>2, AroundPart
    <3>4. back'.at = at
      BY <1>3 DEF Leave, Signal
    <3>5. \A p, q, kind : Around(kind, p, q)' <=> Around(kind, p, q)
      BY <1>1, SameNodes DEF Around
    <3>6. \A p : Node(p)' = Node(p)
      BY <1>1, SameNodes
    <3> QED BY <3>1, <3>2, <3>3, <3>4, <3>5, <3>6 DEF SignalsInside
  <2>2. CASE ~Running'
    BY <2>2 DEF SignalsInside
  <2> QED BY <2>1, <2>2
<1> QED BY <1>4, <1>5 DEF LexInv

\* A signal that an IF or a loop of another kind lets through.
LEMMA LexPropagate ==
    ASSUME IInv, LexInv, Propagate
    PROVE  LexInv'
<1>1. Running /\ UNCHANGED <<source, ast, subs, funcs>>
  <2>1. UNCHANGED <<source, ast, subs, funcs>>
    BY DEF Propagate, interp
  <2> QED BY <2>1 DEF Propagate
<1>2. PICK r : r = back /\ Leave(r)
  BY DEF Propagate
<1>3. back' = back
  BY <1>2 DEF Leave
<1>4. Rooted' /\ Chained' /\ BodiesPlaced'
  BY <1>1, <1>2, ChainLeaves, SameBodies DEF IInv, LexInv
<1>5. ASSUME NEW kind \in {"for", "while"}, Running', IsSignal(r, Controls(kind)),
             NEW over, over = Top'
      PROVE  /\ over.doing = "body"
             /\ Node(over.at).kind \notin Calling =>
                   r.at \in Seq(Int) /\ Around(kind, over.at, r.at)
  <2>1. PICK top : top = Top
    OBVIOUS
  <2>2. top.doing = "body" /\ Placed(top)
    BY <1>1, <1>2, <1>5, <2>1, TopPlaced DEF IInv, LexInv, SignalsInside
  <2>3. ~Catches(Node(top.at).kind, r)
    BY <1>2, <2>1, <2>2 DEF Propagate
  <2>4. Node(top.at).kind \notin Calling /\ Node(top.at).kind # kind
    BY <1>5, <2>3 DEF Catches, Calling, Controls
  <2>5. Around(kind, top.at, r.at) /\ r.at \in Seq(Int)
    BY <1>1, <1>2, <1>5, <2>1, <2>4 DEF LexInv, SignalsInside
  <2>6. Node(top.at).kind \in {"program", "if", "for", "while"}
    BY <2>2, <2>4 DEF Placed
  <2>7. CASE Node(top.at).kind = "program"
    <3>1. top.at = <<>>
      BY <1>1, <2>2, <2>7, Grammar DEF LexInv, Placed
    <3> QED BY <1>1, <1>2, <1>5, <2>1, <3>1, Returned
  <2>8. CASE Node(top.at).kind \in {"if", "for", "while"}
    <3>1. /\ top.at \in Seq(Int) /\ top.at # <<>> /\ over.doing = "body"
          /\ Node(over.at).kind \notin Calling => over.at = Front(top.at)
      BY <1>1, <1>2, <1>5, <2>1, <2>8, Returned DEF Statements
    <3>2. Around(kind, Front(top.at), r.at)
      BY <2>4, <2>5, <2>8, <3>1, AroundMore
    <3> QED BY <2>5, <3>1, <3>2
  <2> QED BY <2>6, <2>7, <2>8
<1>6. SignalsInside'
  <2>1. CASE Running'
    <3>1. PICK over : over = Top'
      OBVIOUS
    <3>2. \A p, q, kind : Around(kind, p, q)' <=> Around(kind, p, q)
      BY <1>1, SameNodes DEF Around
    <3>3. \A p : Node(p)' = Node(p)
      BY <1>1, SameNodes
    <3>4. \A kind : IsSignal(back, Controls(kind))' <=> IsSignal(r, Controls(kind))
      BY <1>2, <1>3 DEF IsSignal, Controls
    <3> QED BY <1>2, <1>3, <1>5, <2>1, <3>1, <3>2, <3>3, <3>4 DEF SignalsInside
  <2>2. CASE ~Running'
    BY <2>2 DEF SignalsInside
  <2> QED BY <2>1, <2>2
<1> QED BY <1>4, <1>6 DEF LexInv

----------------------------------------------------------------------------
(* Loop control.                                                           *)

LEMMA LexInit ==
    ASSUME Init
    PROVE  LexInv
<1>1. Rooted
  BY DEF Init, Rooted, Running
<1>2. BodiesPlaced /\ SignalsInside
  <2>1. DOMAIN <<>> = {}
    OBVIOUS
  <2>2. subs = <<>> /\ funcs = <<>> /\ back = NoResult
    BY DEF Init
  <2> QED BY <2>1, <2>2 DEF BodiesPlaced, SignalsInside, IsSignal, NoResult
<1>3. CASE stack = <<>>
  <2>1. Len(<<>>) = 0
    OBVIOUS
  <2>2. Chained
    BY <1>3, <2>1 DEF Chained
  <2> QED BY <1>1, <1>2, <2>2 DEF LexInv
<1>4. CASE stack = <<Activation(<<>>)>>
  <2> DEFINE a == Activation(<<>>)
  <2>1. Sited(<<>>)
    BY <1>1, <1>4, Grammar DEF Running
  <2>2. Placed(a)
    <3>1. <<>> \in Seq({})
      OBVIOUS
    <3>2. IsSeq(<<>>)
      BY <3>1, ASeqIs
    <3> QED BY <2>1, <3>2 DEF Placed, Activation
  <2> HIDE DEF a
  <2>3. Len(stack) = 1 /\ stack[1] = a
    BY <1>4 DEF a
  <2>4. Chained
    BY <2>2, <2>3 DEF Chained
  <2> QED BY <1>1, <1>2, <2>4 DEF LexInv
<1> QED BY <1>3, <1>4 DEF Init

LEMMA LexStep ==
    ASSUME IInv, LexInv, [Next]_allvars
    PROVE  LexInv'
<1>1. CASE Next
  BY <1>1, LexReturn, LexEndCall, LexBody, LexCall, LexOperand, LexNextLine, LexFor, LexWhile,
     LexJump, LexDefine, LexExit, LexPropagate DEF Next
<1>2. CASE UNCHANGED allvars
  <2>1. UNCHANGED <<stack, back, source, ast, subs, funcs>>
    BY <1>2 DEF allvars, interp
  <2>2. (\A p : Node(p)' = Node(p)) /\ (\A p : Sited(p)' <=> Sited(p))
    BY <2>1, SameNodes, SameTree
  <2>3. Rooted' /\ BodiesPlaced'
    BY <2>1, SameBodies DEF LexInv, Rooted, Running
  <2>4. Chained'
    BY <2>1, <2>2 DEF LexInv, Chained, Placed, Called
  <2>5. SignalsInside'
    <3>1. Top' = Top /\ Running' = Running
      BY <2>1 DEF Top, Running
    <3>2. \A kind : IsSignal(back, Controls(kind))' <=> IsSignal(back, Controls(kind))
      BY <2>1 DEF IsSignal, Controls
    <3>3. \A p, q, kind : Around(kind, p, q)' <=> Around(kind, p, q)
      BY <2>2 DEF Around
    <3> QED BY <2>1, <2>2, <3>1, <3>2, <3>3 DEF LexInv, SignalsInside
  <2> QED BY <2>3, <2>4, <2>5 DEF LexInv
<1> QED BY <1>1, <1>2

\* EXIT and CONTINUE reach the innermost loop of their kind around them in the text,
\* and no call is passed on the way (loop.rs, while.rs; call.rs and call_fn.rs are
\* the boundaries; an IF and a loop of the other kind let the signal through).
THEOREM LoopControlStaysLexical == Spec => []LoopControlIsLexical
<1>1. Init => LexInv
  BY LexInit
<1>2. IInv /\ LexInv /\ [Next]_allvars => LexInv'
  BY LexStep
<1>3. LexInv => LoopControlIsLexical
  BY DEF LexInv, SignalsInside, Controls, Given, Calling, Around, LoopControlIsLexical
<1> QED BY <1>1, <1>2, <1>3, InvariantHolds, PTL DEF Spec

----------------------------------------------------------------------------
(* Parameters.  What stands between a call and a statement it runs is the  *)
(* chain of the constructs around that statement.                          *)

OfApplied == INSTANCE FoldProofs WITH Op <- Applied

LEMMA MaxOfSome ==
    ASSUME NEW n \in Nat, NEW S \in SUBSET (1..n), S # {}
    PROVE  Max(S) \in S /\ \A i \in S : i <= Max(S)
<1> DEFINE Down == {k \in Nat : n - k \in S}
<1>1. Down \in SUBSET Nat /\ Down # {}
  <2>1. PICK i \in S : TRUE
    OBVIOUS
  <2>2. n - i \in Nat /\ n - (n - i) = i
    BY <2>1
  <2> QED BY <2>1, <2>2
<1>2. PICK k \in Down : \A m \in Down : k <= m
  BY <1>1, OfApplied!Least
<1>3. n - k \in S /\ \A i \in S : n - k >= i
  <2>1. ASSUME NEW i \in S PROVE n - k >= i
    <3>1. n - i \in Nat /\ n - (n - i) = i
      OBVIOUS
    <3>2. k <= n - i
      BY <1>2, <3>1
    <3> QED BY <1>2, <3>2
  <2> QED BY <1>2, <2>1
<1>4. PICK m : m = Max(S)
  OBVIOUS
<1>5. m \in S /\ \A i \in S : m >= i
  BY <1>3, <1>4 DEF Max
<1> QED BY <1>4, <1>5

\* A statement that is run once a function was called stands in the text of what
\* was called last.
LEMMA StatementsOfLastCall ==
    ASSUME IInv, LexInv, Running, frames # <<>>,
           Node(Top.at).kind \in Statements \ Calling
    PROVE  InLinesOf(LastCall.body, Top.at)
<1>n. PICK n \in Nat : n = Len(stack)
  BY Marked DEF IInv
<1>1. n \in 1..n /\ DOMAIN stack = 1..n /\ Top = stack[n]
  BY <1>n, Marked DEF IInv, Running
<1>2. InBody(Calling) \in SUBSET (1..n) /\ InBody({"call_fn"}) \in SUBSET (1..n)
  BY <1>n, Marked DEF IInv
<1>3. InBody(Calling) # {}
  <2>1. Len(frames) # 0
    BY SeqOfElements DEF IInv, CallsCounted
  <2>2. InBody({"call_fn"}) # {}
    BY <2>1, FS_EmptySet DEF IInv, CallsCounted
  <2>3. InBody({"call_fn"}) \subseteq InBody(Calling)
    BY DEF InBody, Calling
  <2> QED BY <2>2, <2>3
<1>4. PICK c : c = Max(InBody(Calling))
  OBVIOUS
<1>5. c \in InBody(Calling) /\ \A i \in InBody(Calling) : i <= c
  BY <1>2, <1>3, <1>4, MaxOfSome
<1>6. c \in 1..n /\ stack[c].doing = "body" /\ Node(stack[c].at).kind \in Calling
  BY <1>2, <1>5 DEF InBody
<1>7. c # n
  BY <1>1, <1>6
<1>8. LastCall = stack[c]
  BY <1>4 DEF LastCall, Calling
<1>9. /\ \A i \in 1..n : Placed(stack[i])
      /\ \A i \in 2..n : Called(stack[i - 1], stack[i].at)
  <2>1. ASSUME NEW i \in 2..n PROVE Called(stack[i - 1], stack[i].at)
    <3>1. i - 1 \in 1..(n - 1) /\ (i - 1) + 1 = i
      BY <1>1
    <3> QED BY <1>n, <3>1 DEF LexInv, Chained
  <2> QED BY <1>n, <2>1 DEF LexInv, Chained
<1>10. \A p : Sited(p) =>
          /\ p \in Seq(Int)
          /\ Node(p).kind = "program" <=> p = <<>>
          /\ p # <<>> /\ Last(p) < 0 => Node(p).kind \notin Statements
  BY Grammar DEF LexInv
<1>11. \A i \in 1..n : stack[i].at \in Seq(Int) /\ Sited(stack[i].at)
  BY <1>9, <1>10 DEF Placed
<1> DEFINE at == stack[n].at
           Inside(i) == Node(stack[i].at).kind \in Statements /\ Around("sub", Front(stack[i].at), at)
           Good == {k \in Nat : n - k >= c + 1 => Inside(n - k)}
<1>12. 0 \in Good
  <2>1. n \in 2..n
    BY <1>6, <1>7
  <2>2. stack[n].at # <<>>
    BY <1>9, <2>1 DEF Called
  <2>3. Around("sub", Front(at), at)
    BY <1>1, <1>11, <2>2, AroundPart
  <2>4. n - 0 = n
    OBVIOUS
  <2> QED BY <1>1, <2>3, <2>4
<1>13. ASSUME NEW i \in 1..n, i - 1 >= c + 1, Inside(i)
       PROVE  Inside(i - 1)
  <2>1. PICK j : j = i - 1
    OBVIOUS
  <2>2. j \in 1..n /\ j \in 2..n /\ i \in 2..n /\ j > c
    BY <1>6, <1>13, <2>1
  <2>3. Called(stack[j], stack[i].at) /\ stack[j].at # <<>>
    BY <1>9, <2>1, <2>2 DEF Called
  <2>4. stack[j].doing = "body"
    <3>1. stack[i].at # <<>> /\ ~(Last(stack[i].at) < 0)
      BY <1>10, <1>11, <1>13, <2>2, <2>3 DEF Called
    <3> QED BY <2>3, <3>1 DEF Called
  <2>5. Front(stack[i].at) = stack[j].body
    BY <2>3, <2>4 DEF Called
  <2>6. j \notin InBody(Calling)
    BY <1>5, <1>6, <2>2
  <2>7. Node(stack[j].at).kind \notin Calling
    BY <1>1, <2>2, <2>4, <2>6 DEF InBody
  <2>8. stack[j].body = stack[j].at /\ Node(stack[j].at).kind \in {"program", "if", "for", "while"}
    BY <1>9, <2>2, <2>4, <2>7 DEF Placed
  <2>9. Node(stack[j].at).kind \in {"if", "for", "while"}
    BY <1>10, <1>11, <2>2, <2>3, <2>8
  <2>10. Around("sub", stack[j].at, at)
    BY <1>13, <2>5, <2>8
  <2>11. Around("sub", Front(stack[j].at), at)
    BY <1>1, <1>11, <2>2, <2>3, <2>9, <2>10, AroundMore
  <2> QED BY <2>1, <2>9, <2>11 DEF Statements
<1>14. \A k \in Nat : k \in Good => k + 1 \in Good
  <2>1. ASSUME NEW k \in Nat, k \in Good, n - (k + 1) >= c + 1
        PROVE  Inside(n - (k + 1))
    <3>1. PICK i : i = n - k
      OBVIOUS
    <3>2. i \in 1..n /\ i - 1 = n - (k + 1) /\ i - 1 >= c + 1 /\ i >= c + 1
      BY <1>6, <2>1, <3>1
    <3>3. Inside(i)
      BY <2>1, <3>1, <3>2
    <3> HIDE DEF Inside
    <3> QED BY <1>13, <3>2, <3>3
  <2> HIDE DEF Inside
  <2> QED BY <2>1
<1> HIDE DEF Good, Inside
<1>15. \A k \in Nat : k \in Good
  BY <1>12, <1>14, OfApplied!Induction
<1>16. Inside(c + 1)
  <2>1. n - (c + 1) \in Nat /\ n - (n - (c + 1)) = c + 1
    BY <1>6, <1>7
  <2>2. n - (c + 1) \in Good
    BY <1>15, <2>1
  <2> QED BY <2>1, <2>2 DEF Good
<1>17. Front(stack[c + 1].at) = stack[c].body
  <2>1. c + 1 \in 2..n /\ (c + 1) - 1 = c
    BY <1>6, <1>7
  <2>2. Called(stack[c], stack[c + 1].at)
    BY <1>9, <2>1
  <2> QED BY <1>6, <2>2 DEF Called
<1>18. Around("sub", LastCall.body, Top.at)
  BY <1>1, <1>8, <1>16, <1>17 DEF Inside
<1> QED BY <1>18 DEF Around, InLinesOf

\* A parameter changes only in the frame of the innermost function, by a statement
\* in the text of what was called last (lib.rs, store and frames): a caller's
\* parameters are out of reach of whatever it calls but a subroutine.
THEOREM ParametersAreKept == Spec => ParametersKept
<1> DEFINE Kept == \A i \in DOMAIN frames \cap DOMAIN frames' :
                      frames'[i] # frames[i] => i = Len(frames) /\ InLinesOf(LastCall.body, Top.at)
<1>1. ASSUME IInv, LexInv, [Next]_allvars
      PROVE  Kept
  <2>1. IsSeq(frames) /\ DOMAIN frames = 1..Len(frames) /\ Len(frames) \in Nat
    BY <1>1, SeqOfElements DEF IInv, CallsCounted, IsSeq
  <2>2. CASE frames' = frames
    BY <2>2
  <2>3. ASSUME Let \/ ForPass \/ ExitFor
        PROVE  Kept
    <3>1. \E name, v : Store(name, v)
      BY <2>3 DEF Let, ForPass, ExitFor
    <3>2. \A i \in DOMAIN frames : frames'[i] # frames[i] => i = Len(frames)
      <4>1. PICK n \in Nat : n = Len(frames)
        BY <2>1
      <4>2. \A i \in 1..n : i < n => frames'[i] = frames[i]
        BY <2>1, <3>1, <4>1, StoreKeeps
      <4>3. \A i \in 1..n : i < n \/ i = n
        OBVIOUS
      <4>4. \A i \in 1..n : frames'[i] # frames[i] => i = n
        BY <4>2, <4>3, Zenon
      <4> QED BY <2>1, <4>1, <4>4
    <3>3. frames' # frames => frames # <<>>
      BY <3>1 DEF Store
    <3>4. Running /\ Node(Top.at).kind \in {"let", "for"}
      <4>1. Let => Running /\ Node(Top.at).kind \in {"let", "for"}
        BY DEF Let, Ready
      <4>2. ForPass \/ ExitFor => Running /\ (Top.doing = "pass" \/ Node(Top.at).kind = "for")
        BY DEF ForPass, ExitFor, Given
      <4>3. Running => IsActivation(Top)
        BY <1>1, TopIs DEF IInv
      <4> QED BY <2>3, <4>1, <4>2, <4>3 DEF IsActivation
    <3>5. frames # <<>> => InLinesOf(LastCall.body, Top.at)
      BY <1>1, <3>4, StatementsOfLastCall DEF Statements, Calling
    <3> QED BY <2>2, <3>2, <3>3, <3>5
  <2>4. CASE \E frame : frames' = Append(frames, frame)
    BY <2>1, <2>4, Pushed
  <2>5. CASE frames # <<>> /\ frames' = Front(frames)
    <3>1. \A i \in 1..(Len(frames) - 1) : frames'[i] = frames[i]
      BY <2>1, <2>5, Popped
    <3>2. DOMAIN frames' = 1..(Len(frames) - 1)
      <4>1. IsSeq(frames') /\ Len(frames') = Len(frames) - 1
        BY <2>1, <2>5, Popped
      <4> QED BY <4>1, SeqOfElements
    <3> QED BY <3>1, <3>2
  <2>6. EndCallFn => frames # <<>> /\ frames' = Front(frames)
    <3>1. ASSUME EndCallFn
          PROVE  frames # <<>> /\ frames' = Front(frames)
      <4>1. /\ Running /\ Top.doing = "body" /\ Node(Top.at).kind = "call_fn"
            /\ UNCHANGED <<source, ast>> /\ \E r : Leave(r)
        BY <3>1, Guards DEF EndCallFn
      <4> QED BY <1>1, <3>1, <4>1, Ends DEF Calling, EndCallFn
    <3> QED BY <3>1
  <2>7. CallFn => frames' = frames \/ \E frame : frames' = Append(frames, frame)
    BY DEF CallFn
  <2>8. \/ Program \/ Jump \/ EndProgram
        \/ EvalOperand \/ TakeOperand \/ Primary \/ EvalOperator
        \/ PrintLine \/ Exit \/ Return \/ Goto \/ DefineSub \/ DefineFunction
        \/ NextLine \/ If \/ EndIf \/ For \/ ForNext
        \/ While \/ WhilePass \/ ExitWhile \/ Call \/ EndCall \/ Propagate
        \/ UNCHANGED allvars
        => frames' = frames
    BY DEF Program, Jump, EndProgram, EvalOperand, TakeOperand, Primary, EvalOperator,
           PrintLine, Exit, Return, Goto, DefineSub, DefineFunction, NextLine, If, EndIf,
           For, ForNext, While, WhilePass, ExitWhile, Call, EndCall, Propagate,
           allvars, interp
  <2> HIDE DEF Kept
  <2> QED BY <1>1, <2>2, <2>3, <2>4, <2>5, <2>6, <2>7, <2>8 DEF Next
<1>2. Init => LexInv
  BY LexInit
<1>3. IInv /\ LexInv /\ [Next]_allvars => LexInv'
  BY LexStep
<1>4. IInv /\ LexInv /\ [Next]_allvars => [Kept]_allvars
  BY <1>1
<1> QED BY <1>2, <1>3, <1>4, InvariantHolds, PTL DEF Spec, ParametersKept

----------------------------------------------------------------------------
(***************************************************************************)
(* The tree an expression is folded into is the one its table defines.     *)
(* `parse` calls itself only further on, so it is a function of the place  *)
(* and the least precedence (ClimbIs); what the precedences define of a    *)
(* span depends on shorter ones (TreesAre).  What `parse` comes to is such *)
(* a tree, from the last token backwards (ClimbSound), and every such tree *)
(* is what it comes to, from the shortest span up (AllMade).               *)
(***************************************************************************)

----------------------------------------------------------------------------
(* The loop of `parse`, and `parse`.                                       *)

Foldable(table, tokens) == IsTable(table) /\ IsStream(table, tokens)

\* Of a table and a stream of it.
LEMMA Tokens ==
    ASSUME NEW table, NEW tokens, Foldable(table, tokens)
    PROVE  /\ Len(tokens) \in Nat /\ DOMAIN tokens = 1..Len(tokens)
           /\ tokens \in Seq(Range(tokens))
           /\ \A i \in 1..Len(tokens) : tokens[i].kind \notin {"infix", "prefix", "postfix", "unfolded"}
BY DEF Foldable, IsStream

LEMMA Tiers ==
    ASSUME NEW table, NEW tokens, Foldable(table, tokens)
    PROVE  /\ Mins(table) \subseteq Nat /\ 0 \in Mins(table)
           /\ \A t : HasPrefix(table, t) => table.prefix[t.op].prec \in Mins(table)
           /\ \A o \in DOMAIN table.info :
                 /\ table.info[o].prec \in Nat
                 /\ NextMin(table.info[o]) \in Mins(table)
                 /\ LeastOnLeft(table.info[o]) \in Nat
                 /\ \A p \in DOMAIN table.info :
                       table.info[o].prec < NextMin(table.info[p])
                          => table.info[p].prec >= LeastOnLeft(table.info[o])
<1>1. Precs(table) \subseteq Nat
  BY DEF Foldable, IsTable, Precs
<1>2. \A t : HasPrefix(table, t) => table.prefix[t.op].prec \in Mins(table)
  BY DEF HasPrefix, Mins, Precs
<1>3. ASSUME NEW o \in DOMAIN table.info
      PROVE  /\ table.info[o].prec \in Nat /\ NextMin(table.info[o]) \in Mins(table)
             /\ LeastOnLeft(table.info[o]) \in Nat
  <2>1. table.info[o].prec \in Precs(table)
    BY DEF Precs
  <2> QED BY <1>1, <2>1 DEF NextMin, LeastOnLeft, Mins
<1>4. ASSUME NEW o \in DOMAIN table.info, NEW p \in DOMAIN table.info,
             table.info[o].prec < NextMin(table.info[p])
      PROVE  table.info[p].prec >= LeastOnLeft(table.info[o])
  <2>1. table.info[o].prec = table.info[p].prec => table.info[o].assoc = table.info[p].assoc
    BY DEF Foldable, IsTable
  <2> QED BY <1>3, <1>4, <2>1 DEF NextMin, LeastOnLeft
<1> QED BY <1>1, <1>2, <1>3, <1>4 DEF Mins

LEMMA LastRoundIs ==
    ASSUME NEW tokens, Len(tokens) \in Nat, NEW s \in 1..Len(tokens) + 1
    PROVE  /\ LastRound(tokens, s) \in 0..Len(tokens)
           /\ 2 * LastRound(tokens, s) >= Len(tokens) - s
           /\ \A k \in Nat : 2 * k <= Len(tokens) - s => k \in 0..LastRound(tokens, s)
BY DEF LastRound

\* The loop, round by round.
LEMMA RoundByRound ==
    ASSUME NEW table, NEW tokens, NEW climb, NEW start, NEW min, Len(tokens) \in Nat
    PROVE  LET lhs == Rounds(table, tokens, climb, start, min)
           IN  /\ lhs[0] = ParseUnary(table, tokens, climb, start)
               /\ \A k \in 1..Len(tokens) : lhs[k] = Extend(table, tokens, climb, min, lhs[k - 1])
<1>1. PICK size, first : size = Len(tokens) /\ first = ParseUnary(table, tokens, climb, start)
  OBVIOUS
<1> DEFINE OneRound(v) == Extend(table, tokens, climb, min, v)
           Body(f, k) == IF k = 0 THEN first ELSE OneRound(f[k - 1])
           Defined(m) == \E f : f = [k \in 0..m |-> Body(f, k)]
           Good == {m \in Nat : Defined(m)}
<1>2. Defined(0)
  <2>1. PICK f : f = [k \in 0..0 |-> first]
    OBVIOUS
  <2>2. \A k \in 0..0 : k = 0
    OBVIOUS
  <2> HIDE DEF OneRound
  <2>3. f = [k \in 0..0 |-> Body(f, k)]
    BY <2>1, <2>2
  <2> QED BY <2>3
<1>3. ASSUME NEW m \in Nat, Defined(m) PROVE Defined(m + 1)
  <2> HIDE DEF OneRound
  <2>1. PICK f : f = [k \in 0..m |-> Body(f, k)]
    BY <1>3
  <2>2. PICK g : g = [k \in 0..m + 1 |-> IF k = m + 1 THEN OneRound(f[m]) ELSE f[k]]
    OBVIOUS
  <2>3. ASSUME NEW k \in 0..m + 1 PROVE g[k] = Body(g, k)
    <3>1. CASE k = m + 1
      <4>1. g[m] = f[m] /\ g[k] = OneRound(f[m]) /\ k # 0 /\ k - 1 = m
        BY <2>2, <3>1
      <4> QED BY <4>1
    <3>2. CASE k \in 0..m
      <4>1. g[k] = f[k] /\ f[k] = Body(f, k)
        BY <2>1, <2>2, <3>2
      <4>2. k # 0 => k - 1 \in 0..m /\ g[k - 1] = f[k - 1]
        BY <2>2, <3>2
      <4> QED BY <4>1, <4>2
    <3> QED BY <3>1, <3>2
  <2> HIDE DEF Body
  <2>4. g = [k \in 0..m + 1 |-> g[k]]
    BY <2>2
  <2>5. g = [k \in 0..m + 1 |-> Body(g, k)]
    BY <2>3, <2>4
  <2> QED BY <2>5 DEF Body
<1>4. Defined(size)
  <2> HIDE DEF Defined
  <2>1. 0 \in Good /\ \A m \in Nat : m \in Good => m + 1 \in Good
    BY <1>2, <1>3
  <2> HIDE DEF Good
  <2>2. size \in Good
    BY <1>1, <2>1, OfApplied!Induction
  <2> QED BY <2>2 DEF Good
<1>5. PICK f : f = Rounds(table, tokens, climb, start, min)
  OBVIOUS
<1>6. f = [k \in 0..size |-> Body(f, k)]
  BY <1>1, <1>4, <1>5, Zenon DEF Rounds
<1> HIDE DEF OneRound
<1>7. \A k \in 0..size : f[k] = Body(f, k)
  BY <1>6
<1>8. f[0] = first /\ \A k \in 1..size : f[k] = OneRound(f[k - 1])
  BY <1>1, <1>7
<1> QED BY <1>1, <1>5, <1>8 DEF OneRound

----------------------------------------------------------------------------
(* Postfix operators.                                                      *)

IsPost(table, tokens, i) == HasInfo(table, tokens[i], "postfix")

\* The operand at `start` with the `many` postfix operators that follow it.
With(tokens, start, many) ==
    FoldLeft(Applied, tokens[start], SubSeq(tokens, start + 1, start + many))

LEMMA SameFold == \A base, s : FoldLeft(Applied, base, s) = OfApplied!FoldLeft(Applied, base, s)
BY Zenon DEF FoldLeft, MapThenFoldSet, Max, OfApplied!FoldLeft, OfApplied!MapThenFoldSet, OfApplied!Max

\* A whole fold is one element after the other.
LEMMA WholeFold ==
    ASSUME NEW base, NEW s, NEW size \in Nat, DOMAIN s = 1..size
    PROVE  FoldLeft(Applied, base, s) = OfApplied!After(base, s, size)
<1>1. OfApplied!FoldLeft(Applied, base, s) = OfApplied!After(base, s, size)
  BY OfApplied!FoldsOneByOne
<1> QED BY <1>1, SameFold

LEMMA WithNone ==
    ASSUME NEW T, NEW tokens \in Seq(T), NEW start \in 1..Len(tokens)
    PROVE  With(tokens, start, 0) = tokens[start]
<1>1. PICK s : s = SubSeq(tokens, start + 1, start + 0)
  OBVIOUS
<1>2. DOMAIN s = 1..0 /\ 0 \in Nat
  BY <1>1
<1>3. FoldLeft(Applied, tokens[start], s) = OfApplied!After(tokens[start], s, 0)
  BY <1>2, WholeFold
<1>4. OfApplied!After(tokens[start], s, 0) = tokens[start]
  BY <1>2, OfApplied!FoldsOneByOne, Zenon
<1> QED BY <1>1, <1>3, <1>4 DEF With

LEMMA WithOneMore ==
    ASSUME NEW T, NEW tokens \in Seq(T), NEW start \in 1..Len(tokens), NEW many \in Nat,
           start + many + 1 <= Len(tokens)
    PROVE  With(tokens, start, many + 1) = Postfix(tokens[start + many + 1].op, With(tokens, start, many))
<1>1. PICK s, t, more : /\ s = SubSeq(tokens, start + 1, start + many)
                        /\ t = SubSeq(tokens, start + 1, start + more)
                        /\ more = many + 1
  OBVIOUS
<1>2. more \in Nat /\ start + more <= Len(tokens) /\ start + 1 \in Nat /\ start + many <= Len(tokens)
  BY <1>1
<1>3. DOMAIN s = 1..many /\ DOMAIN t = 1..more
  <2>1. /\ start + many \in Int /\ start + more \in Int
        /\ start + many - (start + 1) + 1 = many /\ start + more - (start + 1) + 1 = more
    BY <1>2
  <2>2. DOMAIN s = 1..many
    BY <1>1, <1>2, <2>1
  <2>3. DOMAIN t = 1..more
    BY <1>1, <1>2, <2>1
  <2> QED BY <2>2, <2>3
<1>4. \A i \in 1..many : t[i] = s[i]
  BY <1>1, <1>2
<1>5. t[more] = tokens[start + many + 1]
  <2>1. start + 1 + more - 1 = start + many + 1 /\ more \in 1..more /\ start + more <= Len(tokens)
    BY <1>1, <1>2
  <2>2. t[more] = tokens[start + 1 + more - 1]
    BY <1>1, <1>2, <2>1
  <2> QED BY <2>1, <2>2
<1>8. OfApplied!Extends(s, many, t, more)
  BY <1>1, <1>4 DEF OfApplied!Extends
<1>9. more \in Nat
  BY <1>2
<1>6. PICK base : base = tokens[start]
  OBVIOUS
<1>10. OfApplied!After(base, t, more) = Applied(OfApplied!After(base, s, many), t[more])
  BY <1>3, <1>8, <1>9, OfApplied!FoldsOneMore
<1>11. FoldLeft(Applied, base, t) = OfApplied!After(base, t, more)
  BY <1>3, <1>9, WholeFold
<1>12. FoldLeft(Applied, base, s) = OfApplied!After(base, s, many)
  BY <1>3, WholeFold
<1>7. FoldLeft(Applied, base, t) = Applied(FoldLeft(Applied, base, s), t[more])
  BY <1>10, <1>11, <1>12
<1> QED BY <1>1, <1>5, <1>6, <1>7 DEF With, Applied

\* The postfix operators end at one place.
LEMMA PostfixesEnd ==
    ASSUME NEW table, NEW tokens, Foldable(table, tokens), NEW start \in 1..Len(tokens)
    PROVE  \E next \in start + 1..Len(tokens) + 1 :
              /\ \A i \in start + 1..next - 1 : IsPost(table, tokens, i)
              /\ next <= Len(tokens) => ~IsPost(table, tokens, next)
              /\ WithPostfix(table, tokens, start) = Parsed(With(tokens, start, next - 1 - start), next)
<1>1. PICK size : size = Len(tokens) /\ size \in Nat
  BY Tokens
<1> DEFINE EndsAt(n) == /\ \A i \in start + 1..n - 1 : IsPost(table, tokens, i)
                        /\ n <= size => ~IsPost(table, tokens, n)
<1>2. \E n \in start + 1..size + 1 : EndsAt(n)
  <2> DEFINE S == {n \in Nat : n \in start + 1..size + 1 /\ (n <= size => ~IsPost(table, tokens, n))}
  <2>1. size + 1 \in S
    BY <1>1
  <2>2. PICK n \in S : \A m \in S : n <= m
    BY <2>1, OfApplied!Least
  <2>3. ASSUME NEW i \in start + 1..n - 1 PROVE IsPost(table, tokens, i)
    <3>1. i \in Nat /\ i < n /\ i \in start + 1..size + 1
      BY <1>1
    <3> QED BY <2>2, <3>1
  <2> QED BY <2>2, <2>3
<1>3. PICK next : next = CHOOSE n \in start + 1..size + 1 : EndsAt(n)
  OBVIOUS
<1>4. next \in start + 1..size + 1 /\ EndsAt(next)
  <2> HIDE DEF EndsAt
  <2> QED BY <1>2, <1>3
<1>5. WithPostfix(table, tokens, start)
        = Parsed(FoldLeft(Applied, tokens[start], SubSeq(tokens, start + 1, next - 1)), next)
  <2>1. next = CHOOSE n \in start + 1..Len(tokens) + 1 :
                  /\ \A i \in start + 1..n - 1 : HasInfo(table, tokens[i], "postfix")
                  /\ n <= Len(tokens) => ~HasInfo(table, tokens[n], "postfix")
    BY <1>1, <1>3, Zenon DEF IsPost
  <2> QED BY <2>1, Zenon DEF WithPostfix
<1>6. start + (next - 1 - start) = next - 1
  BY <1>1, <1>4
<1>7. WithPostfix(table, tokens, start) = Parsed(With(tokens, start, next - 1 - start), next)
  BY <1>5, <1>6 DEF With
<1>8. next \in start + 1..Len(tokens) + 1 /\ (next <= Len(tokens) => ~IsPost(table, tokens, next))
  BY <1>1, <1>4
<1> QED BY <1>4, <1>7, <1>8, Zenon

----------------------------------------------------------------------------
(* `parse` depends on what it makes of what is further on, and so there is *)
(* such a function.                                                        *)

LEMMA Outcomes ==
    /\ \A tree, next : /\ Parsed(tree, next).tree = tree /\ Parsed(tree, next).next = next
                       /\ Parsed(tree, next) # Unfolded
    /\ \A tree, next, tree2, next2 :
          Parsed(tree, next) = Parsed(tree2, next2) <=> tree = tree2 /\ next = next2
BY DEF Parsed, Unfolded

Calls(table, tokens) == (1..Len(tokens) + 1) \X Mins(table)
Past(tokens, r, s) == r = Unfolded \/ r.next \in s + 1..Len(tokens) + 1
PastFrom(table, tokens, c, s) == \A at \in Calls(table, tokens) : at[1] > s => Past(tokens, c[at], at[1])
AgreeFrom(table, tokens, c, d, s) == \A at \in Calls(table, tokens) : at[1] > s => c[at] = d[at]

LEMMA UnaryLocal ==
    ASSUME NEW table, NEW tokens, Foldable(table, tokens), NEW s \in 1..Len(tokens) + 1, NEW c, NEW d,
           PastFrom(table, tokens, c, s), AgreeFrom(table, tokens, c, d, s)
    PROVE  /\ ParseUnary(table, tokens, c, s) = ParseUnary(table, tokens, d, s)
           /\ Past(tokens, ParseUnary(table, tokens, c, s), s)
<1>1. PICK n : n = Len(tokens) /\ n \in Nat
  BY Tokens
<1>2. CASE s > n
  BY <1>1, <1>2 DEF ParseUnary, Past
<1>3. CASE s \in 1..n /\ HasPrefix(table, tokens[s])
  <2>1. PICK op, at : op = tokens[s].op /\ at = <<s + 1, table.prefix[op].prec>>
    OBVIOUS
  <2>2. at \in Calls(table, tokens) /\ at[1] = s + 1 /\ s + 1 > s
    BY <1>1, <1>3, <2>1, Tiers DEF Calls
  <2>3. c[at] = d[at] /\ Past(tokens, c[at], s + 1)
    BY <2>2 DEF PastFrom, AgreeFrom
  <2>4. \A e : ParseUnary(table, tokens, e, s)
                 = IF e[at] = Unfolded THEN Unfolded ELSE Parsed(Prefix(op, e[at].tree), e[at].next)
    BY <1>1, <1>3, <2>1 DEF ParseUnary
  <2>5. c[at] # Unfolded => c[at].next \in s + 1..n + 1
    BY <1>1, <1>3, <2>3 DEF Past
  <2> QED BY <1>1, <2>3, <2>4, <2>5, Outcomes DEF Past
<1>4. CASE s \in 1..n /\ ~HasPrefix(table, tokens[s])
  <2>1. ParseUnary(table, tokens, c, s) = ParseUnary(table, tokens, d, s)
    BY <1>1, <1>4 DEF ParseUnary
  <2>2. CASE ParseUnary(table, tokens, c, s) = Unfolded
    BY <2>1, <2>2 DEF Past
  <2>3. CASE ParseUnary(table, tokens, c, s) = WithPostfix(table, tokens, s)
    BY <1>1, <1>4, <2>1, <2>3, PostfixesEnd, Outcomes DEF Past
  <2> QED BY <1>1, <1>4, <2>2, <2>3 DEF ParseUnary
<1> QED BY <1>1, <1>2, <1>3, <1>4

\* The part of the loop that goes on.
LEMMA Extended ==
    ASSUME NEW table, NEW tokens, Foldable(table, tokens), NEW c, NEW min, NEW lhs,
           TakesInfix(table, tokens, min, lhs), lhs.next \in Nat, NEW op, op = tokens[lhs.next].op,
           NEW at, at = <<lhs.next + 1, NextMin(table.info[op])>>
    PROVE  /\ lhs.next <= Len(tokens) /\ op \in DOMAIN table.info
           /\ lhs.next >= 1 => at \in Calls(table, tokens) /\ at[1] = lhs.next + 1
           /\ Extend(table, tokens, c, min, lhs)
                = IF c[at] = Unfolded THEN Unfolded
                  ELSE Parsed(Infix(op, lhs.tree, c[at].tree), c[at].next)
<1>1. lhs.next <= Len(tokens) /\ op \in DOMAIN table.info /\ Len(tokens) \in Nat
  BY Tokens DEF TakesInfix, HasInfo
<1>2. lhs.next >= 1 => at \in Calls(table, tokens) /\ at[1] = lhs.next + 1
  BY <1>1, Tiers DEF Calls
<1> QED BY <1>1, <1>2 DEF Extend

LEMMA ExtendLocal ==
    ASSUME NEW table, NEW tokens, Foldable(table, tokens), NEW s \in 1..Len(tokens) + 1, NEW c, NEW d,
           PastFrom(table, tokens, c, s), AgreeFrom(table, tokens, c, d, s),
           NEW min, NEW lhs, Past(tokens, lhs, s)
    PROVE  /\ Extend(table, tokens, c, min, lhs) = Extend(table, tokens, d, min, lhs)
           /\ Past(tokens, Extend(table, tokens, c, min, lhs), s)
<1>1. PICK n : n = Len(tokens) /\ n \in Nat
  BY Tokens
<1>2. CASE ~TakesInfix(table, tokens, min, lhs)
  BY <1>2 DEF Extend
<1>3. CASE TakesInfix(table, tokens, min, lhs)
  <2>1. PICK op, at : op = tokens[lhs.next].op /\ at = <<lhs.next + 1, NextMin(table.info[op])>>
    OBVIOUS
  <2>2. lhs.next \in s + 1..n + 1 /\ lhs.next \in Nat /\ lhs.next >= 1
    BY <1>1, <1>3 DEF TakesInfix, Past
  <2>3. /\ at \in Calls(table, tokens) /\ at[1] = lhs.next + 1
        /\ \A e : Extend(table, tokens, e, min, lhs)
                    = IF e[at] = Unfolded THEN Unfolded
                      ELSE Parsed(Infix(op, lhs.tree, e[at].tree), e[at].next)
    <3>1. at \in Calls(table, tokens) /\ at[1] = lhs.next + 1
      BY <1>3, <2>1, <2>2, Extended
    <3>2. ASSUME NEW e
          PROVE  Extend(table, tokens, e, min, lhs)
                   = IF e[at] = Unfolded THEN Unfolded
                     ELSE Parsed(Infix(op, lhs.tree, e[at].tree), e[at].next)
      BY <1>3, <2>1, <2>2, Extended
    <3> QED BY <3>1, <3>2
  <2>4. c[at] = d[at] /\ Past(tokens, c[at], lhs.next + 1)
    <3>1. at \in Calls(table, tokens) /\ at[1] = lhs.next + 1 /\ at[1] > s
      BY <1>1, <2>2, <2>3
    <3>2. c[at] = d[at]
      BY <3>1 DEF AgreeFrom
    <3>3. Past(tokens, c[at], at[1])
      BY <3>1 DEF PastFrom
    <3> QED BY <3>1, <3>2, <3>3
  <2>5. c[at] # Unfolded => c[at].next \in s + 1..n + 1
    BY <1>1, <2>2, <2>4 DEF Past
  <2> QED BY <1>1, <2>3, <2>4, <2>5, Outcomes DEF Past
<1> QED BY <1>2, <1>3

LEMMA RoundsLocal ==
    ASSUME NEW table, NEW tokens, Foldable(table, tokens), NEW s \in 1..Len(tokens) + 1, NEW c, NEW d,
           PastFrom(table, tokens, c, s), AgreeFrom(table, tokens, c, d, s), NEW min
    PROVE  \A k \in 0..Len(tokens) :
              /\ Rounds(table, tokens, c, s, min)[k] = Rounds(table, tokens, d, s, min)[k]
              /\ Past(tokens, Rounds(table, tokens, c, s, min)[k], s)
<1>1. PICK n : n = Len(tokens) /\ n \in Nat
  BY Tokens
<1>2. PICK a, b : a = Rounds(table, tokens, c, s, min) /\ b = Rounds(table, tokens, d, s, min)
  OBVIOUS
<1>3. /\ a[0] = ParseUnary(table, tokens, c, s)
      /\ \A k \in 1..n : a[k] = Extend(table, tokens, c, min, a[k - 1])
  BY <1>1, <1>2, RoundByRound
<1>4. /\ b[0] = ParseUnary(table, tokens, d, s)
      /\ \A k \in 1..n : b[k] = Extend(table, tokens, d, min, b[k - 1])
  BY <1>1, <1>2, RoundByRound
<1> DEFINE Same == {k \in Nat : k <= n => a[k] = b[k] /\ Past(tokens, a[k], s)}
<1>5. 0 \in Same
  BY <1>3, <1>4, UnaryLocal
<1>6. ASSUME NEW k \in Nat, k \in Same PROVE k + 1 \in Same
  <2> SUFFICES ASSUME k + 1 <= n PROVE a[k + 1] = b[k + 1] /\ Past(tokens, a[k + 1], s)
    OBVIOUS
  <2>1. k + 1 \in 1..n /\ (k + 1) - 1 = k /\ a[k] = b[k] /\ Past(tokens, a[k], s)
    BY <1>1, <1>6
  <2>2. a[k + 1] = Extend(table, tokens, c, min, a[k]) /\ b[k + 1] = Extend(table, tokens, d, min, a[k])
    BY <1>3, <1>4, <2>1
  <2> QED BY <2>1, <2>2, ExtendLocal
<1>7. \A k \in Nat : k \in Same
  <2> HIDE DEF Same
  <2> QED BY <1>5, <1>6, OfApplied!Induction
<1> QED BY <1>1, <1>2, <1>7

LEMMA ClimbIs ==
    ASSUME NEW table, NEW tokens, Foldable(table, tokens)
    PROVE  \A at \in Calls(table, tokens) :
              Climb(table, tokens)[at] = Rounds(table, tokens, Climb(table, tokens), at[1], at[2])[LastRound(tokens, at[1])]
<1>1. PICK n, calls : n = Len(tokens) /\ n \in Nat /\ calls = Calls(table, tokens)
  BY Tokens
<1>2. \A at \in calls : at[1] \in 1..n + 1 /\ at[1] \in Nat
  BY <1>1 DEF Calls
<1> DEFINE Body(c, at) == Rounds(table, tokens, c, at[1], at[2])[LastRound(tokens, at[1])]
           Partly(k, c) == /\ c = [at \in calls |-> c[at]]
                           /\ \A at \in calls : at[1] > n + 1 - k => c[at] = Body(c, at)
                           /\ PastFrom(table, tokens, c, n + 1 - k)
           Good == {k \in Nat : k <= n + 1 => \E c : Partly(k, c)}
<1>3. 0 \in Good
  <2>1. PICK c : c = [at \in calls |-> Unfolded]
    OBVIOUS
  <2>2. Partly(0, c)
    BY <1>1, <1>2, <2>1 DEF PastFrom, Past
  <2> QED BY <2>2
<1>4. ASSUME NEW k \in Nat, k \in Good PROVE k + 1 \in Good
  <2> SUFFICES ASSUME k + 1 <= n + 1 PROVE \E c : Partly(k + 1, c)
    OBVIOUS
  <2>1. PICK s : s = n + 1 - k
    OBVIOUS
  <2>2. s \in 1..n + 1 /\ s \in Nat /\ n + 1 - (k + 1) = s - 1 /\ k <= n + 1
    BY <1>1, <2>1
  <2>3. PICK c : Partly(k, c)
    BY <1>4, <2>2
  <2>4. PICK d : d = [at \in calls |-> IF at[1] = s THEN Body(c, at) ELSE c[at]]
    OBVIOUS
  <2>5. /\ \A at \in calls : at[1] = s => d[at] = Body(c, at)
        /\ \A at \in calls : at[1] > s => d[at] = c[at] /\ c[at] = Body(c, at)
    <3>1. ASSUME NEW at \in calls, at[1] = s PROVE d[at] = Body(c, at)
      BY <2>4, <3>1
    <3>2. ASSUME NEW at \in calls, at[1] > s PROVE d[at] = c[at] /\ c[at] = Body(c, at)
      <4>1. at[1] # s
        BY <1>2, <2>2, <3>2
      <4>2. d[at] = c[at]
        BY <2>4, <4>1
      <4>3. c[at] = Body(c, at)
        BY <2>1, <2>3, <3>2
      <4> QED BY <4>2, <4>3
    <3> QED BY <3>1, <3>2
  <2>6. \A t \in Nat : t >= s => AgreeFrom(table, tokens, c, d, t) /\ PastFrom(table, tokens, c, t)
    <3> SUFFICES ASSUME NEW t \in Nat, t >= s
                 PROVE  AgreeFrom(table, tokens, c, d, t) /\ PastFrom(table, tokens, c, t)
      OBVIOUS
    <3>1. \A at \in calls : at[1] > t => at[1] > s
      BY <1>2, <2>2
    <3>2. PastFrom(table, tokens, c, s)
      BY <2>1, <2>3
    <3>3. AgreeFrom(table, tokens, c, d, t)
      BY <1>1, <2>5, <3>1 DEF AgreeFrom
    <3>4. PastFrom(table, tokens, c, t)
      BY <1>1, <3>1, <3>2 DEF PastFrom
    <3> QED BY <3>3, <3>4
  <2>7. ASSUME NEW at \in calls, at[1] > s - 1
        PROVE  d[at] = Body(d, at) /\ Past(tokens, d[at], at[1])
    <3>1. at[1] \in 1..Len(tokens) + 1 /\ at[1] \in Nat /\ at[1] >= s
      BY <1>1, <1>2, <2>2, <2>7
    <3>5. LastRound(tokens, at[1]) \in 0..Len(tokens)
      BY <1>1, <3>1, LastRoundIs
    <3>2. AgreeFrom(table, tokens, c, d, at[1]) /\ PastFrom(table, tokens, c, at[1])
      BY <2>6, <3>1
    <3>3. Body(c, at) = Body(d, at) /\ Past(tokens, Body(c, at), at[1])
      BY <3>1, <3>2, <3>5, RoundsLocal
    <3>4. d[at] = Body(c, at)
      BY <2>2, <2>5, <3>1
    <3> QED BY <3>3, <3>4
  <2>8. d = [at \in calls |-> d[at]]
    BY <2>4
  <2>9. PastFrom(table, tokens, d, s - 1)
    BY <1>1, <2>7 DEF PastFrom
  <2> HIDE DEF Body
  <2> QED BY <2>2, <2>7, <2>8, <2>9
<1>5. n + 1 \in Good
  <2> HIDE DEF Good
  <2> QED BY <1>1, <1>3, <1>4, OfApplied!Induction
<1>6. PICK c : Partly(n + 1, c)
  BY <1>1, <1>5
<1>7. c = [at \in calls |-> Body(c, at)]
  <2>1. \A at \in calls : c[at] = Body(c, at)
    BY <1>1, <1>2, <1>6
  <2>2. c = [at \in calls |-> c[at]]
    BY <1>6
  <2> HIDE DEF Body
  <2> QED BY <2>1, <2>2
<1>8. PICK d : d = Climb(table, tokens)
  OBVIOUS
<1>9. d = CHOOSE e : e = [at \in calls |-> Body(e, at)]
  BY <1>1, <1>8, Zenon DEF Climb, Calls
<1> HIDE DEF Body
<1>10. d = [at \in calls |-> Body(d, at)]
  BY <1>7, <1>9
<1>11. \A at \in calls : d[at] = Body(d, at)
  BY <1>10
<1> QED BY <1>1, <1>8, <1>11 DEF Body

----------------------------------------------------------------------------
(* What the precedences define depends on shorter spans.                   *)

Spans(tokens) == (1..Len(tokens) + 1) \X (0..Len(tokens))
AgreeWithin(tokens, c, d, len) == \A span \in Spans(tokens) : span[2] - span[1] < len => c[span] = d[span]

LEMMA SpanningLocal ==
    ASSUME NEW table, NEW tokens, Len(tokens) \in Nat,
           NEW i \in 1..Len(tokens) + 1, NEW j \in 0..Len(tokens), NEW c, NEW d,
           AgreeWithin(tokens, c, d, j - i)
    PROVE  Spanning(table, tokens, c, i, j) = Spanning(table, tokens, d, i, j)
<1>1. CASE i >= j
  BY <1>1 DEF Spanning
<1>2. CASE i < j
  <2>1. \A k, l \in Nat : k \in 1..Len(tokens) + 1 /\ l \in 0..Len(tokens) /\ l - k < j - i
           => c[<<k, l>>] = d[<<k, l>>]
    BY DEF AgreeWithin, Spans
  <2>2. c[<<i + 1, j>>] = d[<<i + 1, j>>] /\ c[<<i, j - 1>>] = d[<<i, j - 1>>]
    BY <1>2, <2>1
  <2>3. \A k \in i + 1..j - 1 : c[<<i, k - 1>>] = d[<<i, k - 1>>] /\ c[<<k + 1, j>>] = d[<<k + 1, j>>]
    BY <1>2, <2>1
  <2>4. ~(i > j) /\ i # j
    BY <1>2
  <2> DEFINE S == {m \in i + 1..j - 1 : HasInfo(table, tokens[m], "infix")}
             PartsOf(e) == {ByInfix(table, tokens[k].op, e[<<i, k - 1>>], e[<<k + 1, j>>]) : k \in S}
  <2>5. PartsOf(c) = PartsOf(d)
    BY <2>3
  <2>6. \A e : Spanning(table, tokens, e, i, j)
          = (IF HasPrefix(table, tokens[i]) THEN ByPrefix(table, tokens[i].op, e[<<i + 1, j>>]) ELSE {})
            \cup (IF HasInfo(table, tokens[j], "postfix") THEN ByPostfix(tokens[j].op, e[<<i, j - 1>>]) ELSE {})
            \cup UNION PartsOf(e)
    BY <2>4, Zenon DEF Spanning
  <2> HIDE DEF PartsOf
  <2> QED BY <2>2, <2>5, <2>6
<1> QED BY <1>1, <1>2

LEMMA TreesAre ==
    ASSUME NEW table, NEW tokens, Foldable(table, tokens)
    PROVE  \A span \in Spans(tokens) :
              TreesOf(table, tokens)[span] = Spanning(table, tokens, TreesOf(table, tokens), span[1], span[2])
<1>1. PICK n, pairs : n = Len(tokens) /\ n \in Nat /\ pairs = Spans(tokens)
  BY Tokens
<1>2. \A span \in pairs : /\ span[1] \in 1..Len(tokens) + 1 /\ span[2] \in 0..Len(tokens)
                          /\ span[1] \in 1..n + 1 /\ span[2] \in 0..n /\ span[1] \in Nat /\ span[2] \in Nat
  BY <1>1 DEF Spans
<1> DEFINE Body(c, span) == Spanning(table, tokens, c, span[1], span[2])
           Partly(k, c) == /\ c = [span \in pairs |-> c[span]]
                           /\ \A span \in pairs : span[2] - span[1] < k => c[span] = Body(c, span)
           Good == {k \in Nat : \E c : Partly(k, c)}
<1>3. 0 \in Good
  <2>1. PICK c : c = [span \in pairs |-> {}]
    OBVIOUS
  <2>2. \A span \in pairs : span[2] - span[1] < 0 => Body(c, span) = {}
    BY <1>2 DEF Spanning
  <2>3. Partly(0, c)
    BY <2>1, <2>2
  <2> QED BY <2>3
<1>4. ASSUME NEW k \in Nat, k \in Good PROVE k + 1 \in Good
  <2>1. PICK c : Partly(k, c)
    BY <1>4
  <2>2. PICK d : d = [span \in pairs |-> IF span[2] - span[1] = k THEN Body(c, span) ELSE c[span]]
    OBVIOUS
  <2>3. /\ \A span \in pairs : span[2] - span[1] = k => d[span] = Body(c, span)
        /\ \A span \in pairs : span[2] - span[1] < k => d[span] = c[span] /\ c[span] = Body(c, span)
    BY <1>2, <2>1, <2>2
  <2>4. AgreeWithin(tokens, c, d, k)
    BY <1>1, <2>3 DEF AgreeWithin
  <2>5. ASSUME NEW span \in pairs, span[2] - span[1] < k + 1
        PROVE  d[span] = Body(d, span)
    <3>1. span[2] - span[1] <= k
      BY <1>2, <2>5
    <3>2. AgreeWithin(tokens, c, d, span[2] - span[1])
      BY <1>1, <1>2, <2>4, <3>1 DEF AgreeWithin
    <3>3. Body(c, span) = Body(d, span)
      BY <1>1, <1>2, <3>2, SpanningLocal
    <3>4. d[span] = Body(c, span)
      BY <1>2, <2>3, <3>1
    <3> QED BY <3>3, <3>4
  <2>6. d = [span \in pairs |-> d[span]]
    BY <2>2
  <2> HIDE DEF Body
  <2> QED BY <2>5, <2>6
<1>5. n + 1 \in Good
  <2> HIDE DEF Good
  <2> QED BY <1>1, <1>3, <1>4, OfApplied!Induction
<1>6. PICK c : Partly(n + 1, c)
  BY <1>5
<1>7. c = [span \in pairs |-> Body(c, span)]
  <2>1. \A span \in pairs : c[span] = Body(c, span)
    BY <1>1, <1>2, <1>6
  <2>2. c = [span \in pairs |-> c[span]]
    BY <1>6
  <2> HIDE DEF Body
  <2> QED BY <2>1, <2>2
<1>8. PICK d : d = TreesOf(table, tokens)
  OBVIOUS
<1>9. d = CHOOSE e : e = [span \in pairs |-> Body(e, span)]
  BY <1>1, <1>8, Zenon DEF TreesOf, Spans
<1> HIDE DEF Body
<1>10. d = [span \in pairs |-> Body(d, span)]
  BY <1>7, <1>9
<1>11. \A span \in pairs : d[span] = Body(d, span)
  BY <1>10
<1> QED BY <1>1, <1>8, <1>11 DEF Body

\* The ways a span may be read.
OfPrefix(table, tokens, x, i, j) ==
    /\ i < j /\ HasPrefix(table, tokens[i])
    /\ \E o \in TreesOf(table, tokens)[<<i + 1, j>>] :
          /\ NotLooser(table, o.tree, table.prefix[tokens[i].op].prec)
          /\ x = Derived(Prefix(tokens[i].op, o.tree), o.open \cup {table.prefix[tokens[i].op].prec})
OfPostfix(table, tokens, x, i, j) ==
    /\ i < j /\ IsPost(table, tokens, j)
    /\ \E o \in TreesOf(table, tokens)[<<i, j - 1>>] :
          /\ o.tree.kind \notin {"infix", "prefix"}
          /\ x = Derived(Postfix(tokens[j].op, o.tree), {})
OfInfix(table, tokens, x, i, j, k) ==
    /\ k \in i + 1..j - 1 /\ HasInfo(table, tokens[k], "infix")
    /\ \E l \in TreesOf(table, tokens)[<<i, k - 1>>], r \in TreesOf(table, tokens)[<<k + 1, j>>] :
          /\ NotLooser(table, l.tree, LeastOnLeft(table.info[tokens[k].op]))
          /\ \A prec \in l.open : table.info[tokens[k].op].prec < prec
          /\ NotLooser(table, r.tree, NextMin(table.info[tokens[k].op]))
          /\ x = Derived(Infix(tokens[k].op, l.tree, r.tree), r.open)

LEMMA ReadingsOf ==
    ASSUME NEW table, NEW tokens, Foldable(table, tokens),
           NEW i \in 1..Len(tokens) + 1, NEW j \in 0..Len(tokens), NEW x
    PROVE  x \in TreesOf(table, tokens)[<<i, j>>] <=>
              \/ i = j /\ ~IsOp(tokens[i]) /\ x = Derived(tokens[i], {})
              \/ OfPrefix(table, tokens, x, i, j)
              \/ OfPostfix(table, tokens, x, i, j)
              \/ \E k \in i + 1..j - 1 : OfInfix(table, tokens, x, i, j, k)
<1>1. Len(tokens) \in Nat
  BY Tokens
<1>2. PICK T : T = TreesOf(table, tokens)
  OBVIOUS
<1>3. T[<<i, j>>] = Spanning(table, tokens, T, i, j)
  <2>1. <<i, j>> \in Spans(tokens) /\ <<i, j>>[1] = i /\ <<i, j>>[2] = j
    BY DEF Spans
  <2> QED BY <1>2, <2>1, TreesAre
<1> DEFINE Alone == i = j /\ ~IsOp(tokens[i]) /\ x = Derived(tokens[i], {})
           Leading == i < j /\ HasPrefix(table, tokens[i]) /\ x \in ByPrefix(table, tokens[i].op, T[<<i + 1, j>>])
           Trailing == i < j /\ HasInfo(table, tokens[j], "postfix") /\ x \in ByPostfix(tokens[j].op, T[<<i, j - 1>>])
           Between == i < j /\ \E k \in i + 1..j - 1 :
                                  /\ HasInfo(table, tokens[k], "infix")
                                  /\ x \in ByInfix(table, tokens[k].op, T[<<i, k - 1>>], T[<<k + 1, j>>])
<1>4. x \in T[<<i, j>>] <=> Alone \/ Leading \/ Trailing \/ Between
  <2>1. CASE i > j
    <3>1. ~(i = j) /\ ~(i < j)
      BY <1>1, <2>1
    <3>2. T[<<i, j>>] = {}
      BY <1>3, <2>1, Zenon DEF Spanning
    <3> QED BY <3>1, <3>2, Zenon
  <2>2. CASE i = j
    <3>1. ~(i > j) /\ i <= j /\ ~(i < j)
      BY <1>1, <2>2
    <3>2. T[<<i, j>>] = IF IsOp(tokens[i]) THEN {} ELSE {Derived(tokens[i], {})}
      BY <1>3, <2>2, <3>1, Zenon DEF Spanning
    <3>3. x \in T[<<i, j>>] <=> Alone
      BY <2>2, <3>2
    <3> QED BY <3>1, <3>3, Zenon
  <2>3. CASE i < j
    <3>1. ~(i > j) /\ i <= j /\ i # j
      BY <1>1, <2>3
    <3> DEFINE S == {m \in i + 1..j - 1 : HasInfo(table, tokens[m], "infix")}
               Part(k) == ByInfix(table, tokens[k].op, T[<<i, k - 1>>], T[<<k + 1, j>>])
               AtFirst == IF HasPrefix(table, tokens[i]) THEN ByPrefix(table, tokens[i].op, T[<<i + 1, j>>]) ELSE {}
               AtLast == IF HasInfo(table, tokens[j], "postfix") THEN ByPostfix(tokens[j].op, T[<<i, j - 1>>]) ELSE {}
    <3>2. T[<<i, j>>] = AtFirst \cup AtLast \cup UNION {Part(k) : k \in S}
      BY <1>3, <3>1, Zenon DEF Spanning
    <3> HIDE DEF Part
    <3>3. x \in UNION {Part(k) : k \in S}
            <=> \E k \in i + 1..j - 1 : HasInfo(table, tokens[k], "infix") /\ x \in Part(k)
      OBVIOUS
    <3>4. x \in AtFirst <=> Leading
      BY <2>3
    <3>5. x \in AtLast <=> Trailing
      BY <2>3
    <3>6. x \in UNION {Part(k) : k \in S} <=> Between
      BY <2>3, <3>3 DEF Part
    <3> HIDE DEF AtFirst, AtLast, Leading, Trailing, Between
    <3>7. x \in T[<<i, j>>] <=> x \in AtFirst \/ x \in AtLast \/ x \in UNION {Part(k) : k \in S}
      BY <3>2
    <3> QED BY <3>1, <3>4, <3>5, <3>6, <3>7, Zenon
  <2>4. i > j \/ i = j \/ i < j
    BY <1>1
  <2> QED BY <2>1, <2>2, <2>3, <2>4, Zenon
<1>5. \A op, S : x \in ByPrefix(table, op, S) <=>
         \E o \in S : /\ NotLooser(table, o.tree, table.prefix[op].prec)
                      /\ x = Derived(Prefix(op, o.tree), o.open \cup {table.prefix[op].prec})
  BY DEF ByPrefix
<1>6. \A op, S : x \in ByPostfix(op, S) <=>
         \E o \in S : o.tree.kind \notin {"infix", "prefix"} /\ x = Derived(Postfix(op, o.tree), {})
  BY DEF ByPostfix
<1>7. \A op, L, R : x \in ByInfix(table, op, L, R) <=>
         \E l \in L, r \in R :
            /\ NotLooser(table, l.tree, LeastOnLeft(table.info[op]))
            /\ \A prec \in l.open : table.info[op].prec < prec
            /\ NotLooser(table, r.tree, NextMin(table.info[op]))
            /\ x = Derived(Infix(op, l.tree, r.tree), r.open)
  <2> TAKE op, L, R
  <2> DEFINE Fits(l, r) == /\ NotLooser(table, l.tree, LeastOnLeft(table.info[op]))
                           /\ \A prec \in l.open : table.info[op].prec < prec
                           /\ NotLooser(table, r.tree, NextMin(table.info[op]))
             Made(l, r) == Derived(Infix(op, l.tree, r.tree), r.open)
  <2>1. ByInfix(table, op, L, R) = {Made(lr[1], lr[2]) : lr \in {p \in L \X R : Fits(p[1], p[2])}}
    BY DEF ByInfix
  <2> HIDE DEF Fits, Made
  <2>2. x \in ByInfix(table, op, L, R) <=> \E lr \in L \X R : Fits(lr[1], lr[2]) /\ x = Made(lr[1], lr[2])
    BY <2>1
  <2>3. ASSUME NEW l \in L, NEW r \in R, Fits(l, r), x = Made(l, r) PROVE x \in ByInfix(table, op, L, R)
    <3>1. <<l, r>> \in L \X R /\ <<l, r>>[1] = l /\ <<l, r>>[2] = r
      OBVIOUS
    <3> QED BY <2>2, <2>3, <3>1
  <2>4. ASSUME x \in ByInfix(table, op, L, R) PROVE \E l \in L, r \in R : Fits(l, r) /\ x = Made(l, r)
    <3>1. PICK lr \in L \X R : Fits(lr[1], lr[2]) /\ x = Made(lr[1], lr[2])
      BY <2>2, <2>4
    <3> QED BY <3>1
  <2>5. x \in ByInfix(table, op, L, R) <=> \E l \in L, r \in R : Fits(l, r) /\ x = Made(l, r)
    BY <2>3, <2>4
  <2> QED BY <2>5 DEF Fits, Made
<1>8. Leading <=> OfPrefix(table, tokens, x, i, j)
  BY <1>2, <1>5 DEF OfPrefix
<1>9. Trailing <=> OfPostfix(table, tokens, x, i, j)
  BY <1>2, <1>6 DEF OfPostfix, IsPost
<1>10. ASSUME NEW k \in i + 1..j - 1
       PROVE  /\ HasInfo(table, tokens[k], "infix")
              /\ x \in ByInfix(table, tokens[k].op, T[<<i, k - 1>>], T[<<k + 1, j>>])
              <=> OfInfix(table, tokens, x, i, j, k)
  BY <1>2, <1>7 DEF OfInfix
<1>11. \A k \in i + 1..j - 1 : i < j
  BY <1>1
<1>12. Between <=> \E k \in i + 1..j - 1 : OfInfix(table, tokens, x, i, j, k)
  BY <1>10, <1>11
<1> HIDE DEF Leading, Trailing, Between
<1> QED BY <1>2, <1>4, <1>8, <1>9, <1>12, Zenon

----------------------------------------------------------------------------
(* What `parse` makes is what the precedences define.                      *)

InfixAt(table, tokens, i) == i <= Len(tokens) /\ HasInfo(table, tokens[i], "infix")
PrecAt(table, tokens, i) == table.info[tokens[i].op].prec

\* A result is a tree of the tokens it has taken, and what follows them is taken by
\* none of its operators.
Reading(table, tokens, wanting, s, min, r) ==
    /\ r.next \in s + 1..Len(tokens) + 1
    /\ r.next <= Len(tokens) => r.next \notin wanting /\ ~IsPost(table, tokens, r.next)
    /\ NotLooser(table, r.tree, min)
    /\ \E d \in TreesOf(table, tokens)[<<s, r.next - 1>>] :
          /\ d.tree = r.tree
          /\ InfixAt(table, tokens, r.next) => \A prec \in d.open : PrecAt(table, tokens, r.next) < prec
    /\ InfixAt(table, tokens, r.next) /\ r.tree.kind = "infix"
          => /\ r.tree.op \in DOMAIN table.info
             /\ PrecAt(table, tokens, r.next) < NextMin(table.info[r.tree.op])
Sound(table, tokens, wanting, s, min, r) ==
    r = Unfolded \/ Reading(table, tokens, wanting, s, min, r)
Stops(table, tokens, min, r) ==
    r # Unfolded /\ InfixAt(table, tokens, r.next) => PrecAt(table, tokens, r.next) < min

Due(tokens, wanting, s) == s \in 1..Len(tokens) + 1 /\ (s <= Len(tokens) => s \in wanting)
SoundAt(table, tokens, wanting, at) ==
    LET r == Climb(table, tokens)[at]
    IN Sound(table, tokens, wanting, at[1], at[2], r) /\ Stops(table, tokens, at[2], r)
SoundFrom(table, tokens, wanting, s) ==
    \A at \in Calls(table, tokens) :
        at[1] > s /\ Due(tokens, wanting, at[1]) => SoundAt(table, tokens, wanting, at)

\* Nodes are of one kind.
LEMMA Nodes ==
    /\ \A op, l, r : Infix(op, l, r).kind = "infix" /\ Infix(op, l, r).op = op
    /\ \A op, o : /\ Prefix(op, o).kind = "prefix"
                  /\ Postfix(op, o).kind = "postfix"
    /\ \A tree, open : Derived(tree, open).tree = tree /\ Derived(tree, open).open = open
BY DEF Infix, Prefix, Postfix, Derived

\* The operand and its postfix operators.
LEMMA WithDerived ==
    ASSUME NEW table, NEW tokens, Foldable(table, tokens), NEW s \in 1..Len(tokens),
           ~IsOp(tokens[s]), NEW many \in Nat, s + many <= Len(tokens),
           \A i \in s + 1..s + many : IsPost(table, tokens, i)
    PROVE  /\ Derived(With(tokens, s, many), {}) \in TreesOf(table, tokens)[<<s, s + many>>]
           /\ With(tokens, s, many).kind \notin {"infix", "prefix"}
<1>1. PICK n : n = Len(tokens) /\ n \in Nat
  BY Tokens
<1> DEFINE Good(m) == /\ Derived(With(tokens, s, m), {}) \in TreesOf(table, tokens)[<<s, s + m>>]
                      /\ With(tokens, s, m).kind \notin {"infix", "prefix"}
           All == {m \in Nat : m <= many => Good(m)}
<1>2. Good(0)
  <2>1. With(tokens, s, 0) = tokens[s] /\ tokens[s].kind \notin {"infix", "prefix"}
    BY <1>1, WithNone, Tokens
  <2>2. s + 0 = s /\ s \in 1..Len(tokens) + 1 /\ s \in 0..Len(tokens)
    BY <1>1
  <2>3. Derived(tokens[s], {}) \in TreesOf(table, tokens)[<<s, s>>]
    BY <2>2, ReadingsOf
  <2> QED BY <2>1, <2>2, <2>3
<1>3. ASSUME NEW m \in Nat, m \in All PROVE m + 1 \in All
  <2> SUFFICES ASSUME m + 1 <= many PROVE Good(m + 1)
    OBVIOUS
  <2>1. Good(m)
    BY <1>3
  <2>2. PICK j : j = s + m + 1
    OBVIOUS
  <2>3. /\ j \in 0..Len(tokens) /\ s \in 1..Len(tokens) + 1 /\ s < j
        /\ j - 1 = s + m /\ s + (m + 1) = j /\ s + m + 1 <= Len(tokens) /\ IsPost(table, tokens, j)
    BY <1>1, <2>2
  <2>4. tokens \in Seq(Range(tokens))
    BY Tokens
  <2>5. With(tokens, s, m + 1) = Postfix(tokens[j].op, With(tokens, s, m))
    BY <2>2, <2>3, <2>4, WithOneMore
  <2>6. PICK o : o = Derived(With(tokens, s, m), {})
    OBVIOUS
  <2>7. o \in TreesOf(table, tokens)[<<s, j - 1>>] /\ o.tree = With(tokens, s, m)
    BY <2>1, <2>3, <2>6, Nodes
  <2>8. OfPostfix(table, tokens, Derived(With(tokens, s, m + 1), {}), s, j)
    BY <2>1, <2>3, <2>5, <2>7 DEF OfPostfix
  <2>9. Derived(With(tokens, s, m + 1), {}) \in TreesOf(table, tokens)[<<s, j>>]
    BY <2>3, <2>8, ReadingsOf
  <2> QED BY <2>3, <2>5, <2>9, Nodes
<1>4. many \in All
  <2> HIDE DEF All
  <2> QED BY <1>2, <1>3, OfApplied!Induction DEF All
<1> QED BY <1>4

\* A prefix operator, once its operand is parsed.
LEMMA UnaryOfPrefix ==
    ASSUME NEW table, NEW tokens, NEW climb, NEW start, ~(start > Len(tokens)), HasPrefix(table, tokens[start]),
           NEW op, op = tokens[start].op, NEW at, at = <<start + 1, table.prefix[op].prec>>
    PROVE  ParseUnary(table, tokens, climb, start)
             = IF climb[at] = Unfolded THEN Unfolded ELSE Parsed(Prefix(op, climb[at].tree), climb[at].next)
BY Zenon DEF ParseUnary

LEMMA UnarySound ==
    ASSUME NEW table, NEW tokens, Foldable(table, tokens), NEW wanting, Alternates(table, tokens, wanting),
           NEW s, Due(tokens, wanting, s), NEW min, SoundFrom(table, tokens, wanting, s)
    PROVE  Sound(table, tokens, wanting, s, min, ParseUnary(table, tokens, Climb(table, tokens), s))
<1>1. PICK n, C, r : n = Len(tokens) /\ n \in Nat /\ C = Climb(table, tokens) /\ r = ParseUnary(table, tokens, C, s)
  BY Tokens
<1>2. s \in 1..n + 1 /\ DOMAIN tokens = 1..n
  BY <1>1, Tokens DEF Due
<1>3. CASE s > n
  BY <1>1, <1>3 DEF ParseUnary, Sound
<1>4. CASE s \in 1..n /\ HasPrefix(table, tokens[s])
  <2>1. PICK op, p, at : op = tokens[s].op /\ p = table.prefix[op].prec /\ at = <<s + 1, p>>
    OBVIOUS
  <2>2. at \in Calls(table, tokens) /\ at[1] = s + 1 /\ at[2] = p /\ s + 1 > s
    BY <1>1, <1>4, <2>1, Tiers DEF Calls
  <2>3. s + 1 <= n => s + 1 \in wanting
    BY <1>1, <1>2, <1>4 DEF Alternates, Due, HasPrefix
  <2>4. Sound(table, tokens, wanting, s + 1, p, C[at]) /\ Stops(table, tokens, p, C[at])
    <3>1. Due(tokens, wanting, s + 1)
      BY <1>1, <1>4, <2>3 DEF Due
    <3>2. SoundAt(table, tokens, wanting, at)
      BY <2>2, <3>1 DEF SoundFrom
    <3>3. Sound(table, tokens, wanting, at[1], at[2], C[at]) /\ Stops(table, tokens, at[2], C[at])
      BY <1>1, <3>2, Zenon DEF SoundAt
    <3> QED BY <2>2, <3>3
  <2>5. r = IF C[at] = Unfolded THEN Unfolded ELSE Parsed(Prefix(op, C[at].tree), C[at].next)
    <3>1. ~(s > Len(tokens))
      BY <1>1, <1>4
    <3> QED BY <1>1, <1>4, <2>1, <3>1, UnaryOfPrefix
  <2>6. SUFFICES ASSUME C[at] # Unfolded PROVE Reading(table, tokens, wanting, s, min, r)
    BY <1>1, <2>5 DEF Sound
  <2>7. PICK t, next : t = C[at].tree /\ next = C[at].next
    OBVIOUS
  <2>8. r.tree = Prefix(op, t) /\ r.next = next
    BY <2>5, <2>6, <2>7, Outcomes
  <2>9. Reading(table, tokens, wanting, s + 1, p, C[at])
    BY <2>4, <2>6 DEF Sound
  <2>10. PICK o \in TreesOf(table, tokens)[<<s + 1, next - 1>>] :
            /\ o.tree = t
            /\ InfixAt(table, tokens, next) => \A prec \in o.open : PrecAt(table, tokens, next) < prec
    BY <2>7, <2>9 DEF Reading
  <2>11. /\ next \in s + 2..n + 1 /\ NotLooser(table, t, p)
         /\ next <= n => next \notin wanting /\ ~IsPost(table, tokens, next)
    BY <1>1, <1>2, <2>7, <2>9 DEF Reading
  <2>12. InfixAt(table, tokens, next) => PrecAt(table, tokens, next) < p
    BY <2>4, <2>6, <2>7 DEF Stops
  <2>13. PICK d : d = Derived(Prefix(op, t), o.open \cup {p})
    OBVIOUS
  <2>14. d.tree = r.tree /\ d.open = o.open \cup {p} /\ r.tree.kind = "prefix"
    BY <2>8, <2>13, Nodes
  <2>15. OfPrefix(table, tokens, d, s, next - 1)
    <3>1. s < next - 1
      BY <1>4, <2>11
    <3>2. NotLooser(table, o.tree, table.prefix[tokens[s].op].prec)
      BY <2>1, <2>10, <2>11
    <3>3. d = Derived(Prefix(tokens[s].op, o.tree), o.open \cup {table.prefix[tokens[s].op].prec})
      BY <2>1, <2>10, <2>13
    <3> QED BY <1>4, <2>10, <3>1, <3>2, <3>3, Zenon DEF OfPrefix
  <2>16. d \in TreesOf(table, tokens)[<<s, next - 1>>]
    BY <1>1, <1>2, <2>11, <2>15, ReadingsOf
  <2>17. InfixAt(table, tokens, next) => \A prec \in d.open : PrecAt(table, tokens, next) < prec
    BY <2>10, <2>12, <2>14
  <2>18. NotLooser(table, r.tree, min)
    BY <2>14 DEF NotLooser
  <2>19. next \in s + 1..Len(tokens) + 1
    BY <1>1, <1>2, <2>11
  <2> QED BY <1>1, <2>8, <2>11, <2>14, <2>16, <2>17, <2>18, <2>19 DEF Reading
<1>5. CASE s \in 1..n /\ ~HasPrefix(table, tokens[s])
  <2>1. s \in wanting /\ ~IsOp(tokens[s])
    BY <1>1, <1>2, <1>5 DEF Due, Alternates
  <2>2. r = WithPostfix(table, tokens, s)
    BY <1>1, <1>5, <2>1 DEF ParseUnary
  <2>3. PICK next \in s + 1..n + 1 :
           /\ \A i \in s + 1..next - 1 : IsPost(table, tokens, i)
           /\ next <= n => ~IsPost(table, tokens, next)
           /\ r = Parsed(With(tokens, s, next - 1 - s), next)
    BY <1>1, <1>5, <2>2, PostfixesEnd
  <2>4. PICK many, d : many = next - 1 - s /\ d = Derived(With(tokens, s, many), {})
    OBVIOUS
  <2>5. many \in Nat /\ s + many = next - 1 /\ next - 1 <= n
    BY <1>1, <1>5, <2>4
  <2>6. d \in TreesOf(table, tokens)[<<s, next - 1>>] /\ With(tokens, s, many).kind \notin {"infix", "prefix"}
    BY <1>1, <1>5, <2>1, <2>3, <2>4, <2>5, WithDerived
  <2>7. r.tree = With(tokens, s, many) /\ r.next = next /\ d.tree = r.tree /\ d.open = {} /\ r # Unfolded
    BY <2>3, <2>4, Outcomes, Nodes
  <2>8. next <= n => next \notin wanting
    <3> DEFINE Out == {k \in Nat : s + 1 + k <= next /\ s + 1 + k <= n => s + 1 + k \notin wanting}
    <3>1. 0 \in Out
      BY <1>1, <1>2, <1>5, <2>1 DEF Alternates
    <3>2. ASSUME NEW k \in Nat, k \in Out PROVE k + 1 \in Out
      <4> SUFFICES ASSUME s + 1 + (k + 1) <= next, s + 1 + (k + 1) <= n
                   PROVE s + 1 + (k + 1) \notin wanting
        OBVIOUS
      <4>1. PICK i : i = s + 1 + k
        OBVIOUS
      <4>2. i \in DOMAIN tokens /\ i + 1 \in DOMAIN tokens /\ i + 1 = s + 1 + (k + 1)
            /\ i \in s + 1..next - 1 /\ i \notin wanting
        BY <1>1, <1>2, <1>5, <3>2, <4>1
      <4>3. ~HasInfo(table, tokens[i], "infix")
        BY <2>3, <4>2 DEF IsPost, HasInfo
      <4> QED BY <4>2, <4>3 DEF Alternates
    <3>3. \A k \in Nat : k \in Out
      <4> HIDE DEF Out
      <4> QED BY <3>1, <3>2, OfApplied!Induction
    <3>4. many \in Out /\ s + 1 + many = next
      <4>1. s + 1 + many = next
        BY <1>1, <1>5, <2>4
      <4> HIDE DEF Out
      <4> QED BY <2>5, <3>3, <4>1
    <3> QED BY <3>4, <2>5
  <2>9. NotLooser(table, r.tree, min) /\ r.tree.kind # "infix"
    BY <2>6, <2>7 DEF NotLooser
  <2>10. Reading(table, tokens, wanting, s, min, r)
    BY <1>1, <2>3, <2>6, <2>7, <2>8, <2>9 DEF Reading
  <2> QED BY <1>1, <2>10 DEF Sound
<1> QED BY <1>1, <1>2, <1>3, <1>4, <1>5

\* The operator whose right operand is parsed next, and the parse of it.
LEMMA TakenOperator ==
    ASSUME NEW table, NEW tokens, Foldable(table, tokens), NEW min, NEW k \in Nat, NEW lhs,
           k = lhs.next, TakesInfix(table, tokens, min, lhs)
    PROVE  LET op == tokens[k].op
               info == table.info[op]
           IN  /\ k <= Len(tokens) /\ HasInfo(table, tokens[k], "infix")
               /\ op \in DOMAIN table.info /\ info.prec >= min /\ PrecAt(table, tokens, k) = info.prec
               /\ k >= 1 => InfixAt(table, tokens, k) /\ <<k + 1, NextMin(info)>> \in Calls(table, tokens)
<1>1. k <= Len(tokens) /\ HasInfo(table, tokens[k], "infix") /\ table.info[tokens[k].op].prec >= min
  BY DEF TakesInfix
<1>2. tokens[k].op \in DOMAIN table.info
  BY <1>1 DEF HasInfo
<1>3. NextMin(table.info[tokens[k].op]) \in Mins(table)
  BY <1>2, Tiers
<1>4. Len(tokens) \in Nat
  BY Tokens
<1>5. k >= 1 => k \in 1..Len(tokens) /\ k + 1 \in 1..Len(tokens) + 1
  BY <1>1, <1>4
<1>6. k >= 1 => InfixAt(table, tokens, k)
  BY <1>1, <1>5 DEF InfixAt
<1>7. k >= 1 => <<k + 1, NextMin(table.info[tokens[k].op])>> \in Calls(table, tokens)
  BY <1>3, <1>5 DEF Calls
<1> QED BY <1>1, <1>2, <1>6, <1>7 DEF PrecAt

LEMMA ExtendSound ==
    ASSUME NEW table, NEW tokens, Foldable(table, tokens), NEW wanting, Alternates(table, tokens, wanting),
           NEW s, Due(tokens, wanting, s), NEW min \in Mins(table), SoundFrom(table, tokens, wanting, s),
           NEW lhs, Reading(table, tokens, wanting, s, min, lhs), TakesInfix(table, tokens, min, lhs)
    PROVE  LET r == Extend(table, tokens, Climb(table, tokens), min, lhs)
           IN  /\ Sound(table, tokens, wanting, s, min, r)
               /\ r # Unfolded => r.next > lhs.next + 1
<1>1. PICK n, C, r : n = Len(tokens) /\ n \in Nat /\ C = Climb(table, tokens) /\ r = Extend(table, tokens, C, min, lhs)
  BY Tokens
<1>2. s \in 1..n + 1 /\ DOMAIN tokens = 1..n
  BY <1>1, Tokens DEF Due
<1>3. PICK k, op, info, at :
         k = lhs.next /\ op = tokens[k].op /\ info = table.info[op] /\ at = <<k + 1, NextMin(info)>>
  OBVIOUS
<1>4. /\ k \in s + 1..n /\ HasInfo(table, tokens[k], "infix") /\ op \in DOMAIN table.info /\ info.prec >= min
      /\ InfixAt(table, tokens, k) /\ PrecAt(table, tokens, k) = info.prec
  <2>1. k \in s + 1..n + 1
    BY <1>1, <1>3 DEF Reading
  <2>2. k \in Nat /\ k >= 1
    BY <1>1, <1>2, <2>1
  <2>3. /\ k <= Len(tokens) /\ HasInfo(table, tokens[k], "infix") /\ op \in DOMAIN table.info
        /\ info.prec >= min /\ PrecAt(table, tokens, k) = info.prec /\ InfixAt(table, tokens, k)
    BY <1>3, <2>2, TakenOperator
  <2>4. k \in s + 1..n
    BY <1>1, <1>2, <2>1, <2>3
  <2> QED BY <2>3, <2>4
<1>5. at \in Calls(table, tokens) /\ at[1] = k + 1 /\ at[2] = NextMin(info) /\ k + 1 > s
  <2>1. k \in Nat /\ k >= 1 /\ k + 1 > s
    BY <1>1, <1>2, <1>4
  <2>2. <<k + 1, NextMin(info)>> \in Calls(table, tokens)
    BY <1>3, <2>1, TakenOperator
  <2> QED BY <1>3, <2>1, <2>2
<1>6. k \notin wanting
  <2>1. lhs.next <= Len(tokens) => lhs.next \notin wanting
    BY DEF Reading
  <2>2. k <= Len(tokens)
    BY <1>1, <1>2, <1>4
  <2> QED BY <1>3, <2>1, <2>2
<1>7. k + 1 <= n => k + 1 \in wanting
  BY <1>1, <1>2, <1>4, <1>6 DEF Alternates
<1>8. Sound(table, tokens, wanting, k + 1, NextMin(info), C[at]) /\ Stops(table, tokens, NextMin(info), C[at])
  BY <1>1, <1>2, <1>4, <1>5, <1>7 DEF SoundFrom, SoundAt, Due
<1>9. r = IF C[at] = Unfolded THEN Unfolded ELSE Parsed(Infix(op, lhs.tree, C[at].tree), C[at].next)
  BY <1>1, <1>3 DEF Extend
<1>10. SUFFICES ASSUME C[at] # Unfolded
                PROVE  Reading(table, tokens, wanting, s, min, r) /\ r.next > k + 1
  BY <1>1, <1>3, <1>9 DEF Sound
<1>11. PICK t, next : t = C[at].tree /\ next = C[at].next
  OBVIOUS
<1>12. r.tree = Infix(op, lhs.tree, t) /\ r.next = next /\ r.tree.kind = "infix" /\ r.tree.op = op
  BY <1>9, <1>10, <1>11, Outcomes, Nodes
<1>13. Reading(table, tokens, wanting, k + 1, NextMin(info), C[at])
  BY <1>8, <1>10 DEF Sound
<1>14. PICK l \in TreesOf(table, tokens)[<<s, k - 1>>] :
          l.tree = lhs.tree /\ \A prec \in l.open : info.prec < prec
  BY <1>3, <1>4 DEF Reading
<1>15. PICK o \in TreesOf(table, tokens)[<<k + 1, next - 1>>] :
          /\ o.tree = t
          /\ InfixAt(table, tokens, next) => \A prec \in o.open : PrecAt(table, tokens, next) < prec
  BY <1>11, <1>13 DEF Reading
<1>16. /\ next \in k + 2..n + 1 /\ NotLooser(table, t, NextMin(info))
       /\ next <= n => next \notin wanting /\ ~IsPost(table, tokens, next)
  BY <1>1, <1>2, <1>4, <1>11, <1>13 DEF Reading
<1>17. InfixAt(table, tokens, next) => PrecAt(table, tokens, next) < NextMin(info)
  BY <1>8, <1>10, <1>11 DEF Stops
<1>18. NotLooser(table, lhs.tree, LeastOnLeft(info))
  <2> SUFFICES ASSUME lhs.tree.kind = "infix" PROVE table.info[lhs.tree.op].prec >= LeastOnLeft(info)
    BY DEF NotLooser
  <2>1. lhs.tree.op \in DOMAIN table.info /\ info.prec < NextMin(table.info[lhs.tree.op])
    BY <1>3, <1>4 DEF Reading
  <2> QED BY <1>3, <1>4, <2>1, Tiers
<1>19. PICK d : d = Derived(Infix(op, l.tree, o.tree), o.open)
  OBVIOUS
<1>20. d.tree = r.tree /\ d.open = o.open
  BY <1>12, <1>14, <1>15, <1>19, Nodes
<1>21. OfInfix(table, tokens, d, s, next - 1, k)
  <2>1. k \in s + 1..(next - 1) - 1
    BY <1>1, <1>2, <1>4, <1>16
  <2>2. NotLooser(table, l.tree, LeastOnLeft(table.info[tokens[k].op]))
    BY <1>3, <1>14, <1>18
  <2>3. \A prec \in l.open : table.info[tokens[k].op].prec < prec
    BY <1>3, <1>14
  <2>4. NotLooser(table, o.tree, NextMin(table.info[tokens[k].op]))
    BY <1>3, <1>15, <1>16
  <2>5. d = Derived(Infix(tokens[k].op, l.tree, o.tree), o.open)
    BY <1>3, <1>19
  <2> QED BY <1>4, <2>1, <2>2, <2>3, <2>4, <2>5, Zenon DEF OfInfix
<1>22. d \in TreesOf(table, tokens)[<<s, next - 1>>]
  <2>1. s \in 1..Len(tokens) + 1 /\ next - 1 \in 0..Len(tokens)
    BY <1>1, <1>2, <1>4, <1>16
  <2>2. k \in s + 1..(next - 1) - 1
    BY <1>21 DEF OfInfix
  <2> QED BY <1>21, <2>1, <2>2, ReadingsOf
<1>23. NotLooser(table, r.tree, min)
  BY <1>3, <1>4, <1>12 DEF NotLooser
<1>24. next \in s + 1..Len(tokens) + 1 /\ next > k + 1
  BY <1>1, <1>2, <1>4, <1>16
<1>25. Reading(table, tokens, wanting, s, min, r)
  BY <1>1, <1>3, <1>4, <1>12, <1>15, <1>16, <1>17, <1>20, <1>22, <1>23, <1>24 DEF Reading
<1> QED BY <1>12, <1>24, <1>25

\* The loop ends: each round that goes on takes an operator.
LEMMA RoundsSound ==
    ASSUME NEW table, NEW tokens, Foldable(table, tokens), NEW wanting, Alternates(table, tokens, wanting),
           NEW s, Due(tokens, wanting, s), NEW min \in Mins(table), SoundFrom(table, tokens, wanting, s)
    PROVE  LET r == Rounds(table, tokens, Climb(table, tokens), s, min)[LastRound(tokens, s)]
           IN  Sound(table, tokens, wanting, s, min, r) /\ ~TakesInfix(table, tokens, min, r)
<1>1. PICK n, C, lhs : /\ n = Len(tokens) /\ n \in Nat /\ C = Climb(table, tokens)
                       /\ lhs = Rounds(table, tokens, C, s, min)
  BY Tokens
<1>2. s \in 1..n + 1
  BY <1>1 DEF Due
<1>8. PICK last : last = LastRound(tokens, s) /\ last \in 0..n /\ 2 * last >= n - s
  BY <1>1, <1>2, LastRoundIs
<1>3. /\ lhs[0] = ParseUnary(table, tokens, C, s)
      /\ \A k \in 1..n : lhs[k] = Extend(table, tokens, C, min, lhs[k - 1])
  BY <1>1, RoundByRound
<1> DEFINE Good(k) == /\ Sound(table, tokens, wanting, s, min, lhs[k])
                      /\ TakesInfix(table, tokens, min, lhs[k]) => lhs[k].next > s + 2 * k
           All == {k \in Nat : k <= n => Good(k)}
<1>4. Good(0)
  <2>1. Sound(table, tokens, wanting, s, min, lhs[0])
    BY <1>1, <1>3, UnarySound
  <2>2. ASSUME TakesInfix(table, tokens, min, lhs[0]) PROVE lhs[0].next > s + 2 * 0
    <3>1. Reading(table, tokens, wanting, s, min, lhs[0])
      BY <2>1, <2>2 DEF Sound, TakesInfix
    <3>2. lhs[0].next \in s + 1..Len(tokens) + 1
      BY <3>1, Zenon DEF Reading
    <3> QED BY <1>1, <1>2, <3>2
  <2> QED BY <2>1, <2>2
<1>5. ASSUME NEW k \in Nat, k \in All PROVE k + 1 \in All
  <2> SUFFICES ASSUME k + 1 <= n PROVE Good(k + 1)
    OBVIOUS
  <2>1. Good(k) /\ k + 1 \in 1..n /\ (k + 1) - 1 = k
    BY <1>1, <1>5
  <2>2. lhs[k + 1] = Extend(table, tokens, C, min, lhs[k])
    BY <1>3, <2>1
  <2>3. CASE ~TakesInfix(table, tokens, min, lhs[k])
    <3>1. lhs[k + 1] = lhs[k]
      BY <2>2, <2>3 DEF Extend
    <3> QED BY <2>1, <2>3, <3>1
  <2>4. CASE TakesInfix(table, tokens, min, lhs[k])
    <3>1. Reading(table, tokens, wanting, s, min, lhs[k])
      BY <2>1, <2>4 DEF Sound, TakesInfix
    <3>2. /\ Sound(table, tokens, wanting, s, min, lhs[k + 1])
          /\ lhs[k + 1] # Unfolded => lhs[k + 1].next > lhs[k].next + 1
      BY <1>1, <2>2, <2>4, <3>1, ExtendSound
    <3>3. lhs[k].next \in s + 1..n + 1 /\ lhs[k].next > s + 2 * k
      BY <1>1, <2>1, <2>4, <3>1 DEF Reading
    <3>4. ASSUME TakesInfix(table, tokens, min, lhs[k + 1]) PROVE lhs[k + 1].next > s + 2 * (k + 1)
      <4>1. lhs[k + 1] # Unfolded
        BY <3>4 DEF TakesInfix
      <4>2. lhs[k + 1].next \in s + 1..n + 1
        BY <1>1, <3>2, <4>1 DEF Sound, Reading
      <4>3. lhs[k + 1].next > lhs[k].next + 1
        BY <3>2, <4>1
      <4>4. lhs[k + 1].next \in Nat /\ lhs[k].next \in Nat /\ s \in Nat
        BY <1>1, <1>2, <3>3, <4>2
      <4> QED BY <3>3, <4>3, <4>4
    <3> QED BY <3>2, <3>4
  <2> QED BY <2>3, <2>4
<1>6. Good(last)
  <2>1. last \in All
    <3> HIDE DEF All
    <3>1. 0 \in All
      BY <1>4 DEF All
    <3> QED BY <1>1, <1>5, <1>8, <3>1, OfApplied!Induction
  <2> QED BY <1>1, <1>8, <2>1
<1>7. ~TakesInfix(table, tokens, min, lhs[last])
  <2> SUFFICES ASSUME TakesInfix(table, tokens, min, lhs[last]) PROVE FALSE
    OBVIOUS
  <2>1. lhs[last].next <= n /\ lhs[last].next > s + 2 * last /\ lhs[last] # Unfolded
    BY <1>1, <1>6, <1>8 DEF TakesInfix
  <2>2. lhs[last].next \in s + 1..n + 1
    BY <1>1, <1>6, <2>1 DEF Sound, Reading
  <2> QED BY <1>1, <1>2, <1>8, <2>1, <2>2
<1> QED BY <1>1, <1>6, <1>7, <1>8

LEMMA ClimbSound ==
    ASSUME NEW table, NEW tokens, Foldable(table, tokens), NEW wanting, Alternates(table, tokens, wanting)
    PROVE  SoundFrom(table, tokens, wanting, 0)
<1>1. PICK n : n = Len(tokens) /\ n \in Nat
  BY Tokens
<1> DEFINE Good == {k \in Nat : k <= n + 1 => SoundFrom(table, tokens, wanting, n + 1 - k)}
<1>2. 0 \in Good
  <2>1. \A at \in Calls(table, tokens) : ~(at[1] > n + 1 - 0)
    BY <1>1 DEF Calls
  <2> QED BY <2>1 DEF SoundFrom
<1>3. ASSUME NEW k \in Nat, k \in Good PROVE k + 1 \in Good
  <2> SUFFICES ASSUME k + 1 <= n + 1 PROVE SoundFrom(table, tokens, wanting, n + 1 - (k + 1))
    OBVIOUS
  <2>1. PICK s : s = n + 1 - k
    OBVIOUS
  <2>2. s \in 1..n + 1 /\ s \in Nat /\ n + 1 - (k + 1) = s - 1 /\ SoundFrom(table, tokens, wanting, s)
    BY <1>1, <1>3, <2>1
  <2>3. ASSUME NEW at \in Calls(table, tokens), at[1] > s - 1, Due(tokens, wanting, at[1])
        PROVE  SoundAt(table, tokens, wanting, at)
    <3>1. CASE at[1] > s
      BY <2>2, <2>3, <3>1 DEF SoundFrom
    <3>2. CASE ~(at[1] > s)
      <4>1. at[1] = s /\ at[2] \in Mins(table)
        BY <1>1, <2>2, <2>3, <3>2 DEF Calls
      <4>2. PICK r, min : r = Climb(table, tokens)[at] /\ min = at[2]
        OBVIOUS
      <4>3. r = Rounds(table, tokens, Climb(table, tokens), s, min)[LastRound(tokens, s)]
        BY <2>3, <4>1, <4>2, ClimbIs
      <4>4. Sound(table, tokens, wanting, s, min, r) /\ ~TakesInfix(table, tokens, min, r)
        BY <2>2, <2>3, <4>1, <4>2, <4>3, RoundsSound
      <4>5. Stops(table, tokens, min, r)
        <5> SUFFICES ASSUME r # Unfolded, InfixAt(table, tokens, r.next) PROVE PrecAt(table, tokens, r.next) < min
          BY DEF Stops
        <5>1. /\ tokens[r.next].op \in DOMAIN table.info
              /\ ~(table.info[tokens[r.next].op].prec >= min)
          BY <4>4 DEF TakesInfix, InfixAt, HasInfo
        <5>2. table.info[tokens[r.next].op].prec \in Nat /\ min \in Nat
          BY <4>1, <4>2, <5>1, Tiers
        <5> QED BY <5>1, <5>2 DEF PrecAt
      <4> QED BY <4>1, <4>2, <4>4, <4>5 DEF SoundAt
    <3> QED BY <3>1, <3>2
  <2> QED BY <2>2, <2>3 DEF SoundFrom
<1>4. n + 1 \in Good
  <2> HIDE DEF Good
  <2> QED BY <1>1, <1>2, <1>3, OfApplied!Induction
<1> QED BY <1>1, <1>4

----------------------------------------------------------------------------
(* What the precedences define is what `parse` makes.                      *)

\* What is looser than the bound an operator keeps is looser than its operand may be.
LEMMA LooserThanNext ==
    ASSUME NEW entry, entry.prec \in Nat, NEW bound \in Nat, entry.prec >= bound,
           NEW prec \in Nat, prec < bound
    PROVE  prec < NextMin(entry)
<1>1. PICK own : own = entry.prec
  OBVIOUS
<1>2. prec < own /\ prec < own + 1 /\ own \in Nat
  BY <1>1
<1> QED BY <1>1, <1>2 DEF NextMin

LEMMA LeftTiers ==
    ASSUME NEW table, NEW tokens, Foldable(table, tokens), NEW o \in DOMAIN table.info, NEW p \in DOMAIN table.info,
           table.info[p].prec >= LeastOnLeft(table.info[o])
    PROVE  table.info[o].prec < NextMin(table.info[p]) /\ table.info[p].prec >= table.info[o].prec
<1>1. table.info[o].prec \in Nat /\ table.info[p].prec \in Nat
  BY Tiers
<1>2. table.info[o].prec = table.info[p].prec => table.info[o].assoc = table.info[p].assoc
  BY DEF Foldable, IsTable
<1> QED BY <1>1, <1>2 DEF NextMin, LeastOnLeft

\* The kind of a tree tells how it was read.
LEMMA KindsOf ==
    ASSUME NEW table, NEW tokens, NEW x, NEW i, NEW j
    PROVE  /\ OfPrefix(table, tokens, x, i, j) => x.tree.kind = "prefix"
           /\ OfPostfix(table, tokens, x, i, j) => x.tree.kind = "postfix"
           /\ \A k : OfInfix(table, tokens, x, i, j, k) => x.tree.kind = "infix" /\ x.tree.op = tokens[k].op
<1>1. ASSUME OfPrefix(table, tokens, x, i, j) PROVE x.tree.kind = "prefix"
  <2>1. PICK o, open : x = Derived(Prefix(tokens[i].op, o.tree), open)
    BY <1>1, Zenon DEF OfPrefix
  <2> QED BY <2>1, Nodes
<1>2. ASSUME OfPostfix(table, tokens, x, i, j) PROVE x.tree.kind = "postfix"
  <2>1. PICK o : x = Derived(Postfix(tokens[j].op, o.tree), {})
    BY <1>2, Zenon DEF OfPostfix
  <2> QED BY <2>1, Nodes
<1>3. ASSUME NEW k, OfInfix(table, tokens, x, i, j, k)
      PROVE  x.tree.kind = "infix" /\ x.tree.op = tokens[k].op
  <2>1. PICK l, r : x = Derived(Infix(tokens[k].op, l.tree, r.tree), r.open)
    BY <1>3, Zenon DEF OfInfix
  <2> QED BY <2>1, Nodes
<1> QED BY <1>1, <1>2, <1>3

LEMMA InfixTrees ==
    ASSUME NEW table, NEW tokens, Foldable(table, tokens),
           NEW i \in 1..Len(tokens), NEW j \in 1..Len(tokens),
           NEW x \in TreesOf(table, tokens)[<<i, j>>], x.tree.kind = "infix"
    PROVE  x.tree.op \in DOMAIN table.info
<1>1. i \in 1..Len(tokens) + 1 /\ j \in 0..Len(tokens)
  BY Tokens
<1>2. ~(i = j /\ ~IsOp(tokens[i]) /\ x = Derived(tokens[i], {}))
  BY Tokens, Nodes
<1>3. ~OfPrefix(table, tokens, x, i, j) /\ ~OfPostfix(table, tokens, x, i, j)
  BY KindsOf
<1>4. PICK k \in i + 1..j - 1 : OfInfix(table, tokens, x, i, j, k)
  BY <1>1, <1>2, <1>3, ReadingsOf
<1>5. HasInfo(table, tokens[k], "infix")
  BY <1>4, Zenon DEF OfInfix
<1>6. x.tree.op = tokens[k].op
  BY <1>4, KindsOf
<1> QED BY <1>5, <1>6 DEF HasInfo

\* A tree of neither kind is an operand with postfix operators.
LEMMA Operands ==
    ASSUME NEW table, NEW tokens, Foldable(table, tokens), NEW i \in 1..Len(tokens), NEW many \in Nat,
           i + many <= Len(tokens), NEW x \in TreesOf(table, tokens)[<<i, i + many>>],
           x.tree.kind \notin {"infix", "prefix"}
    PROVE  /\ ~IsOp(tokens[i]) /\ x.tree = With(tokens, i, many)
           /\ \A k \in i + 1..i + many : IsPost(table, tokens, k)
<1>1. PICK n : n = Len(tokens) /\ n \in Nat
  BY Tokens
<1> DEFINE Good(m) == \A y \in TreesOf(table, tokens)[<<i, i + m>>] :
                         y.tree.kind \notin {"infix", "prefix"} =>
                            /\ ~IsOp(tokens[i]) /\ y.tree = With(tokens, i, m)
                            /\ \A k \in i + 1..i + m : IsPost(table, tokens, k)
           All == {m \in Nat : i + m <= n => Good(m)}
<1>2. \A m \in Nat : \A y : i + m <= n /\ y \in TreesOf(table, tokens)[<<i, i + m>>]
                           /\ y.tree.kind \notin {"infix", "prefix"}
         => \/ i = i + m /\ ~IsOp(tokens[i]) /\ y = Derived(tokens[i], {})
            \/ OfPostfix(table, tokens, y, i, i + m)
  <2> TAKE m \in Nat
  <2> TAKE y
  <2> SUFFICES ASSUME i + m <= n, y \in TreesOf(table, tokens)[<<i, i + m>>],
                      y.tree.kind \notin {"infix", "prefix"}
               PROVE  \/ i = i + m /\ ~IsOp(tokens[i]) /\ y = Derived(tokens[i], {})
                      \/ OfPostfix(table, tokens, y, i, i + m)
    OBVIOUS
  <2>1. ~OfPrefix(table, tokens, y, i, i + m)
    BY KindsOf
  <2>2. \A k : ~OfInfix(table, tokens, y, i, i + m, k)
    BY KindsOf
  <2>3. PICK j : j = i + m
    OBVIOUS
  <2>4. i \in 1..Len(tokens) + 1 /\ j \in 0..Len(tokens)
    BY <1>1, <2>3
  <2>5. \/ i = j /\ ~IsOp(tokens[i]) /\ y = Derived(tokens[i], {})
        \/ OfPrefix(table, tokens, y, i, j)
        \/ OfPostfix(table, tokens, y, i, j)
        \/ \E k \in i + 1..j - 1 : OfInfix(table, tokens, y, i, j, k)
    BY <2>3, <2>4, ReadingsOf
  <2> QED BY <2>1, <2>2, <2>3, <2>5
<1>3. Good(0)
  <2> TAKE y \in TreesOf(table, tokens)[<<i, i + 0>>]
  <2> HAVE y.tree.kind \notin {"infix", "prefix"}
  <2>1. 0 \in Nat /\ i + 0 <= n /\ ~(i < i + 0) /\ i + 0 = i
    BY <1>1
  <2>2. ~OfPostfix(table, tokens, y, i, i + 0)
    BY <2>1 DEF OfPostfix
  <2>3. ~IsOp(tokens[i]) /\ y = Derived(tokens[i], {})
    BY <1>2, <2>1, <2>2
  <2>4. With(tokens, i, 0) = tokens[i]
    BY <1>1, WithNone, Tokens
  <2> QED BY <2>1, <2>3, <2>4, Nodes
<1>4. ASSUME NEW m \in Nat, m \in All PROVE m + 1 \in All
  <2> HIDE DEF Good
  <2>1. i + m <= n => Good(m)
    BY <1>4
  <2> SUFFICES ASSUME i + (m + 1) <= n PROVE Good(m + 1)
    OBVIOUS
  <2>2. i + m <= n
    BY <1>1
  <2>3. Good(m)
    BY <2>1, <2>2
  <2> USE DEF Good
  <2>4. PICK j : j = i + m + 1
    OBVIOUS
  <2>5. j \in Nat /\ j - 1 = i + m /\ i + (m + 1) = j /\ i # j /\ i + m + 1 <= Len(tokens) /\ m + 1 \in Nat
    BY <1>1, <2>4
  <2> SUFFICES ASSUME NEW y \in TreesOf(table, tokens)[<<i, j>>], y.tree.kind \notin {"infix", "prefix"}
               PROVE  /\ ~IsOp(tokens[i]) /\ y.tree = With(tokens, i, m + 1)
                      /\ \A k \in i + 1..j : IsPost(table, tokens, k)
    BY <2>5
  <2>6. OfPostfix(table, tokens, y, i, j)
    <3>1. i + (m + 1) <= n /\ y \in TreesOf(table, tokens)[<<i, i + (m + 1)>>] /\ m + 1 \in Nat
      BY <2>5
    <3> QED BY <1>2, <2>5, <3>1
  <2>7. /\ IsPost(table, tokens, j)
        /\ \E o \in TreesOf(table, tokens)[<<i, j - 1>>] :
              /\ o.tree.kind \notin {"infix", "prefix"}
              /\ y = Derived(Postfix(tokens[j].op, o.tree), {})
    BY <2>6 DEF OfPostfix
  <2>8. PICK o \in TreesOf(table, tokens)[<<i, i + m>>] :
              /\ o.tree.kind \notin {"infix", "prefix"}
              /\ y = Derived(Postfix(tokens[j].op, o.tree), {})
    BY <2>5, <2>7
  <2>9. /\ ~IsOp(tokens[i]) /\ o.tree = With(tokens, i, m)
        /\ \A k \in i + 1..i + m : IsPost(table, tokens, k)
    BY <2>3, <2>8
  <2>10. y.tree = Postfix(tokens[j].op, o.tree)
    BY <2>8, Nodes
  <2>11. tokens \in Seq(Range(tokens))
    BY Tokens
  <2>12. With(tokens, i, m + 1) = Postfix(tokens[j].op, With(tokens, i, m))
    BY <2>4, <2>5, <2>11, WithOneMore
  <2>13. \A k \in i + 1..j : k = j \/ k \in i + 1..i + m
    BY <2>5
  <2> QED BY <2>7, <2>9, <2>10, <2>12, <2>13
<1>5. many \in All
  <2> HIDE DEF All
  <2>1. 0 \in All
    BY <1>3 DEF All
  <2> QED BY <1>4, <2>1, OfApplied!Induction
<1> QED BY <1>1, <1>5

\* What stops the loop is what it ends with.
LEMMA Stuck ==
    ASSUME NEW table, NEW tokens, Foldable(table, tokens), NEW s \in 1..Len(tokens) + 1, NEW min \in Mins(table),
           NEW k \in 0..LastRound(tokens, s),
           ~TakesInfix(table, tokens, min, Rounds(table, tokens, Climb(table, tokens), s, min)[k])
    PROVE  Climb(table, tokens)[<<s, min>>] = Rounds(table, tokens, Climb(table, tokens), s, min)[k]
<1>1. PICK n, C, lhs : /\ n = Len(tokens) /\ n \in Nat /\ C = Climb(table, tokens)
                       /\ lhs = Rounds(table, tokens, C, s, min)
  BY Tokens
<1>8. PICK last : last = LastRound(tokens, s) /\ last \in 0..n
  BY <1>1, LastRoundIs
<1>2. \A m \in 1..n : lhs[m] = Extend(table, tokens, C, min, lhs[m - 1])
  BY <1>1, RoundByRound
<1> DEFINE All == {m \in Nat : k + m <= last => lhs[k + m] = lhs[k]}
<1>3. 0 \in All
  OBVIOUS
<1>4. ASSUME NEW m \in Nat, m \in All PROVE m + 1 \in All
  <2> SUFFICES ASSUME k + (m + 1) <= last PROVE lhs[k + (m + 1)] = lhs[k]
    OBVIOUS
  <2>1. lhs[k + m] = lhs[k] /\ k + (m + 1) \in 1..n /\ (k + (m + 1)) - 1 = k + m
    BY <1>1, <1>4, <1>8
  <2>2. lhs[k + (m + 1)] = Extend(table, tokens, C, min, lhs[k])
    BY <1>2, <2>1
  <2> QED BY <1>1, <2>2 DEF Extend
<1>5. last - k \in All
  <2>1. last - k \in Nat
    BY <1>1, <1>8
  <2> HIDE DEF All
  <2> QED BY <1>3, <1>4, <2>1, OfApplied!Induction
<1>6. lhs[last] = lhs[k]
  BY <1>1, <1>5, <1>8
<1>7. C[<<s, min>>] = lhs[last]
  <2>1. <<s, min>> \in Calls(table, tokens) /\ <<s, min>>[1] = s /\ <<s, min>>[2] = min
    BY DEF Calls
  <2> QED BY <1>1, <1>8, <2>1, ClimbIs
<1> QED BY <1>1, <1>6, <1>7

\* No operator of a tree can take what follows it.
Closed(table, tokens, x, j) ==
    /\ j + 1 <= Len(tokens) => ~IsPost(table, tokens, j + 1)
    /\ InfixAt(table, tokens, j + 1)
          => /\ \A prec \in x.open : PrecAt(table, tokens, j + 1) < prec
             /\ x.tree.kind = "infix"
                   => PrecAt(table, tokens, j + 1) < NextMin(table.info[x.tree.op])

\* `parse` comes to x after some round, and ends with it if it must go no further.
Made(table, tokens, x, i, j) ==
    \A min \in Mins(table) :
        NotLooser(table, x.tree, min) /\ Closed(table, tokens, x, j) =>
            /\ \E k \in Nat :
                  /\ 2 * k <= j - i
                  /\ Rounds(table, tokens, Climb(table, tokens), i, min)[k] = Parsed(x.tree, j + 1)
            /\ (InfixAt(table, tokens, j + 1) => PrecAt(table, tokens, j + 1) < min)
                  => Climb(table, tokens)[<<i, min>>] = Parsed(x.tree, j + 1)

\* The second part follows from the first.
LEMMA MadeIf ==
    ASSUME NEW table, NEW tokens, Foldable(table, tokens), NEW i \in 1..Len(tokens), NEW j \in i..Len(tokens),
           NEW min \in Mins(table), NEW tree, NEW k \in Nat, 2 * k <= j - i,
           Rounds(table, tokens, Climb(table, tokens), i, min)[k] = Parsed(tree, j + 1),
           InfixAt(table, tokens, j + 1) => PrecAt(table, tokens, j + 1) < min
    PROVE  Climb(table, tokens)[<<i, min>>] = Parsed(tree, j + 1)
<1>1. PICK n, r : n = Len(tokens) /\ n \in Nat /\ r = Parsed(tree, j + 1)
  BY Tokens
<1>2. k \in 0..LastRound(tokens, i) /\ i \in 1..Len(tokens) + 1
  <2>1. 2 * k <= Len(tokens) - i /\ i \in 1..Len(tokens) + 1
    BY <1>1
  <2> QED BY <1>1, <2>1, LastRoundIs
<1>3. r.next = j + 1
  BY <1>1, Outcomes
<1>4. ~TakesInfix(table, tokens, min, r)
  <2> SUFFICES ASSUME TakesInfix(table, tokens, min, r) PROVE FALSE
    OBVIOUS
  <2>1. InfixAt(table, tokens, j + 1) /\ PrecAt(table, tokens, j + 1) >= min
    BY <1>3 DEF TakesInfix, InfixAt, PrecAt
  <2>2. tokens[j + 1].op \in DOMAIN table.info
    BY <2>1 DEF InfixAt, HasInfo
  <2>3. PrecAt(table, tokens, j + 1) \in Nat /\ min \in Nat
    BY <2>2, Tiers DEF PrecAt
  <2> QED BY <2>1, <2>3
<1> QED BY <1>1, <1>2, <1>4, Stuck

MadeWithin(table, tokens, len) ==
    \A i, j \in 1..Len(tokens) : i <= j /\ j - i < len =>
        \A x \in TreesOf(table, tokens)[<<i, j>>] : Made(table, tokens, x, i, j)

\* An operand with postfix operators, or a prefix operator with its operand, is made at once.
LEMMA UnaryMade ==
    ASSUME NEW table, NEW tokens, Foldable(table, tokens), NEW i \in 1..Len(tokens), NEW j \in i..Len(tokens),
           MadeWithin(table, tokens, j - i), NEW x \in TreesOf(table, tokens)[<<i, j>>],
           x.tree.kind # "infix", Closed(table, tokens, x, j)
    PROVE  ParseUnary(table, tokens, Climb(table, tokens), i) = Parsed(x.tree, j + 1)
<1>1. PICK n, C : n = Len(tokens) /\ n \in Nat /\ C = Climb(table, tokens) /\ i \in 1..n /\ j \in i..n
  BY Tokens
<1>2. CASE x.tree.kind # "prefix"
  <2>1. PICK many : many = j - i
    OBVIOUS
  <2>2. many \in Nat /\ i + many = j /\ i + many <= Len(tokens)
    BY <1>1, <2>1
  <2>3. x \in TreesOf(table, tokens)[<<i, i + many>>] /\ x.tree.kind \notin {"infix", "prefix"}
    BY <1>2, <2>2
  <2>4. /\ ~IsOp(tokens[i]) /\ x.tree = With(tokens, i, many)
        /\ \A k \in i + 1..i + many : IsPost(table, tokens, k)
    BY <2>2, <2>3, Operands
  <2>5. PICK next \in i + 1..n + 1 :
           /\ \A k \in i + 1..next - 1 : IsPost(table, tokens, k)
           /\ next <= n => ~IsPost(table, tokens, next)
           /\ WithPostfix(table, tokens, i) = Parsed(With(tokens, i, next - 1 - i), next)
    BY <1>1, PostfixesEnd
  <2>6. next = j + 1
    <3>1. ~(next < j + 1)
      <4> SUFFICES ASSUME next < j + 1 PROVE FALSE
        OBVIOUS
      <4>1. next \in i + 1..i + many /\ next <= n
        BY <1>1, <2>2
      <4> QED BY <2>4, <2>5, <4>1
    <3>2. ~(next > j + 1)
      <4> SUFFICES ASSUME next > j + 1 PROVE FALSE
        OBVIOUS
      <4>1. j + 1 \in i + 1..next - 1 /\ j + 1 <= n
        BY <1>1
      <4> QED BY <1>1, <2>5, <4>1 DEF Closed
    <3> QED BY <1>1, <3>1, <3>2
  <2>7. next - 1 - i = many
    BY <1>1, <2>1, <2>6
  <2>8. ParseUnary(table, tokens, C, i) = WithPostfix(table, tokens, i)
    BY <1>1, <2>4 DEF ParseUnary, HasPrefix
  <2> QED BY <1>1, <2>4, <2>5, <2>6, <2>7, <2>8
<1>3. CASE x.tree.kind = "prefix"
  <2>1. OfPrefix(table, tokens, x, i, j)
    <3>1. i \in 1..Len(tokens) + 1 /\ j \in 0..Len(tokens)
      BY <1>1
    <3>2. ~(i = j /\ ~IsOp(tokens[i]) /\ x = Derived(tokens[i], {}))
      BY <1>3, Tokens, Nodes
    <3>3. ~OfPostfix(table, tokens, x, i, j) /\ \A k : ~OfInfix(table, tokens, x, i, j, k)
      BY <1>3, KindsOf
    <3> QED BY <3>1, <3>2, <3>3, ReadingsOf
  <2>2. PICK op, p, at : op = tokens[i].op /\ p = table.prefix[op].prec /\ at = <<i + 1, p>>
    OBVIOUS
  <2>3. /\ i < j /\ HasPrefix(table, tokens[i])
        /\ \E o \in TreesOf(table, tokens)[<<i + 1, j>>] :
              NotLooser(table, o.tree, p) /\ x = Derived(Prefix(op, o.tree), o.open \cup {p})
    BY <2>1, <2>2, Zenon DEF OfPrefix
  <2>4. PICK o \in TreesOf(table, tokens)[<<i + 1, j>>] :
           NotLooser(table, o.tree, p) /\ x = Derived(Prefix(op, o.tree), o.open \cup {p})
    BY <2>3
  <2>5. x.tree = Prefix(op, o.tree) /\ x.open = o.open \cup {p}
    BY <2>4, Nodes
  <2>6. p \in Mins(table) /\ p \in Nat
    BY <2>2, <2>3, Tiers
  <2>7. i + 1 \in 1..Len(tokens) /\ j \in 1..Len(tokens) /\ i + 1 <= j /\ j - (i + 1) < j - i /\ j \in i + 1..Len(tokens)
    BY <1>1, <2>3
  <2>8. InfixAt(table, tokens, j + 1) => PrecAt(table, tokens, j + 1) < p
    BY <2>5 DEF Closed
  <2>9. Closed(table, tokens, o, j)
    <3>1. j + 1 <= Len(tokens) => ~IsPost(table, tokens, j + 1)
      BY DEF Closed
    <3> SUFFICES ASSUME InfixAt(table, tokens, j + 1)
                 PROVE  /\ \A prec \in o.open : PrecAt(table, tokens, j + 1) < prec
                        /\ o.tree.kind = "infix" => PrecAt(table, tokens, j + 1) < NextMin(table.info[o.tree.op])
      BY <3>1 DEF Closed
    <3>2. \A prec \in o.open : PrecAt(table, tokens, j + 1) < prec
      BY <2>5 DEF Closed
    <3>3. ASSUME o.tree.kind = "infix" PROVE PrecAt(table, tokens, j + 1) < NextMin(table.info[o.tree.op])
      <4>1. o.tree.op \in DOMAIN table.info
        BY <2>4, <2>7, <3>3, InfixTrees
      <4>2. table.info[o.tree.op].prec >= p
        BY <2>4, <3>3 DEF NotLooser
      <4>3. PrecAt(table, tokens, j + 1) \in Nat
        BY Tiers DEF InfixAt, HasInfo, PrecAt
      <4>4. table.info[o.tree.op].prec \in Nat
        BY <4>1, Tiers
      <4>5. PrecAt(table, tokens, j + 1) < p /\ p \in Nat
        BY <2>6, <2>8
      <4> QED BY <4>2, <4>3, <4>4, <4>5, LooserThanNext
    <3> QED BY <3>2, <3>3
  <2>10. Made(table, tokens, o, i + 1, j)
    BY <2>4, <2>7 DEF MadeWithin
  <2>11. C[at] = Parsed(o.tree, j + 1)
    <3>1. NotLooser(table, o.tree, p)
      BY <2>4
    <3>2. Climb(table, tokens)[<<i + 1, p>>] = Parsed(o.tree, j + 1)
      BY <2>6, <2>8, <2>9, <2>10, <3>1 DEF Made
    <3> QED BY <1>1, <2>2, <3>2
  <2>12. C[at] # Unfolded /\ C[at].tree = o.tree /\ C[at].next = j + 1
    BY <2>11, Outcomes
  <2>13. ParseUnary(table, tokens, C, i) = Parsed(Prefix(op, o.tree), j + 1)
    <3>1. ~(i > Len(tokens))
      BY <1>1
    <3>2. HasPrefix(table, tokens[i]) /\ op = tokens[i].op /\ at = <<i + 1, table.prefix[op].prec>>
      BY <2>2, <2>3
    <3>3. ParseUnary(table, tokens, C, i)
            = IF C[at] = Unfolded THEN Unfolded ELSE Parsed(Prefix(op, C[at].tree), C[at].next)
      BY <3>1, <3>2, UnaryOfPrefix
    <3> QED BY <2>12, <3>3
  <2> QED BY <1>1, <2>5, <2>13
<1> QED BY <1>2, <1>3

\* An infix operation is made a round after its left operand.
LEMMA InfixMade ==
    ASSUME NEW table, NEW tokens, Foldable(table, tokens), NEW i \in 1..Len(tokens), NEW j \in i..Len(tokens),
           MadeWithin(table, tokens, j - i), NEW x \in TreesOf(table, tokens)[<<i, j>>],
           x.tree.kind = "infix", Closed(table, tokens, x, j),
           NEW min \in Mins(table), NotLooser(table, x.tree, min)
    PROVE  \E k \in Nat :
              /\ 2 * k <= j - i
              /\ Rounds(table, tokens, Climb(table, tokens), i, min)[k] = Parsed(x.tree, j + 1)
<1>1. PICK n, C, lhs : /\ n = Len(tokens) /\ n \in Nat /\ C = Climb(table, tokens) /\ i \in 1..n /\ j \in i..n
                       /\ lhs = Rounds(table, tokens, C, i, min)
  BY Tokens
<1>2. \A k \in 1..n : lhs[k] = Extend(table, tokens, C, min, lhs[k - 1])
  BY <1>1, RoundByRound
<1>3. PICK k \in i + 1..j - 1 : OfInfix(table, tokens, x, i, j, k)
  <2>1. i \in 1..Len(tokens) + 1 /\ j \in 0..Len(tokens)
    BY <1>1
  <2>2. ~(i = j /\ ~IsOp(tokens[i]) /\ x = Derived(tokens[i], {}))
    BY Tokens, Nodes
  <2>3. ~OfPrefix(table, tokens, x, i, j) /\ ~OfPostfix(table, tokens, x, i, j)
    BY KindsOf
  <2> QED BY <2>1, <2>2, <2>3, ReadingsOf
<1>4. PICK op, info, at : op = tokens[k].op /\ info = table.info[op] /\ at = <<k + 1, NextMin(info)>>
  OBVIOUS
<1>5. /\ HasInfo(table, tokens[k], "infix")
      /\ \E l \in TreesOf(table, tokens)[<<i, k - 1>>], r \in TreesOf(table, tokens)[<<k + 1, j>>] :
            /\ NotLooser(table, l.tree, LeastOnLeft(info))
            /\ \A prec \in l.open : info.prec < prec
            /\ NotLooser(table, r.tree, NextMin(info))
            /\ x = Derived(Infix(op, l.tree, r.tree), r.open)
  BY <1>3, <1>4, Zenon DEF OfInfix
<1>6. PICK l \in TreesOf(table, tokens)[<<i, k - 1>>], r \in TreesOf(table, tokens)[<<k + 1, j>>] :
            /\ NotLooser(table, l.tree, LeastOnLeft(info))
            /\ \A prec \in l.open : info.prec < prec
            /\ NotLooser(table, r.tree, NextMin(info))
            /\ x = Derived(Infix(op, l.tree, r.tree), r.open)
  BY <1>5
<1>7. x.tree = Infix(op, l.tree, r.tree) /\ x.open = r.open /\ x.tree.op = op
  BY <1>6, Nodes
<1>8. /\ op \in DOMAIN table.info /\ info.prec \in Nat /\ NextMin(info) \in Mins(table) /\ NextMin(info) \in Nat
      /\ min \in Nat /\ info.prec >= min
  <2>1. op \in DOMAIN table.info
    BY <1>4, <1>5 DEF HasInfo
  <2> QED BY <1>4, <1>7, <2>1, Tiers DEF NotLooser
<1>9. /\ k \in 1..n /\ k - 1 \in 1..Len(tokens) /\ i <= k - 1 /\ (k - 1) - i < j - i
      /\ k + 1 \in 1..Len(tokens) /\ j \in 1..Len(tokens) /\ k + 1 <= j /\ j - (k + 1) < j - i
      /\ (k - 1) + 1 = k /\ i \in 1..Len(tokens)
  BY <1>1
<1>10. InfixAt(table, tokens, k) /\ PrecAt(table, tokens, k) = info.prec
  BY <1>1, <1>4, <1>5, <1>9 DEF InfixAt, PrecAt
\* The left operand,
<1>11. ASSUME l.tree.kind = "infix"
       PROVE  /\ l.tree.op \in DOMAIN table.info /\ info.prec < NextMin(table.info[l.tree.op])
              /\ table.info[l.tree.op].prec >= info.prec
  <2>1. l.tree.op \in DOMAIN table.info
    BY <1>9, <1>11, InfixTrees
  <2>2. table.info[l.tree.op].prec >= LeastOnLeft(info)
    BY <1>6, <1>11 DEF NotLooser
  <2> QED BY <1>4, <1>8, <2>1, <2>2, LeftTiers
<1>12. NotLooser(table, l.tree, min)
  <2> SUFFICES ASSUME l.tree.kind = "infix" PROVE table.info[l.tree.op].prec >= min
    BY DEF NotLooser
  <2>1. table.info[l.tree.op].prec \in Nat
    BY <1>11, Tiers
  <2>2. table.info[l.tree.op].prec >= info.prec
    BY <1>11
  <2>3. PICK a, b : a = table.info[l.tree.op].prec /\ b = info.prec
    OBVIOUS
  <2>4. a \in Nat /\ b \in Nat /\ min \in Nat /\ a >= b /\ b >= min
    BY <1>8, <2>1, <2>2, <2>3
  <2>5. a >= min
    BY <2>4
  <2> QED BY <2>3, <2>5
<1>13. Closed(table, tokens, l, k - 1)
  <2>1. ~IsPost(table, tokens, k)
    BY <1>5 DEF IsPost, HasInfo
  <2> QED BY <1>6, <1>9, <1>10, <1>11, <2>1 DEF Closed
<1>14. PICK before \in Nat : 2 * before <= (k - 1) - i /\ lhs[before] = Parsed(l.tree, k)
  <2>1. Made(table, tokens, l, i, k - 1)
    BY <1>9 DEF MadeWithin
  <2> QED BY <1>1, <1>9, <1>12, <1>13, <2>1 DEF Made
\* the right one,
<1>15. InfixAt(table, tokens, j + 1) => PrecAt(table, tokens, j + 1) < NextMin(info)
  BY <1>4, <1>7 DEF Closed
<1>16. Closed(table, tokens, r, j)
  <2>1. j + 1 <= Len(tokens) => ~IsPost(table, tokens, j + 1)
    BY DEF Closed
  <2> SUFFICES ASSUME InfixAt(table, tokens, j + 1)
               PROVE  /\ \A prec \in r.open : PrecAt(table, tokens, j + 1) < prec
                      /\ r.tree.kind = "infix" => PrecAt(table, tokens, j + 1) < NextMin(table.info[r.tree.op])
    BY <2>1 DEF Closed
  <2>2. \A prec \in r.open : PrecAt(table, tokens, j + 1) < prec
    BY <1>7 DEF Closed
  <2>3. ASSUME r.tree.kind = "infix" PROVE PrecAt(table, tokens, j + 1) < NextMin(table.info[r.tree.op])
    <3>1. r.tree.op \in DOMAIN table.info
      BY <1>9, <2>3, InfixTrees
    <3>2. table.info[r.tree.op].prec >= NextMin(info)
      BY <1>6, <2>3 DEF NotLooser
    <3>3. PrecAt(table, tokens, j + 1) \in Nat
      BY Tiers DEF InfixAt, HasInfo, PrecAt
    <3>4. table.info[r.tree.op].prec \in Nat
      BY <3>1, Tiers
    <3>5. PrecAt(table, tokens, j + 1) < NextMin(info) /\ NextMin(info) \in Nat
      BY <1>8, <1>15
    <3> QED BY <3>2, <3>3, <3>4, <3>5, LooserThanNext
  <2> QED BY <2>2, <2>3
<1>17. C[at] = Parsed(r.tree, j + 1)
  <2>1. Made(table, tokens, r, k + 1, j)
    BY <1>9 DEF MadeWithin
  <2> QED BY <1>1, <1>4, <1>6, <1>8, <1>15, <1>16, <2>1 DEF Made
\* and both.
<1>18. lhs[before].next = k /\ lhs[before].tree = l.tree /\ lhs[before] # Unfolded
  BY <1>14, Outcomes
<1>19. TakesInfix(table, tokens, min, lhs[before])
  <2>1. k <= Len(tokens) /\ HasInfo(table, tokens[k], "infix")
    BY <1>1, <1>5, <1>9
  <2>2. table.info[tokens[k].op].prec >= min
    BY <1>4, <1>8
  <2> QED BY <1>18, <2>1, <2>2 DEF TakesInfix
<1>20. C[at] # Unfolded /\ C[at].tree = r.tree /\ C[at].next = j + 1
  BY <1>17, Outcomes
<1>21. Extend(table, tokens, C, min, lhs[before]) = Parsed(x.tree, j + 1)
  BY <1>4, <1>7, <1>18, <1>19, <1>20 DEF Extend
<1>22. before + 1 \in 1..n /\ (before + 1) - 1 = before /\ before + 1 \in Nat /\ 2 * (before + 1) <= j - i
  <2>1. k \in Nat /\ i \in Nat /\ j \in Nat /\ i >= 1 /\ k <= j - 1 /\ j <= n
    BY <1>1
  <2>2. before \in Nat /\ 2 * before <= (k - 1) - i
    BY <1>14
  <2>3. 2 * (before + 1) <= j - i /\ before + 1 \in Nat /\ (before + 1) - 1 = before
    BY <2>1, <2>2
  <2>4. before + 1 <= n
    BY <1>1, <2>1, <2>2
  <2> QED BY <1>1, <2>3, <2>4
<1> QED BY <1>1, <1>2, <1>21, <1>22

LEMMA AllMade ==
    ASSUME NEW table, NEW tokens, Foldable(table, tokens)
    PROVE  MadeWithin(table, tokens, Len(tokens))
<1>1. PICK n : n = Len(tokens) /\ n \in Nat
  BY Tokens
<1> DEFINE All == {m \in Nat : MadeWithin(table, tokens, m)}
<1>2. 0 \in All
  BY <1>1 DEF MadeWithin
<1>3. ASSUME NEW m \in Nat, m \in All PROVE m + 1 \in All
  <2>1. ASSUME NEW i \in 1..Len(tokens), NEW j \in 1..Len(tokens), i <= j, j - i < m + 1,
               NEW x \in TreesOf(table, tokens)[<<i, j>>]
        PROVE  Made(table, tokens, x, i, j)
    <3>1. j \in i..Len(tokens) /\ j - i <= m
      BY <1>1, <2>1
    <3>2. MadeWithin(table, tokens, j - i)
      BY <1>1, <1>3, <3>1 DEF MadeWithin
    <3>3. ASSUME NEW min \in Mins(table), NotLooser(table, x.tree, min), Closed(table, tokens, x, j)
          PROVE  \E k \in Nat :
                    /\ 2 * k <= j - i
                    /\ Rounds(table, tokens, Climb(table, tokens), i, min)[k] = Parsed(x.tree, j + 1)
      <4>1. CASE x.tree.kind = "infix"
        BY <3>1, <3>2, <3>3, <4>1, InfixMade
      <4>2. CASE x.tree.kind # "infix"
        <5>1. ParseUnary(table, tokens, Climb(table, tokens), i) = Parsed(x.tree, j + 1)
          BY <3>1, <3>2, <3>3, <4>2, UnaryMade
        <5>2. Rounds(table, tokens, Climb(table, tokens), i, min)[0]
                = ParseUnary(table, tokens, Climb(table, tokens), i)
          BY <1>1, RoundByRound
        <5>3. 0 \in Nat /\ 2 * 0 <= j - i
          BY <2>1
        <5> QED BY <5>1, <5>2, <5>3
      <4> QED BY <4>1, <4>2
    <3>4. ASSUME NEW min \in Mins(table), NotLooser(table, x.tree, min), Closed(table, tokens, x, j),
                 InfixAt(table, tokens, j + 1) => PrecAt(table, tokens, j + 1) < min
          PROVE  Climb(table, tokens)[<<i, min>>] = Parsed(x.tree, j + 1)
      <4>1. PICK k \in Nat :
               /\ 2 * k <= j - i
               /\ Rounds(table, tokens, Climb(table, tokens), i, min)[k] = Parsed(x.tree, j + 1)
        BY <3>3, <3>4
      <4> QED BY <3>1, <3>4, <4>1, MadeIf
    <3> QED BY <3>3, <3>4 DEF Made
  <2> QED BY <2>1 DEF MadeWithin
<1>4. n \in All
  <2> HIDE DEF All
  <2> QED BY <1>1, <1>2, <1>3, OfApplied!Induction
<1> QED BY <1>1, <1>4

\* What is folded is all that the precedences define.
LEMMA FoldIsDeclared ==
    ASSUME NEW table, NEW tokens, IsTable(table), IsStream(table, tokens)
    PROVE  Declared(table, tokens) = IF Fold(table, tokens) = Unfolded THEN {} ELSE {Fold(table, tokens)}
<1>1. Foldable(table, tokens)
  BY DEF Foldable
<1>2. PICK n, r, trees : /\ n = Len(tokens) /\ n \in Nat /\ r = Climb(table, tokens)[<<1, 0>>]
                         /\ trees = TreesOf(table, tokens)[<<1, n>>]
  BY <1>1, Tokens
<1>3. Fold(table, tokens) = IF r = Unfolded THEN Unfolded ELSE IF r.next <= n THEN Unfolded ELSE r.tree
  BY <1>2 DEF Fold
<1>4. Declared(table, tokens) = {t.tree : t \in trees}
  BY <1>2 DEF Declared
<1>5. ASSUME r # Unfolded, ~(r.next <= n) PROVE r.tree \in Declared(table, tokens)
  <2>1. PICK wanting : Alternates(table, tokens, wanting)
    BY DEF IsStream
  <2>2. /\ <<1, 0>> \in Calls(table, tokens) /\ <<1, 0>>[1] = 1 /\ <<1, 0>>[2] = 0 /\ 1 > 0
        /\ 1 \in 1..Len(tokens) + 1
    BY <1>1, <1>2, Tiers DEF Calls
  <2>3. 1 <= Len(tokens) => 1 \in wanting
    BY <1>1, <1>2, <2>1, Tokens DEF Alternates
  <2>4. Reading(table, tokens, wanting, 1, 0, r)
    BY <1>1, <1>2, <1>5, <2>1, <2>2, <2>3, ClimbSound DEF SoundFrom, SoundAt, Due, Sound
  <2>5. r.next \in 1 + 1..n + 1 /\ \E d \in TreesOf(table, tokens)[<<1, r.next - 1>>] : d.tree = r.tree
    BY <1>2, <2>4 DEF Reading
  <2>6. r.next - 1 = n
    BY <1>2, <1>5, <2>5
  <2> QED BY <1>2, <1>4, <2>5, <2>6
<1>6. ASSUME NEW x \in trees PROVE r # Unfolded /\ ~(r.next <= n) /\ r.tree = x.tree
  <2>1. n >= 1
    <3> SUFFICES ASSUME n = 0 PROVE FALSE
      BY <1>2
    <3>1. 1 \in 1..Len(tokens) + 1 /\ n \in 0..Len(tokens) /\ 1 + 1..n - 1 = {}
      BY <1>2
    <3>2. ~(1 < n)
      OBVIOUS
    <3>3. ~OfPrefix(table, tokens, x, 1, n) /\ ~OfPostfix(table, tokens, x, 1, n)
      BY <3>2, Zenon DEF OfPrefix, OfPostfix
    <3> QED BY <1>1, <1>2, <1>6, <3>1, <3>3, ReadingsOf
  <2>2. 1 \in 1..Len(tokens) /\ n \in 1..Len(tokens) /\ 1 <= n /\ n - 1 < Len(tokens)
    BY <1>2, <2>1
  <2>3. Made(table, tokens, x, 1, n)
    BY <1>1, <1>2, <2>2, AllMade DEF MadeWithin
  <2>4. ~InfixAt(table, tokens, n + 1) /\ Closed(table, tokens, x, n)
    BY <1>2 DEF Closed, InfixAt
  <2>5. NotLooser(table, x.tree, 0)
    <3> SUFFICES ASSUME x.tree.kind = "infix" PROVE table.info[x.tree.op].prec >= 0
      BY DEF NotLooser
    <3>1. x.tree.op \in DOMAIN table.info
      BY <1>1, <1>2, <2>2, InfixTrees
    <3>2. table.info[x.tree.op].prec \in Nat
      BY <1>1, <3>1, Tiers
    <3> QED BY <3>2
  <2>6. 0 \in Mins(table)
    BY <1>1, Tiers
  <2>7. r = Parsed(x.tree, n + 1)
    BY <1>2, <2>3, <2>4, <2>5, <2>6 DEF Made
  <2> QED BY <1>2, <2>7, Outcomes
<1>7. CASE trees = {}
  <2>1. Declared(table, tokens) = {}
    BY <1>4, <1>7
  <2> QED BY <1>3, <1>5, <2>1
<1>8. CASE trees # {}
  <2>1. PICK x : x \in trees
    BY <1>8
  <2>2. r # Unfolded /\ ~(r.next <= n) /\ r.tree = x.tree
    BY <1>6, <2>1
  <2>3. Declared(table, tokens) = {r.tree}
    BY <1>4, <1>6, <2>1
  <2>4. PICK d : d \in TreesOf(table, tokens)[<<1, n>>] /\ d.tree = r.tree
    BY <1>2, <2>1, <2>2
  <2>5. r.tree # Unfolded
    <3>1. 1 \in 1..Len(tokens) + 1 /\ n \in 0..Len(tokens)
      BY <1>2
    <3>2. \/ 1 = n /\ ~IsOp(tokens[1]) /\ d = Derived(tokens[1], {})
          \/ OfPrefix(table, tokens, d, 1, n)
          \/ OfPostfix(table, tokens, d, 1, n)
          \/ \E k \in 1 + 1..n - 1 : OfInfix(table, tokens, d, 1, n, k)
      BY <1>1, <2>4, <3>1, ReadingsOf
    <3>3. d.tree.kind # "unfolded"
      <4>1. CASE 1 = n /\ d = Derived(tokens[1], {})
        <5>1. 1 \in 1..Len(tokens)
          BY <1>2, <4>1
        <5>2. tokens[1].kind # "unfolded"
          BY <1>1, <5>1, Tokens
        <5>3. d.tree = tokens[1]
          BY <4>1, Nodes
        <5> QED BY <5>2, <5>3
      <4>2. OfPrefix(table, tokens, d, 1, n) \/ OfPostfix(table, tokens, d, 1, n) => d.tree.kind # "unfolded"
        BY KindsOf
      <4>3. \A k : OfInfix(table, tokens, d, 1, n, k) => d.tree.kind # "unfolded"
        BY KindsOf
      <4> QED BY <3>2, <4>1, <4>2, <4>3
    <3> QED BY <2>4, <3>3 DEF Unfolded
  <2> QED BY <1>3, <2>2, <2>3, <2>5
<1> QED BY <1>7, <1>8

\* The expressions that are evaluated are folded into the one tree their operator
\* table defines (ops.rs, build; dispatch.rs, op_info and prefix_info), for every
\* table of tiers and every stream the grammar's `expr` lets through.
THEOREM FoldsAsDeclared == Spec => []FoldedAsDeclared
<1>1. LexInv => FoldedAsDeclared
  <2> SUFFICES ASSUME LexInv, Len(stack) = 1, NEW e \in DOMAIN ast
               PROVE  Declared(source.table, source.streams[e]) = {ast[e]}
    BY DEF FoldedAsDeclared
  <2>1. source \in Sources /\ ast = Exprs(source) /\ Built(ast)
    <3>1. stack # <<>>
      OBVIOUS
    <3> QED BY <3>1 DEF LexInv, Rooted, Running
  <2>2. e \in DOMAIN source.streams /\ ast[e] = Fold(source.table, source.streams[e]) /\ ast[e] # Unfolded
    BY <2>1 DEF Exprs, Built
  <2>3. IsTable(source.table) /\ IsStream(source.table, source.streams[e])
    BY <2>1, <2>2, StreamsAssumption
  <2> QED BY <2>2, <2>3, FoldIsDeclared
<1>2. Init => LexInv
  BY LexInit
<1>3. IInv /\ LexInv /\ [Next]_allvars => LexInv'
  BY LexStep
<1> QED BY <1>1, <1>2, <1>3, InvariantHolds, PTL DEF Spec

==============================================================================
