----------------------------- MODULE ImportsProofs -----------------------------
(***************************************************************************)
(* The loader of grammars, proved for every graph of imports: while no     *)
(* file changes, it records every file the entry file reaches, once, after *)
(* what it imports, or has something to say, and it says just what there   *)
(* is to say of files that cannot be read or parsed and of cycles.         *)
(*                                                                         *)
(* The loader is a search in depth: what is on its stack is a path of      *)
(* imports, what it has seen and left is recorded or was complained of.    *)
(***************************************************************************)
EXTENDS Imports, FiniteSetTheorems, FunctionTheorems, TLAPS

----------------------------------------------------------------------------
(* The graph.                                                              *)

Closed(all) == \A q \in all : ImportsOf(q) \subseteq all

Readable == \A p \in Paths : IsFile(sources[p])

LEMMA ImportsArePaths ==
    ASSUME Readable, NEW p \in Paths
    PROVE  /\ ImportsOf(p) \subseteq Paths
           /\ Parses(sources[p]) =>
                /\ sources[p].imports \in Seq(Paths)
                /\ \A k \in 1..Len(sources[p].imports) : sources[p].imports[k] \in ImportsOf(p)
                /\ \A q \in ImportsOf(p) : \E k \in 1..Len(sources[p].imports) : sources[p].imports[k] = q
           /\ ~Parses(sources[p]) => ImportsOf(p) = {}
<1>1. Parses(sources[p]) => sources[p].imports \in Seq(Paths)
  BY DEF Readable, IsFile, Parses, IsText, Missing, Unreadable
<1> QED BY <1>1 DEF ImportsOf, Range

\* What is reached: where it begins, and what is imported by what is reached.
LEMMA ReachBegins ==
    ASSUME NEW from \in SUBSET Paths
    PROVE  from \subseteq Reach(from)
BY DEF Reach

LEMMA ReachGoesOn ==
    ASSUME Readable, NEW from \in SUBSET Paths, NEW p \in Reach(from)
    PROVE  ImportsOf(p) \subseteq Reach(from)
<1>1. ImportsOf(p) \subseteq Paths
  BY ImportsArePaths DEF Reach
<1> QED BY <1>1 DEF Reach

\* And nothing else.
LEMMA ReachWithin ==
    ASSUME NEW from \in SUBSET Paths, NEW all \in SUBSET Paths, from \subseteq all, Closed(all)
    PROVE  Reach(from) \subseteq all
BY DEF Reach, Closed

LEMMA ReachIsPaths == \A from : Reach(from) \subseteq Paths
BY DEF Reach

----------------------------------------------------------------------------
(* The invariant.                                                          *)

Recorded(p) == \E i \in 1..Len(files) : files[i].path = p
Told(p) == \E i \in 1..Len(problems) : problems[i].about = p
CycleFound == \E i \in 1..Len(problems) : problems[i].what = "import cycle"

\* What has been called for: it has been seen, or could not be.
Visited(p) == p \in seen \/ (~Parses(sources[p]) /\ Told(p))

Whats == {"cannot read", "import cycle", "syntax"}
Held == {sources[p] : p \in Paths}
LoaderTypes ==
    /\ Readable
    /\ loading \in Seq([path : Paths, text : Held, next : Nat])
    /\ files \in Seq([path : Paths, text : Held])
    /\ problems \in Seq([what : Whats, about : Paths])
    /\ seen \in SUBSET Paths

\* The loads under way are a path of imports, from the entry file.
StackIsPath ==
    /\ \A i \in 1..Len(loading) :
          /\ loading[i].text = sources[loading[i].path]
          /\ Parses(sources[loading[i].path])
          /\ loading[i].next \in 1..(Len(loading[i].text.imports) + 1)
          /\ loading[i].path \in seen
    /\ \A i, j \in 1..Len(loading) : i < j =>
          /\ loading[i].path # loading[j].path
          /\ loading[j].path \in Reach(ImportsOf(loading[i].path))
    /\ loading # <<>> => loading[1].path = Entry

\* A file is recorded once, when it is left.
RecordedOnce ==
    /\ \A i \in 1..Len(files) :
          /\ files[i].text = sources[files[i].path]
          /\ Parses(sources[files[i].path])
          /\ files[i].path \in seen
          /\ \A j \in 1..Len(loading) : loading[j].path # files[i].path
    /\ \A i, j \in 1..Len(files) : files[i].path = files[j].path => i = j

\* What is seen is reached, and under way, recorded, or complained of.
SeenIsKept ==
    \A p \in seen :
        /\ p \in Reached
        /\ \/ \E i \in 1..Len(loading) : loading[i].path = p
           \/ Recorded(p)
           \/ ~Parses(sources[p]) /\ Told(p)

\* The imports that have been called for have been visited.
ImportsVisited ==
    /\ \A i \in 1..Len(loading) : \A k \in 1..(loading[i].next - 1) :
          Visited(loading[i].text.imports[k])
    /\ \A i \in 1..Len(files) : \A k \in 1..Len(files[i].text.imports) :
          Visited(files[i].text.imports[k])
    /\ Started => Visited(Entry)

\* Unless there is a cycle, they have been recorded, before who imports them.
ImportsBefore ==
    ~CycleFound =>
        /\ \A i \in 1..Len(loading) : \A k \in 1..(loading[i].next - 1) :
              LET q == loading[i].text.imports[k]
              IN  \/ ~Parses(sources[q])
                  \/ Recorded(q)
                  \/ i < Len(loading) /\ q = loading[i + 1].path
        /\ \A i \in 1..Len(files) : \A k \in 1..Len(files[i].text.imports) :
              LET q == files[i].text.imports[k]
              IN  \/ ~Parses(sources[q])
                  \/ \E j \in 1..(i - 1) : files[j].path = q

IsSo(p) ==
    IF p.what = "import cycle" THEN OnCycle(p.about)
    ELSE p.about \in Reached /\ ~Parses(sources[p.about])

\* What is said is so, and of syntax it is said once.
ProblemsAreSo ==
    /\ \A i \in 1..Len(problems) : IsSo(problems[i])
    /\ \A i \in 1..Len(problems) : problems[i].what = "syntax" => problems[i].about \in seen
    /\ \A i, j \in 1..Len(problems) :
          problems[i] = problems[j] /\ problems[i].what = "syntax" => i = j

EntryComesLast ==
    loading = <<>> /\ Started => \/ problems # <<>>
                                 \/ files # <<>> /\ Last(files).path = Entry

LInv ==
    /\ LoaderTypes /\ StackIsPath /\ RecordedOnce /\ SeenIsKept
    /\ ImportsVisited /\ ImportsBefore /\ ProblemsAreSo /\ EntryComesLast

LEMMA LoaderBegins ==
    ASSUME Readable, LoaderReset
    PROVE  LInv
BY DEF LoaderReset, LInv, LoaderTypes, StackIsPath, RecordedOnce, SeenIsKept, ImportsVisited,
       ImportsBefore, ProblemsAreSo, EntryComesLast, Started

----------------------------------------------------------------------------
(* Sequences.                                                              *)

LEMMA LastOf ==
    ASSUME NEW S, NEW s \in Seq(S), s # <<>>
    PROVE  Len(s) \in 1..Len(s) /\ Len(s) \in Nat \ {0} /\ s[Len(s)] \in S /\ Last(s) = s[Len(s)]
<1>1. Len(s) \in Nat /\ Len(s) # 0
  OBVIOUS
<1> QED BY <1>1 DEF Last

LEMMA Appended ==
    ASSUME NEW S, NEW s \in Seq(S), NEW e \in S
    PROVE  /\ Append(s, e) \in Seq(S) /\ Len(Append(s, e)) = Len(s) + 1 /\ Len(s) \in Nat
           /\ Append(s, e)[Len(s) + 1] = e
           /\ \A i \in 1..Len(s) : Append(s, e)[i] = s[i]
           /\ \A i \in 1..Len(Append(s, e)) : i \in 1..Len(s) \/ i = Len(s) + 1
OBVIOUS

\* The same, of a sequence that has grown by one.
LEMMA OneMore ==
    ASSUME NEW S, NEW s \in Seq(S), NEW e \in S, NEW t, t = Append(s, e),
           NEW n \in Nat, n = Len(s)
    PROVE  /\ t \in Seq(S) /\ Len(t) = n + 1 /\ t[n + 1] = e /\ n + 1 \in 1..(n + 1)
           /\ \A i \in 1..n : t[i] = s[i] /\ i \in 1..(n + 1)
           /\ \A i \in 1..(n + 1) : i \in 1..n \/ i = n + 1
OBVIOUS

LEMMA AllButLast ==
    ASSUME NEW S, NEW s \in Seq(S), s # <<>>
    PROVE  /\ Front(s) \in Seq(S) /\ Len(Front(s)) = Len(s) - 1
           /\ \A i \in 1..(Len(s) - 1) : Front(s)[i] = s[i] /\ i \in 1..Len(s) /\ i # Len(s)
<1>1. Len(s) \in Nat \ {0}
  BY LastOf
<1> DEFINE k == Len(s) - 1
<1>2. k \in 0..Len(s) /\ Front(s) = SubSeq(s, 1, k)
  BY <1>1 DEF Front
<1> HIDE DEF k
<1>3. Front(s) \in Seq(S) /\ Len(Front(s)) = k /\ \A i \in 1..k : Front(s)[i] = s[i]
  BY <1>2
<1> QED BY <1>1, <1>3 DEF k

----------------------------------------------------------------------------
(* What is called for.                                                     *)

LEMMA CalledFor ==
    ASSUME LInv, NEW path \in Called
    PROVE  /\ path \in Paths /\ path \in Reached
           /\ \/ loading = <<>> /\ path = Entry /\ ~Started
              \/ LET n == Len(loading)
                 IN  /\ loading # <<>> /\ n \in 1..n /\ Top = loading[n]
                     /\ loading[n].next \in 1..Len(loading[n].text.imports)
                     /\ path = loading[n].text.imports[loading[n].next]
                     /\ path \in ImportsOf(loading[n].path)
                     /\ loading[n].path \in Reached
<1>1. Reached \subseteq Paths /\ {Entry} \in SUBSET Paths
  BY ReachIsPaths, EntryIsAPath DEF Reached
<1>2. CASE loading = <<>>
  <2>1. path = Entry /\ ~Started
    BY <1>2 DEF Called
  <2>2. Entry \in Reached
    BY <1>1, ReachBegins DEF Reached
  <2> QED BY <1>2, <2>1, <2>2, EntryIsAPath
<1>3. CASE loading # <<>>
  <2>1. PICK n \in Nat : n = Len(loading)
    BY DEF LInv, LoaderTypes
  <2>2. n \in 1..n /\ Top = loading[n] /\ loading[n] \in [path : Paths, text : Held, next : Nat]
    BY <1>3, <2>1, LastOf DEF LInv, LoaderTypes, Top
  <2>3. /\ loading[n].text = sources[loading[n].path] /\ Parses(sources[loading[n].path])
        /\ loading[n].next \in 1..(Len(loading[n].text.imports) + 1)
        /\ loading[n].path \in seen
    BY <2>1, <2>2 DEF LInv, StackIsPath
  <2>4. path = loading[n].text.imports[loading[n].next] /\ ~(loading[n].next > Len(loading[n].text.imports))
    BY <1>3, <2>2 DEF Called
  <2>5. /\ loading[n].text.imports \in Seq(Paths)
        /\ \A k \in 1..Len(loading[n].text.imports) :
              loading[n].text.imports[k] \in ImportsOf(loading[n].path)
    BY <2>2, <2>3, ImportsArePaths DEF LInv, LoaderTypes
  <2>6. loading[n].next \in 1..Len(loading[n].text.imports)
    BY <2>3, <2>4, <2>5
  <2>7. loading[n].path \in Reached
    BY <2>3 DEF LInv, SeenIsKept
  <2>8. path \in ImportsOf(loading[n].path)
    BY <2>4, <2>5, <2>6
  <2>9. path \in Reached
    BY <1>1, <2>7, <2>8, ReachGoesOn DEF LInv, LoaderTypes, Reached
  <2> QED BY <1>1, <1>3, <2>1, <2>2, <2>4, <2>6, <2>7, <2>8, <2>9
<1> QED BY <1>2, <1>3

\* Its importer has gone on.
LEMMA GoneOn ==
    ASSUME LInv, NEW path \in Called
    PROVE  /\ Returned \in Seq([path : Paths, text : Held, next : Nat])
           /\ Len(Returned) = Len(loading) /\ Len(loading) \in Nat
           /\ \A i \in 1..Len(loading) :
                 /\ Returned[i].path = loading[i].path /\ Returned[i].text = loading[i].text
                 /\ i # Len(loading) => Returned[i] = loading[i]
                 /\ i = Len(loading) => Returned[i].next = loading[i].next + 1
<1>1. CASE loading = <<>>
  BY <1>1 DEF Returned, LInv, LoaderTypes
<1>2. CASE loading # <<>>
  <2> DEFINE F == [path : Paths, text : Held, next : Nat]
  <2>1. PICK n \in Nat : n = Len(loading)
    BY DEF LInv, LoaderTypes
  <2>2. n \in 1..n /\ loading[n] \in F /\ loading \in Seq(F)
    BY <1>2, <2>1, LastOf DEF LInv, LoaderTypes
  <2>3. PICK frame : frame = [loading[n] EXCEPT !.next = @ + 1]
    OBVIOUS
  <2>4. /\ frame \in F /\ frame.path = loading[n].path /\ frame.text = loading[n].text
        /\ frame.next = loading[n].next + 1
    BY <2>2, <2>3
  <2>5. Returned = [loading EXCEPT ![n] = frame]
    BY <1>2, <2>1, <2>2, <2>3 DEF Returned
  <2> HIDE DEF F
  <2>6. Returned \in Seq(F) /\ Len(Returned) = n /\ Returned[n] = frame
        /\ \A i \in 1..n : i # n => Returned[i] = loading[i]
    BY <2>1, <2>2, <2>4, <2>5
  <2> QED BY <2>1, <2>2, <2>4, <2>6 DEF F
<1> QED BY <1>1, <1>2

----------------------------------------------------------------------------
(* Loads that return at once.                                              *)

LEMMA SameGraph ==
    ASSUME UNCHANGED sources
    PROVE  /\ \A p : ImportsOf(p)' = ImportsOf(p)
           /\ \A from : Reach(from)' = Reach(from)
           /\ \A p : OnCycle(p)' <=> OnCycle(p)
           /\ Reached' = Reached /\ Held' = Held /\ Readable' = Readable
<1>1. \A p : ImportsOf(p)' = ImportsOf(p)
  BY DEF ImportsOf
<1>2. \A from : Reach(from)' = Reach(from)
  BY <1>1 DEF Reach
<1> QED BY <1>1, <1>2 DEF OnCycle, Reached, Held, Readable

\* What has been said stays said.
LEMMA SaidIsSaid ==
    ASSUME LoaderTypes, UNCHANGED sources, seen \subseteq seen',
           problems' = problems \/ \E p \in [what : Whats, about : Paths] : problems' = Append(problems, p)
    PROVE  /\ problems' \in Seq([what : Whats, about : Paths])
           /\ \A p : Told(p) => Told(p)'
           /\ CycleFound => CycleFound'
           /\ \A p : Visited(p) => Visited(p)'
<1> DEFINE S == [what : Whats, about : Paths]
<1>1. /\ problems' \in Seq(S)
      /\ Len(problems) \in Nat /\ Len(problems') \in Nat /\ Len(problems) <= Len(problems')
      /\ \A i \in 1..Len(problems) : problems'[i] = problems[i]
  <2>1. CASE problems' = problems
    BY <2>1 DEF LoaderTypes
  <2>2. CASE \E p \in S : problems' = Append(problems, p)
    <3>1. PICK p \in S : problems' = Append(problems, p)
      BY <2>2
    <3> HIDE DEF S
    <3>2. problems \in Seq(S)
      BY DEF LoaderTypes, S
    <3> QED BY <3>1, <3>2, Appended
  <2> QED BY <2>1, <2>2
<1>2. \A i \in 1..Len(problems) : i \in 1..Len(problems') /\ problems'[i] = problems[i]
  BY <1>1
<1> QED BY <1>1, <1>2 DEF Told, CycleFound, Visited

LEMMA ReturnKeeps ==
    ASSUME LInv, UNCHANGED sources, NEW path \in Called,
           loading' = Returned, files' = files, seen \subseteq seen', seen' \subseteq seen \cup {path},
           problems' = problems \/ \E p \in [what : Whats, about : Paths] : problems' = Append(problems, p),
           Visited(path)',
           path \in seen \/ (~Parses(sources[path]) /\ Told(path)'),
           ~CycleFound' => ~Parses(sources[path]) \/ Recorded(path),
           loading = <<>> => problems' # <<>>
    PROVE  /\ LoaderTypes' /\ StackIsPath' /\ RecordedOnce' /\ SeenIsKept'
           /\ ImportsVisited' /\ ImportsBefore' /\ EntryComesLast'
<1> DEFINE F == [path : Paths, text : Held, next : Nat]
           n == Len(loading)
<1>1. /\ path \in Paths /\ path \in Reached
      /\ \/ loading = <<>> /\ path = Entry /\ ~Started
         \/ /\ loading # <<>> /\ n \in 1..n
            /\ loading[n].next \in 1..Len(loading[n].text.imports)
            /\ path = loading[n].text.imports[loading[n].next]
  BY CalledFor
<1>2. /\ loading' \in Seq(F) /\ Len(loading') = n /\ n \in Nat
      /\ \A i \in 1..n :
            /\ loading'[i].path = loading[i].path /\ loading'[i].text = loading[i].text
            /\ i # n => loading'[i] = loading[i]
            /\ i = n => loading'[i].next = loading[i].next + 1
  BY GoneOn
<1>3. /\ problems' \in Seq([what : Whats, about : Paths])
      /\ \A p : Told(p) => Told(p)'
      /\ CycleFound => CycleFound'
      /\ \A p : Visited(p) => Visited(p)'
  BY SaidIsSaid DEF LInv
<1>4. /\ \A p : ImportsOf(p)' = ImportsOf(p)
      /\ \A from : Reach(from)' = Reach(from)
      /\ Reached' = Reached /\ Held' = Held /\ Readable' = Readable
  BY SameGraph
<1>5. /\ \A i \in 1..n : loading[i] \in F /\ loading[i].next \in Nat
      /\ (loading # <<>>) <=> (n # 0)
  <2>1. loading \in Seq(F)
    BY DEF LInv, LoaderTypes
  <2>2. (loading # <<>>) <=> (n # 0)
    BY <2>1
  <2> HIDE DEF F
  <2>3. \A i \in 1..n : loading[i] \in F
    BY <2>1
  <2> QED BY <2>2, <2>3 DEF F
<1>6. (loading' = <<>>) <=> (loading = <<>>)
  BY <1>2, <1>5
<1>7. LoaderTypes'
  BY <1>1, <1>2, <1>3, <1>4 DEF LInv, LoaderTypes
<1> HIDE DEF F, n
<1>8. StackIsPath'
  <2>1. ASSUME NEW i \in 1..n
        PROVE  /\ loading'[i].text = sources[loading'[i].path]
               /\ Parses(sources[loading'[i].path])
               /\ loading'[i].next \in 1..(Len(loading'[i].text.imports) + 1)
               /\ loading'[i].path \in seen'
    <3>1. /\ loading[i].text = sources[loading[i].path]
          /\ Parses(sources[loading[i].path])
          /\ loading[i].next \in 1..(Len(loading[i].text.imports) + 1)
          /\ loading[i].path \in seen
      BY DEF LInv, StackIsPath, n
    <3>2. CASE i # n
      BY <1>2, <3>1, <3>2
    <3>3. CASE i = n
      <4>1. loading[i].next \in 1..Len(loading[i].text.imports)
        BY <1>1, <1>5, <3>3
      <4>2. loading[i].next + 1 \in 1..(Len(loading[i].text.imports) + 1)
        <5>1. PICK m : m = Len(loading[i].text.imports)
          OBVIOUS
        <5>2. m \in Nat
          <6>1. loading[i].path \in Paths
            BY <1>5 DEF F
          <6>2. sources[loading[i].path].imports \in Seq(Paths)
            BY <3>1, <6>1, ImportsArePaths DEF LInv, LoaderTypes
          <6> QED BY <3>1, <5>1, <6>2
        <5>3. PICK k \in 1..m : k = loading[i].next
          BY <4>1, <5>1
        <5>4. k + 1 \in 1..(m + 1)
          BY <5>2
        <5> QED BY <5>1, <5>3, <5>4
      <4> QED BY <1>2, <3>1, <3>3, <4>2
    <3> QED BY <3>2, <3>3
  <2>2. ASSUME NEW i \in 1..n, NEW j \in 1..n, i < j
        PROVE  /\ loading'[i].path # loading'[j].path
               /\ loading'[j].path \in Reach(ImportsOf(loading'[i].path))
    BY <1>2, <2>2 DEF LInv, StackIsPath, n
  <2>3. loading' # <<>> => loading'[1].path = Entry
    BY <1>2, <1>5, <1>6 DEF LInv, StackIsPath
  <2> QED BY <1>2, <1>4, <2>1, <2>2, <2>3 DEF StackIsPath
<1>9. RecordedOnce'
  BY <1>2 DEF LInv, RecordedOnce, n
<1>10. SeenIsKept'
  <2>1. ASSUME NEW p \in seen'
        PROVE  /\ p \in Reached
               /\ \/ \E i \in 1..n : loading'[i].path = p
                  \/ Recorded(p)
                  \/ ~Parses(sources[p]) /\ Told(p)'
    <3>1. CASE p \in seen
      BY <1>2, <1>3, <3>1 DEF LInv, SeenIsKept, n
    <3>2. CASE p \notin seen
      BY <1>1, <3>2
    <3> QED BY <3>1, <3>2
  <2>2. \A p : Recorded(p)' <=> Recorded(p)
    BY DEF Recorded
  <2> QED BY <1>2, <1>4, <2>1, <2>2 DEF SeenIsKept
<1>11. ImportsVisited'
  <2>1. ASSUME NEW i \in 1..n, NEW k \in 1..(loading'[i].next - 1)
        PROVE  Visited(loading[i].text.imports[k])'
    <3>1. CASE k \in 1..(loading[i].next - 1)
      <4>1. Visited(loading[i].text.imports[k])
        BY <3>1 DEF LInv, ImportsVisited, n
      <4>2. PICK q : q = loading[i].text.imports[k]
        OBVIOUS
      <4>3. Visited(q)' /\ loading'[i].text.imports[k] = q
        BY <1>2, <1>3, <4>1, <4>2
      <4> QED BY <4>3 DEF Visited, Told
    <3>2. CASE i = n /\ k = loading[n].next
      <4>1. loading'[i].text.imports[k] = path
        BY <1>1, <1>2, <1>5, <3>2
      <4> QED BY <4>1 DEF Visited, Told
    <3>3. k \in 1..(loading[i].next - 1) \/ (i = n /\ k = loading[n].next)
      <4>1. CASE i # n
        BY <1>2, <4>1
      <4>2. CASE i = n
        BY <1>2, <1>5, <4>2
      <4> QED BY <4>1, <4>2
    <3> QED BY <3>1, <3>2, <3>3
  <2>2. ASSUME NEW i \in 1..Len(files), NEW k \in 1..Len(files[i].text.imports)
        PROVE  Visited(files[i].text.imports[k])'
    <3>1. PICK q : q = files[i].text.imports[k]
      OBVIOUS
    <3>2. Visited(q)
      BY <3>1 DEF LInv, ImportsVisited
    <3>3. Visited(q)' /\ files'[i].text.imports[k] = q
      BY <1>3, <3>1, <3>2
    <3> QED BY <3>3 DEF Visited, Told
  <2>3. Visited(Entry)'
    <3>1. CASE loading = <<>>
      BY <1>1, <3>1
    <3>2. CASE loading # <<>>
      <4>1. loading[1].path \in seen /\ Started
        BY <1>1, <1>5, <3>2 DEF LInv, StackIsPath, Started, n
      <4> QED BY <1>3, <4>1 DEF LInv, ImportsVisited
    <3> QED BY <3>1, <3>2
  <2> QED BY <1>2, <2>1, <2>2, <2>3 DEF ImportsVisited, Visited, Told
<1>12. ImportsBefore'
  <2>0. \A p : Recorded(p)' <=> Recorded(p)
    BY DEF Recorded
  <2>1. ASSUME ~CycleFound', NEW i \in 1..n, NEW k \in 1..(loading'[i].next - 1)
        PROVE  LET q == loading'[i].text.imports[k]
               IN  ~Parses(sources[q]) \/ Recorded(q) \/ (i < n /\ q = loading'[i + 1].path)
    <3>1. CASE k \in 1..(loading[i].next - 1)
      <4>1. PICK q : q = loading[i].text.imports[k]
        OBVIOUS
      <4>2. ~Parses(sources[q]) \/ Recorded(q) \/ (i < n /\ q = loading[i + 1].path)
        BY <1>3, <2>1, <3>1, <4>1 DEF LInv, ImportsBefore, n
      <4>3. i < n => loading'[i + 1].path = loading[i + 1].path
        BY <1>2
      <4>4. loading'[i].text.imports[k] = q
        BY <1>2, <4>1
      <4> QED BY <4>2, <4>3, <4>4
    <3>2. CASE i = n /\ k = loading[n].next
      <4>1. loading'[i].text.imports[k] = path
        BY <1>1, <1>2, <1>5, <3>2
      <4> QED BY <2>1, <4>1
    <3>3. k \in 1..(loading[i].next - 1) \/ (i = n /\ k = loading[n].next)
      <4>1. CASE i # n
        BY <1>2, <4>1
      <4>2. CASE i = n
        BY <1>2, <1>5, <4>2
      <4> QED BY <4>1, <4>2
    <3> QED BY <3>1, <3>2, <3>3
  <2>2. ASSUME ~CycleFound', NEW i \in 1..Len(files), NEW k \in 1..Len(files[i].text.imports)
        PROVE  LET q == files[i].text.imports[k]
               IN  ~Parses(sources[q]) \/ \E j \in 1..(i - 1) : files[j].path = q
    BY <1>3, <2>2 DEF LInv, ImportsBefore
  <2> QED BY <1>2, <2>0, <2>1, <2>2 DEF ImportsBefore
<1>13. EntryComesLast'
  BY <1>6 DEF EntryComesLast
<1> QED BY <1>7, <1>8, <1>9, <1>10, <1>11, <1>12, <1>13

\* One more thing is said.
LEMMA ProblemsAreASequence ==
    ASSUME LInv
    PROVE  problems \in Seq([what : Whats, about : Paths]) /\ Len(problems) \in Nat
<1>1. problems \in Seq([what : Whats, about : Paths])
  BY DEF LInv, LoaderTypes
<1> QED BY <1>1

LEMMA MoreIsSaid ==
    ASSUME LInv, UNCHANGED sources, seen \subseteq seen',
           NEW p \in [what : Whats, about : Paths], problems' = Append(problems, p),
           IsSo(p),
           p.what = "syntax" => p.about \in seen' /\ p.about \notin seen
    PROVE  ProblemsAreSo' /\ Told(p.about)' /\ (p.what = "import cycle" => CycleFound')
<1>1. PICK n \in Nat : n = Len(problems)
  BY ProblemsAreASequence
<1>2. /\ Len(problems') = n + 1 /\ problems'[n + 1] = p /\ n + 1 \in 1..(n + 1)
      /\ \A i \in 1..n : problems'[i] = problems[i]
      /\ \A i \in 1..(n + 1) : i \in 1..n \/ i = n + 1
  <2> DEFINE S == [what : Whats, about : Paths]
  <2>1. problems \in Seq(S) /\ p \in S
    BY ProblemsAreASequence
  <2>2. PICK said, before : said = problems' /\ before = problems
    OBVIOUS
  <2> HIDE DEF S
  <2>3. before \in Seq(S) /\ said = Append(before, p) /\ n = Len(before)
    BY <1>1, <2>1, <2>2
  <2>4. /\ Len(said) = n + 1 /\ said[n + 1] = p /\ n + 1 \in 1..(n + 1)
        /\ \A i \in 1..n : said[i] = before[i]
        /\ \A i \in 1..(n + 1) : i \in 1..n \/ i = n + 1
    BY <2>1, <2>3, OneMore
  <2> QED BY <2>2, <2>4
<1>3. Told(p.about)' /\ (p.what = "import cycle" => CycleFound')
  BY <1>2 DEF Told, CycleFound
<1>4. \A q : IsSo(q)' <=> IsSo(q)
  BY SameGraph DEF IsSo
<1>5. ASSUME NEW i \in 1..(n + 1)
      PROVE  IsSo(problems'[i])
  <2>1. CASE i = n + 1
    BY <1>2, <2>1
  <2>2. CASE i \in 1..n
    BY <1>1, <1>2, <2>2 DEF LInv, ProblemsAreSo
  <2> QED BY <1>2, <2>1, <2>2
<1>6. \A i \in 1..n : problems'[i].what = "syntax" => problems'[i].about \in seen
  BY <1>1, <1>2 DEF LInv, ProblemsAreSo
<1>7. ASSUME NEW i \in 1..(n + 1), NEW j \in 1..(n + 1),
             problems'[i] = problems'[j], problems'[i].what = "syntax"
      PROVE  i = j
  <2>1. CASE i \in 1..n /\ j \in 1..n
    <3>1. problems[i] = problems[j] /\ problems[i].what = "syntax"
      BY <1>2, <1>7, <2>1
    <3> QED BY <1>1, <2>1, <3>1 DEF LInv, ProblemsAreSo
  <2>2. CASE i = n + 1 \/ j = n + 1
    <3>1. problems'[i].about \notin seen
      BY <1>2, <1>7, <2>2
    <3> QED BY <1>2, <1>6, <1>7, <3>1
  <2> QED BY <1>2, <2>1, <2>2
<1>8. \A i \in 1..(n + 1) : problems'[i].what = "syntax" => problems'[i].about \in seen'
  BY <1>2, <1>6
<1> QED BY <1>2, <1>3, <1>4, <1>5, <1>7, <1>8 DEF ProblemsAreSo

LEMMA IsProblem ==
    ASSUME NEW what \in Whats, NEW path \in Paths
    PROVE  LET p == Problem(what, path)
           IN  p \in [what : Whats, about : Paths] /\ p.what = what /\ p.about = path
BY DEF Problem

LEMMA Stacked ==
    ASSUME LInv
    PROVE  /\ Len(loading) \in Nat
           /\ \A p : OnStack(p) <=> \E i \in 1..Len(loading) : loading[i].path = p
BY DEF LInv, LoaderTypes, OnStack

LEMMA CannotReadStep ==
    ASSUME LInv, UNCHANGED sources, CannotRead
    PROVE  LInv'
<1>1. PICK path \in Called :
         /\ sources[path] \in {Missing, Unreadable}
         /\ Return(seen, Append(problems, Problem("cannot read", path)))
  BY DEF CannotRead
<1>2. path \in Paths /\ path \in Reached
  BY <1>1, CalledFor
<1>3a. PICK p : p = Problem("cannot read", path)
  OBVIOUS
<1>3. p \in [what : Whats, about : Paths] /\ p.what = "cannot read" /\ p.about = path
  BY <1>2, <1>3a, IsProblem DEF Whats
<1>4. ~Parses(sources[path])
  <2>1. CASE sources[path] = Missing
    BY <2>1 DEF Parses, IsText, Missing
  <2>2. CASE sources[path] = Unreadable
    BY <2>2 DEF Parses, IsText, Unreadable
  <2> QED BY <1>1, <2>1, <2>2
<1>5. loading' = Returned /\ seen' = seen /\ problems' = Append(problems, p) /\ files' = files
  BY <1>1, <1>3a DEF Return
<1>6. ProblemsAreSo' /\ Told(path)'
  BY <1>2, <1>3, <1>4, <1>5, MoreIsSaid DEF IsSo
<1>7. Visited(path)'
  BY <1>4, <1>6 DEF Visited
<1>8. problems' # <<>>
  <2>1. Len(problems') = Len(problems) + 1 /\ Len(problems) \in Nat
    BY <1>5, Appended DEF LInv, LoaderTypes
  <2> QED BY <2>1
<1>9. seen \subseteq seen' /\ seen' \subseteq seen \cup {path}
  BY <1>5
<1>10. path \in Called
  BY <1>1
<1>11. \E q \in [what : Whats, about : Paths] : problems' = Append(problems, q)
  BY <1>3, <1>5
<1> QED BY <1>4, <1>5, <1>6, <1>7, <1>8, <1>9, <1>10, <1>11, ReturnKeeps DEF LInv

LEMMA DoesNotParseStep ==
    ASSUME LInv, UNCHANGED sources, DoesNotParse
    PROVE  LInv'
<1>1. PICK path \in Called :
         /\ IsText(sources[path]) /\ ~sources[path].parses /\ ~AlreadySeen(path)
         /\ Return(seen \cup {path}, Append(problems, Problem("syntax", path)))
  BY DEF DoesNotParse
<1>2. path \in Paths /\ path \in Reached
  BY <1>1, CalledFor
<1>3a. PICK p : p = Problem("syntax", path)
  OBVIOUS
<1>3. p \in [what : Whats, about : Paths] /\ p.what = "syntax" /\ p.about = path
  BY <1>2, <1>3a, IsProblem DEF Whats
<1>4. ~Parses(sources[path]) /\ path \notin seen
  BY <1>1 DEF Parses, AlreadySeen
<1>5. loading' = Returned /\ seen' = seen \cup {path} /\ problems' = Append(problems, p) /\ files' = files
  BY <1>1, <1>3a DEF Return
<1>9. seen \subseteq seen' /\ seen' \subseteq seen \cup {path} /\ path \in seen'
  BY <1>5
<1>6. ProblemsAreSo' /\ Told(path)'
  BY <1>2, <1>3, <1>4, <1>5, <1>9, MoreIsSaid DEF IsSo
<1>7. Visited(path)'
  BY <1>9 DEF Visited
<1>8. problems' # <<>>
  <2>1. Len(problems') = Len(problems) + 1 /\ Len(problems) \in Nat
    BY <1>5, Appended DEF LInv, LoaderTypes
  <2> QED BY <2>1
<1>10. path \in Called
  BY <1>1
<1>11. \E q \in [what : Whats, about : Paths] : problems' = Append(problems, q)
  BY <1>3, <1>5
<1> QED BY <1>4, <1>5, <1>6, <1>7, <1>8, <1>9, <1>10, <1>11, ReturnKeeps DEF LInv

LEMMA CycleStep ==
    ASSUME LInv, UNCHANGED sources, Cycle
    PROVE  LInv'
<1>1. PICK path \in Called :
         /\ OnStack(path)
         /\ Return(seen, Append(problems, Problem("import cycle", path)))
  BY DEF Cycle
<1>n. PICK n \in Nat : n = Len(loading)
  BY Stacked
<1>2. PICK k \in 1..n : loading[k].path = path
  BY <1>n, <1>1, Stacked
<1>3. /\ path \in Paths /\ path \in Reached /\ loading # <<>> /\ n \in 1..n
      /\ path \in ImportsOf(loading[n].path)
  <2>1. loading # <<>>
    BY <1>n, <1>2
  <2> QED BY <1>n, <1>1, <2>1, CalledFor
<1>4. path \in seen
  BY <1>n, <1>2 DEF LInv, StackIsPath
<1>5. OnCycle(path)
  <2>1. ImportsOf(path) \in SUBSET Paths
    BY <1>3, ImportsArePaths DEF LInv, LoaderTypes
  <2>2. CASE k = n
    BY <1>2, <1>3, <2>1, <2>2, ReachBegins DEF OnCycle
  <2>3. CASE k # n
    <3>1. k < n
      BY <2>3
    <3>2. loading[n].path \in Reach(ImportsOf(path))
      BY <1>n, <1>2, <1>3, <3>1 DEF LInv, StackIsPath
    <3> QED BY <1>3, <2>1, <3>2, ReachGoesOn DEF OnCycle, LInv, LoaderTypes
  <2> QED BY <2>2, <2>3
<1>6a. PICK p : p = Problem("import cycle", path)
  OBVIOUS
<1>6. p \in [what : Whats, about : Paths] /\ p.what = "import cycle" /\ p.about = path
  BY <1>3, <1>6a, IsProblem DEF Whats
<1>7. loading' = Returned /\ seen' = seen /\ problems' = Append(problems, p) /\ files' = files
  BY <1>1, <1>6a DEF Return
<1>8. ProblemsAreSo' /\ CycleFound'
  BY <1>5, <1>6, <1>7, MoreIsSaid DEF IsSo
<1>9. Visited(path)' /\ seen \subseteq seen' /\ seen' \subseteq seen \cup {path}
  BY <1>4, <1>7 DEF Visited
<1>10. path \in Called
  BY <1>1
<1> QED BY <1>3, <1>4, <1>6, <1>7, <1>8, <1>9, <1>10, ReturnKeeps DEF LInv

LEMMA DiamondStep ==
    ASSUME LInv, UNCHANGED sources, Diamond
    PROVE  LInv'
<1>1. PICK path \in Called : ~OnStack(path) /\ AlreadySeen(path) /\ Return(seen, problems)
  BY DEF Diamond
<1>2. path \in Called /\ path \in seen
  BY <1>1 DEF AlreadySeen
<1>3. loading' = Returned /\ seen' = seen /\ problems' = problems /\ files' = files
  BY <1>1 DEF Return
<1>4. Recorded(path) \/ ~Parses(sources[path])
  BY <1>1, <1>2, Stacked DEF LInv, SeenIsKept
<1>5. loading # <<>>
  BY <1>2, CalledFor DEF Started
<1>6. Visited(path)'
  BY <1>2, <1>3 DEF Visited
<1>7. ProblemsAreSo'
  <2>1. \A q : IsSo(q)' <=> IsSo(q)
    BY SameGraph DEF IsSo
  <2> QED BY <1>3, <2>1 DEF LInv, ProblemsAreSo
<1> QED BY <1>2, <1>3, <1>4, <1>5, <1>6, <1>7, ReturnKeeps DEF LInv

\* The imports called for before the load returned, and this one.
LEMMA ImporterGoesOn ==
    ASSUME LInv, NEW path \in Called, NEW i \in 1..Len(loading)
    PROVE  /\ Returned[i].next \in 1..(Len(loading[i].text.imports) + 1)
           /\ \A k \in 1..(Returned[i].next - 1) :
                 \/ k \in 1..(loading[i].next - 1)
                 \/ i = Len(loading) /\ loading[i].text.imports[k] = path
<1>1. PICK n \in Nat : n = Len(loading)
  BY Stacked
<1>2. /\ i # n => Returned[i] = loading[i]
      /\ i = n => Returned[i].next = loading[i].next + 1
  BY <1>1, GoneOn
<1>3. /\ loading[i].next \in 1..(Len(loading[i].text.imports) + 1)
      /\ loading[i].text.imports \in Seq(Paths)
  <2>1. /\ loading[i].text = sources[loading[i].path] /\ Parses(sources[loading[i].path])
        /\ loading[i].next \in 1..(Len(loading[i].text.imports) + 1)
        /\ loading[i].path \in seen /\ seen \subseteq Paths
    BY DEF LInv, StackIsPath, LoaderTypes
  <2> QED BY <2>1, ImportsArePaths DEF LInv, LoaderTypes
<1>4a. PICK m \in Nat : m = Len(loading[i].text.imports)
  BY <1>3
<1>4. PICK d \in 1..(m + 1) : m = Len(loading[i].text.imports) /\ d = loading[i].next
  BY <1>3, <1>4a
<1>5. CASE i # n
  BY <1>2, <1>3, <1>5
<1>6. CASE i = n
  <2>1. d \in 1..m /\ path = loading[i].text.imports[d]
    <3>1. loading # <<>>
      BY <1>1
    <3> QED BY <1>1, <1>4, <1>6, <3>1, CalledFor
  <2>2. d + 1 \in 1..(m + 1) /\ \A k \in 1..((d + 1) - 1) : k \in 1..(d - 1) \/ k = d
    BY <2>1
  <2> QED BY <1>1, <1>2, <1>4, <1>6, <2>1, <2>2
<1> QED BY <1>5, <1>6

----------------------------------------------------------------------------
(* A file that is opened, and one that is left.                            *)

LEMMA OpenStep ==
    ASSUME LInv, UNCHANGED sources, Open
    PROVE  LInv'
<1> DEFINE F == [path : Paths, text : Held, next : Nat]
<1>1. PICK path \in Called :
         /\ Parses(sources[path]) /\ ~OnStack(path) /\ path \notin seen
         /\ loading' = Append(Returned, [path |-> path, text |-> sources[path], next |-> 1])
         /\ seen' = seen \cup {path}
         /\ files' = files /\ problems' = problems
  BY DEF Open, AlreadySeen
<1>2. PICK n \in Nat : n = Len(loading)
  BY Stacked
<1>3. PICK frame : frame = [path |-> path, text |-> sources[path], next |-> 1]
  OBVIOUS
<1>4. /\ path \in Paths /\ path \in Reached
      /\ (loading = <<>>) <=> (n = 0)
      /\ n = 0 => path = Entry
      /\ n # 0 => n \in 1..n /\ path \in ImportsOf(loading[n].path) /\ loading[n].path \in Paths
  <2>1. (loading = <<>>) <=> (n = 0)
    BY <1>2 DEF LInv, LoaderTypes
  <2>2. Reached \subseteq Paths
    BY ReachIsPaths DEF Reached
  <2>3. path \in Called
    BY <1>1
  <2> QED BY <1>2, <2>1, <2>2, <2>3, CalledFor
<1>5. frame \in F /\ frame.path = path /\ frame.text = sources[path] /\ frame.next = 1
  BY <1>3, <1>4 DEF Held
<1>6. /\ \A i \in 1..n :
            /\ Returned[i].path = loading[i].path /\ Returned[i].text = loading[i].text
            /\ Returned[i].next \in 1..(Len(loading[i].text.imports) + 1)
            /\ \A k \in 1..(Returned[i].next - 1) :
                  \/ k \in 1..(loading[i].next - 1)
                  \/ i = n /\ loading[i].text.imports[k] = path
      /\ Returned \in Seq(F) /\ Len(Returned) = n
  BY <1>1, <1>2, GoneOn, ImporterGoesOn
<1>7. /\ loading' \in Seq(F) /\ Len(loading') = n + 1 /\ n + 1 \in 1..(n + 1)
      /\ loading'[n + 1] = frame
      /\ \A i \in 1..n : loading'[i] = Returned[i] /\ i \in 1..(n + 1)
      /\ \A i \in 1..(n + 1) : i \in 1..n \/ i = n + 1
  <2>1. PICK before, now : before = Returned /\ now = loading'
    OBVIOUS
  <2> HIDE DEF F
  <2>2. before \in Seq(F) /\ now = Append(before, frame) /\ n = Len(before)
    BY <1>1, <1>3, <1>6, <2>1
  <2>3. frame \in F
    BY <1>5
  <2>4. /\ now \in Seq(F) /\ Len(now) = n + 1 /\ now[n + 1] = frame /\ n + 1 \in 1..(n + 1)
        /\ \A i \in 1..n : now[i] = before[i] /\ i \in 1..(n + 1)
        /\ \A i \in 1..(n + 1) : i \in 1..n \/ i = n + 1
    BY <2>2, <2>3, OneMore
  <2> QED BY <2>1, <2>4
<1>8. \A p : Visited(p) => Visited(p)'
  BY <1>1 DEF Visited, Told
<1>9. /\ \A p : ImportsOf(p)' = ImportsOf(p)
      /\ \A from : Reach(from)' = Reach(from)
      /\ Reached' = Reached /\ Held' = Held /\ Readable' = Readable
      /\ \A p : OnCycle(p)' <=> OnCycle(p)
  BY SameGraph
<1>10. LoaderTypes'
  BY <1>1, <1>4, <1>7, <1>9 DEF LInv, LoaderTypes
<1> HIDE DEF F
<1>11. StackIsPath'
  <2>1. ASSUME NEW i \in 1..(n + 1)
        PROVE  /\ loading'[i].text = sources[loading'[i].path]
               /\ Parses(sources[loading'[i].path])
               /\ loading'[i].next \in 1..(Len(loading'[i].text.imports) + 1)
               /\ loading'[i].path \in seen'
    <3>1. CASE i \in 1..n
      <4>1. /\ loading[i].text = sources[loading[i].path]
            /\ Parses(sources[loading[i].path])
            /\ loading[i].path \in seen
        BY <1>2, <3>1 DEF LInv, StackIsPath
      <4> QED BY <1>1, <1>6, <1>7, <3>1, <4>1
    <3>2. CASE i = n + 1
      <4>1. sources[path].imports \in Seq(Paths)
        BY <1>1, <1>4, ImportsArePaths DEF LInv, LoaderTypes
      <4>2. 1 \in 1..(Len(sources[path].imports) + 1)
        BY <4>1
      <4> QED BY <1>1, <1>5, <1>7, <3>2, <4>2
    <3> QED BY <1>7, <3>1, <3>2
  <2>2. ASSUME NEW i \in 1..n
        PROVE  /\ loading[i].path # path
               /\ path \in Reach(ImportsOf(loading[i].path))
    <3>1. loading[i].path # path
      BY <1>1, <1>2, Stacked
    <3>2. loading[i].path \in Paths /\ ImportsOf(loading[i].path) \in SUBSET Paths
      <4>1. loading[i].path \in seen /\ seen \subseteq Paths
        BY <1>2 DEF LInv, StackIsPath, LoaderTypes
      <4> QED BY <4>1, ImportsArePaths DEF LInv, LoaderTypes
    <3>3. CASE i = n
      BY <1>4, <3>1, <3>2, <3>3, ReachBegins
    <3>4. CASE i < n
      <4>1. loading[n].path \in Reach(ImportsOf(loading[i].path))
        BY <1>2, <1>4, <3>4 DEF LInv, StackIsPath
      <4> QED BY <1>4, <3>1, <3>2, <3>4, <4>1, ReachGoesOn DEF LInv, LoaderTypes
    <3> QED BY <3>3, <3>4
  <2>3. ASSUME NEW i \in 1..(n + 1), NEW j \in 1..(n + 1), i < j
        PROVE  /\ loading'[i].path # loading'[j].path
               /\ loading'[j].path \in Reach(ImportsOf(loading'[i].path))
    <3>1. i \in 1..n
      BY <2>3
    <3>2. CASE j \in 1..n
      <4>1. loading[i].path # loading[j].path /\ loading[j].path \in Reach(ImportsOf(loading[i].path))
        BY <1>2, <2>3, <3>1, <3>2 DEF LInv, StackIsPath
      <4> QED BY <1>6, <1>7, <3>1, <3>2, <4>1
    <3>3. CASE j = n + 1
      <4>1. loading'[i].path = loading[i].path /\ loading'[j].path = path
        BY <1>5, <1>6, <1>7, <3>1, <3>3
      <4>2. loading[i].path # path /\ path \in Reach(ImportsOf(loading[i].path))
        BY <2>2, <3>1
      <4> QED BY <4>1, <4>2
    <3> QED BY <1>7, <3>2, <3>3
  <2>4. loading'[1].path = Entry
    <3>1. CASE n = 0
      BY <1>4, <1>5, <1>7, <3>1
    <3>2. CASE n # 0
      <4>1. 1 \in 1..n
        BY <3>2
      <4> QED BY <1>4, <1>6, <1>7, <3>2, <4>1 DEF LInv, StackIsPath
    <3> QED BY <3>1, <3>2
  <2> QED BY <1>7, <1>9, <2>1, <2>3, <2>4 DEF StackIsPath
<1>12. RecordedOnce'
  <2>1. ASSUME NEW i \in 1..Len(files), NEW j \in 1..(n + 1)
        PROVE  loading'[j].path # files[i].path
    <3>1. CASE j \in 1..n
      BY <1>2, <1>6, <1>7, <3>1 DEF LInv, RecordedOnce
    <3>2. CASE j = n + 1
      BY <1>1, <1>5, <1>7, <3>2 DEF LInv, RecordedOnce
    <3> QED BY <1>7, <3>1, <3>2
  <2> QED BY <1>1, <1>7, <2>1 DEF LInv, RecordedOnce
<1>13. SeenIsKept'
  <2>1. ASSUME NEW p \in seen'
        PROVE  /\ p \in Reached
               /\ \/ \E i \in 1..(n + 1) : loading'[i].path = p
                  \/ Recorded(p)
                  \/ ~Parses(sources[p]) /\ Told(p)
    <3>1. CASE p \in seen
      BY <1>2, <1>6, <1>7, <3>1 DEF LInv, SeenIsKept
    <3>2. CASE p = path
      BY <1>4, <1>5, <1>7, <3>2
    <3> QED BY <1>1, <3>1, <3>2
  <2>2. \A p : (Recorded(p)' <=> Recorded(p)) /\ (Told(p)' <=> Told(p))
    BY <1>1 DEF Recorded, Told
  <2> QED BY <1>7, <1>9, <2>1, <2>2 DEF SeenIsKept
<1>14. ImportsVisited'
  <2>1. ASSUME NEW i \in 1..(n + 1), NEW k \in 1..(loading'[i].next - 1)
        PROVE  Visited(loading[i].text.imports[k])'
    <3>1. PICK q : q = loading'[i].text.imports[k]
      OBVIOUS
    <3>2. CASE i = n + 1
      <4>1. loading'[i].next = 1
        BY <1>5, <1>7, <3>2
      <4> QED BY <4>1
    <3>3. CASE i \in 1..n
      <4>1. q = loading[i].text.imports[k]
        BY <1>6, <1>7, <3>1, <3>3
      <4>2. k \in 1..(loading[i].next - 1) \/ q = path
        BY <1>6, <1>7, <3>3, <4>1
      <4>3. Visited(q)'
        <5>1. CASE q = path
          BY <1>1, <5>1 DEF Visited
        <5>2. CASE k \in 1..(loading[i].next - 1)
          BY <1>2, <1>8, <3>3, <4>1, <5>2 DEF LInv, ImportsVisited
        <5> QED BY <4>2, <5>1, <5>2
      <4> QED BY <3>1, <4>3 DEF Visited, Told
    <3> QED BY <1>7, <3>2, <3>3
  <2>2. ASSUME NEW i \in 1..Len(files), NEW k \in 1..Len(files[i].text.imports)
        PROVE  Visited(files[i].text.imports[k])'
    <3>1. PICK q : q = files[i].text.imports[k]
      OBVIOUS
    <3>2. Visited(q)
      BY <3>1 DEF LInv, ImportsVisited
    <3>3. Visited(q)' /\ files'[i].text.imports[k] = q
      BY <1>1, <1>8, <3>1, <3>2
    <3> QED BY <3>3 DEF Visited, Told
  <2>3. Visited(Entry)'
    <3>1. CASE n = 0
      BY <1>1, <1>4, <3>1 DEF Visited
    <3>2. CASE n # 0
      <4>1. loading[n].path \in seen
        BY <1>2, <1>4, <3>2 DEF LInv, StackIsPath
      <4> QED BY <1>8, <4>1 DEF LInv, ImportsVisited, Started
    <3> QED BY <3>1, <3>2
  <2>4. Len(loading') = n + 1 /\ files' = files
    BY <1>1, <1>7
  <2> QED BY <2>1, <2>2, <2>3, <2>4 DEF ImportsVisited, Visited, Told
<1>15. ImportsBefore'
  <2>1. ASSUME ~CycleFound, NEW i \in 1..(n + 1), NEW k \in 1..(loading'[i].next - 1)
        PROVE  LET q == loading'[i].text.imports[k]
               IN  ~Parses(sources[q]) \/ Recorded(q) \/ (i < n + 1 /\ q = loading'[i + 1].path)
    <3>2. CASE i = n + 1
      <4>1. loading'[i].next = 1
        BY <1>5, <1>7, <3>2
      <4> QED BY <4>1
    <3>3. CASE i \in 1..n
      <4>1. PICK q : q = loading[i].text.imports[k] /\ q = loading'[i].text.imports[k]
        BY <1>6, <1>7, <3>3
      <4>2. k \in 1..(loading[i].next - 1) \/ (i = n /\ q = path)
        BY <1>6, <1>7, <3>3, <4>1
      <4>3. CASE i = n /\ q = path
        BY <1>5, <1>7, <4>1, <4>3
      <4>4. CASE k \in 1..(loading[i].next - 1)
        <5>1. ~Parses(sources[q]) \/ Recorded(q) \/ (i < n /\ q = loading[i + 1].path)
          BY <1>2, <2>1, <3>3, <4>1, <4>4 DEF LInv, ImportsBefore
        <5>2. i < n => loading'[i + 1].path = loading[i + 1].path
          BY <1>6, <1>7
        <5> QED BY <4>1, <5>1, <5>2
      <4> QED BY <4>2, <4>3, <4>4
    <3> QED BY <1>7, <3>2, <3>3
  <2>2. (\A p : Recorded(p)' <=> Recorded(p)) /\ (CycleFound' <=> CycleFound)
    BY <1>1 DEF Recorded, CycleFound
  <2>3. ASSUME ~CycleFound, NEW i \in 1..Len(files), NEW k \in 1..Len(files[i].text.imports)
        PROVE  LET q == files[i].text.imports[k]
               IN  ~Parses(sources[q]) \/ \E j \in 1..(i - 1) : files[j].path = q
    BY <2>3 DEF LInv, ImportsBefore
  <2> QED BY <1>1, <1>7, <2>1, <2>2, <2>3 DEF ImportsBefore
<1>16. ProblemsAreSo'
  <2>1. \A q : IsSo(q)' <=> IsSo(q)
    BY <1>9 DEF IsSo
  <2> QED BY <1>1, <2>1 DEF LInv, ProblemsAreSo
<1>17. EntryComesLast'
  <2>1. loading' # <<>>
    BY <1>7
  <2> QED BY <2>1 DEF EntryComesLast
<1> QED BY <1>10, <1>11, <1>12, <1>13, <1>14, <1>15, <1>16, <1>17 DEF LInv

LEMMA FinishStep ==
    ASSUME LInv, UNCHANGED sources, Finish
    PROVE  LInv'
<1> DEFINE F == [path : Paths, text : Held, next : Nat]
           R == [path : Paths, text : Held]
<1>1. PICK n \in Nat, m \in Nat : n = Len(loading) /\ m = Len(files)
  BY Stacked DEF LInv, LoaderTypes
<1>2. PICK record : record = [path |-> Top.path, text |-> Top.text]
  OBVIOUS
<1>3. /\ n \in 1..n /\ loading[n] \in F /\ Top = loading[n]
      /\ loading[n].text = sources[loading[n].path]
      /\ Parses(sources[loading[n].path])
      /\ loading[n].path \in seen
      /\ loading[n].next - 1 = Len(loading[n].text.imports)
  <2>1. n \in 1..n /\ loading[n] \in F /\ Top = loading[n] /\ loading # <<>>
    BY <1>1, LastOf DEF LInv, LoaderTypes, Top, Finish
  <2>2. /\ loading[n].text = sources[loading[n].path] /\ Parses(sources[loading[n].path])
        /\ loading[n].next \in 1..(Len(loading[n].text.imports) + 1)
        /\ loading[n].path \in seen
    BY <1>1, <2>1 DEF LInv, StackIsPath
  <2>3. loading[n].text.imports \in Seq(Paths)
    BY <2>1, <2>2, ImportsArePaths DEF LInv, LoaderTypes
  <2>4. loading[n].next > Len(loading[n].text.imports)
    BY <2>1 DEF Finish, Called
  <2>5. loading[n].next - 1 = Len(loading[n].text.imports)
    BY <2>2, <2>3, <2>4
  <2> QED BY <2>1, <2>2, <2>5
<1>4. record \in R /\ record.path = loading[n].path /\ record.text = loading[n].text
  BY <1>2, <1>3
<1>5. /\ files' \in Seq(R) /\ Len(files') = m + 1 /\ m + 1 \in 1..(m + 1)
      /\ files'[m + 1] = record
      /\ \A i \in 1..m : files'[i] = files[i] /\ i \in 1..(m + 1)
      /\ \A i \in 1..(m + 1) : i \in 1..m \/ i = m + 1
      /\ files' # <<>> /\ Last(files') = record
  <2>1. PICK before, now : before = files /\ now = files'
    OBVIOUS
  <2>2. before \in Seq(R) /\ now = Append(before, record) /\ m = Len(before)
    BY <1>1, <1>2, <2>1 DEF Finish, LInv, LoaderTypes
  <2>3. record \in R
    BY <1>4
  <2> HIDE DEF R
  <2>4. /\ now \in Seq(R) /\ Len(now) = m + 1 /\ now[m + 1] = record /\ m + 1 \in 1..(m + 1)
        /\ \A i \in 1..m : now[i] = before[i] /\ i \in 1..(m + 1)
        /\ \A i \in 1..(m + 1) : i \in 1..m \/ i = m + 1
    BY <2>2, <2>3, OneMore
  <2>5. now # <<>>
    BY <2>4
  <2> QED BY <2>1, <2>4, <2>5 DEF Last
<1>6. /\ loading' \in Seq(F) /\ Len(loading') = n - 1
      /\ \A i \in 1..(n - 1) : loading'[i] = loading[i] /\ i \in 1..n /\ i # n
  <2>1. PICK before : before = loading
    OBVIOUS
  <2>2. before \in Seq(F) /\ before # <<>>
    BY <2>1 DEF Finish, LInv, LoaderTypes
  <2> HIDE DEF F
  <2>3. /\ Front(before) \in Seq(F) /\ Len(Front(before)) = Len(before) - 1
        /\ \A i \in 1..(Len(before) - 1) : Front(before)[i] = before[i] /\ i \in 1..Len(before) /\ i # Len(before)
    BY <2>2, AllButLast
  <2>4. loading' = Front(before)
    BY <2>1 DEF Finish
  <2> QED BY <1>1, <2>1, <2>3, <2>4
<1>7. seen' = seen /\ problems' = problems
  BY DEF Finish
<1>8. \A p : (Visited(p)' <=> Visited(p)) /\ (Told(p)' <=> Told(p))
  BY <1>7 DEF Visited, Told
<1>9. /\ \A p : ImportsOf(p)' = ImportsOf(p)
      /\ \A from : Reach(from)' = Reach(from)
      /\ Reached' = Reached /\ Held' = Held /\ Readable' = Readable
      /\ \A p : OnCycle(p)' <=> OnCycle(p)
  BY SameGraph
<1>10. LoaderTypes'
  BY <1>5, <1>6, <1>7, <1>9 DEF LInv, LoaderTypes
<1> HIDE DEF F, R
<1>11. StackIsPath'
  <2>1. ASSUME NEW i \in 1..(n - 1)
        PROVE  /\ loading'[i].text = sources[loading'[i].path]
               /\ Parses(sources[loading'[i].path])
               /\ loading'[i].next \in 1..(Len(loading'[i].text.imports) + 1)
               /\ loading'[i].path \in seen
    BY <1>1, <1>6 DEF LInv, StackIsPath
  <2>2. ASSUME NEW i \in 1..(n - 1), NEW j \in 1..(n - 1), i < j
        PROVE  /\ loading'[i].path # loading'[j].path
               /\ loading'[j].path \in Reach(ImportsOf(loading'[i].path))
    <3>1. loading[i].path # loading[j].path /\ loading[j].path \in Reach(ImportsOf(loading[i].path))
      BY <1>1, <1>6, <2>2 DEF LInv, StackIsPath
    <3> QED BY <1>6, <3>1
  <2>3. loading' # <<>> => loading'[1].path = Entry
    <3>1. loading' # <<>> => 1 \in 1..(n - 1)
      BY <1>6
    <3>2. loading[1].path = Entry
      BY DEF Finish, LInv, StackIsPath
    <3> QED BY <1>6, <3>1, <3>2
  <2> QED BY <1>6, <1>7, <1>9, <2>1, <2>2, <2>3 DEF StackIsPath
<1>12. RecordedOnce'
  <2>1. \A i \in 1..m : /\ files[i].text = sources[files[i].path] /\ Parses(sources[files[i].path])
                        /\ files[i].path \in seen
                        /\ \A j \in 1..n : loading[j].path # files[i].path
    BY <1>1 DEF LInv, RecordedOnce
  <2>2. \A j \in 1..(n - 1) : loading'[j].path # record.path
    <3>1. \A j \in 1..(n - 1) : j \in 1..n /\ j < n
      OBVIOUS
    <3>2. \A j \in 1..(n - 1) : loading[j].path # loading[n].path
      BY <1>1, <1>3, <3>1 DEF LInv, StackIsPath
    <3> QED BY <1>4, <1>6, <3>2
  <2>3. ASSUME NEW i \in 1..(m + 1)
        PROVE  /\ files'[i].text = sources[files'[i].path]
               /\ Parses(sources[files'[i].path])
               /\ files'[i].path \in seen
               /\ \A j \in 1..(n - 1) : loading'[j].path # files'[i].path
    <3>1. CASE i \in 1..m
      BY <1>5, <1>6, <2>1, <3>1
    <3>2. CASE i = m + 1
      BY <1>3, <1>4, <1>5, <2>2, <3>2
    <3> QED BY <1>5, <3>1, <3>2
  <2>4. ASSUME NEW i \in 1..(m + 1), NEW j \in 1..(m + 1), files'[i].path = files'[j].path
        PROVE  i = j
    <3>1. \A k \in 1..m : files'[k].path # record.path
      BY <1>3, <1>4, <1>5, <2>1
    <3>2. CASE i \in 1..m /\ j \in 1..m
      BY <1>1, <1>5, <2>4, <3>2 DEF LInv, RecordedOnce
    <3> QED BY <1>5, <2>4, <3>1, <3>2
  <2> QED BY <1>5, <1>6, <1>7, <2>3, <2>4 DEF RecordedOnce
<1>13. \A p : Recorded(p) => \E j \in 1..(m + 1) : files'[j].path = p
  BY <1>1, <1>5 DEF Recorded
<1>14. SeenIsKept'
  <2>1. ASSUME NEW p \in seen
        PROVE  /\ p \in Reached
               /\ \/ \E i \in 1..(n - 1) : loading'[i].path = p
                  \/ \E j \in 1..(m + 1) : files'[j].path = p
                  \/ ~Parses(sources[p]) /\ Told(p)
    <3>1. CASE \E i \in 1..n : loading[i].path = p
      <4>1. PICK i \in 1..n : loading[i].path = p
        BY <3>1
      <4>2. i \in 1..(n - 1) \/ i = n
        OBVIOUS
      <4> QED BY <1>4, <1>5, <1>6, <2>1, <4>1, <4>2 DEF LInv, SeenIsKept
    <3> QED BY <1>1, <1>13, <2>1, <3>1 DEF LInv, SeenIsKept
  <2> QED BY <1>5, <1>6, <1>7, <1>8, <1>9, <2>1 DEF SeenIsKept, Recorded
<1>15. ImportsVisited'
  <2>1. ASSUME NEW i \in 1..(n - 1), NEW k \in 1..(loading'[i].next - 1)
        PROVE  Visited(loading[i].text.imports[k])'
    <3>1. PICK q : q = loading'[i].text.imports[k]
      OBVIOUS
    <3>2. Visited(q)
      BY <1>1, <1>6, <3>1 DEF LInv, ImportsVisited
    <3> QED BY <1>8, <3>1, <3>2 DEF Visited, Told
  <2>2. ASSUME NEW i \in 1..(m + 1), NEW k \in 1..Len(files'[i].text.imports)
        PROVE  Visited(files[i].text.imports[k])'
    <3>1. PICK q : q = files'[i].text.imports[k]
      OBVIOUS
    <3>2. Visited(q)
      <4>1. CASE i \in 1..m
        BY <1>1, <1>5, <3>1, <4>1 DEF LInv, ImportsVisited
      <4>2. CASE i = m + 1
        BY <1>1, <1>3, <1>4, <1>5, <3>1, <4>2 DEF LInv, ImportsVisited
      <4> QED BY <1>5, <4>1, <4>2
    <3> QED BY <1>8, <3>1, <3>2 DEF Visited, Told
  <2>3. Visited(Entry)'
    <3>1. Started
      BY <1>3 DEF Started
    <3> QED BY <1>8, <3>1 DEF LInv, ImportsVisited
  <2> QED BY <1>5, <1>6, <2>1, <2>2, <2>3 DEF ImportsVisited, Visited, Told
<1>16. ImportsBefore'
  <2>1. ASSUME ~CycleFound, NEW i \in 1..(n - 1), NEW k \in 1..(loading'[i].next - 1)
        PROVE  LET q == loading'[i].text.imports[k]
               IN  \/ ~Parses(sources[q])
                   \/ \E j \in 1..(m + 1) : files'[j].path = q
                   \/ i < n - 1 /\ q = loading'[i + 1].path
    <3>1. PICK q : q = loading'[i].text.imports[k]
      OBVIOUS
    <3>2. ~Parses(sources[q]) \/ Recorded(q) \/ (i < n /\ q = loading[i + 1].path)
      <4>1. i \in 1..n /\ k \in 1..(loading[i].next - 1) /\ q = loading[i].text.imports[k]
        BY <1>6, <3>1
      <4> QED BY <1>1, <2>1, <4>1 DEF LInv, ImportsBefore
    <3>3. ASSUME q = loading[i + 1].path
          PROVE  (\E j \in 1..(m + 1) : files'[j].path = q) \/ (i < n - 1 /\ q = loading'[i + 1].path)
      <4>1. CASE i + 1 = n
        BY <1>4, <1>5, <3>3, <4>1
      <4>2. CASE i + 1 # n
        <5>1. i + 1 \in 1..(n - 1) /\ i < n - 1
          BY <4>2
        <5> QED BY <1>6, <3>3, <5>1
      <4> QED BY <4>1, <4>2
    <3>4. \/ ~Parses(sources[q])
          \/ \E j \in 1..(m + 1) : files'[j].path = q
          \/ i < n - 1 /\ q = loading'[i + 1].path
      BY <1>13, <3>2, <3>3
    <3> QED BY <3>1, <3>4
  <2>2. ASSUME ~CycleFound, NEW i \in 1..(m + 1), NEW k \in 1..Len(files'[i].text.imports)
        PROVE  LET q == files'[i].text.imports[k]
               IN  ~Parses(sources[q]) \/ \E j \in 1..(i - 1) : files'[j].path = q
    <3>1. PICK q : q = files'[i].text.imports[k]
      OBVIOUS
    <3>2. CASE i \in 1..m
      <4>0. k \in 1..Len(files[i].text.imports) /\ q = files[i].text.imports[k]
        BY <1>5, <3>1, <3>2
      <4>1. ~Parses(sources[q]) \/ \E j \in 1..(i - 1) : files[j].path = q
        BY <1>1, <2>2, <3>2, <4>0 DEF LInv, ImportsBefore
      <4>2. \A j \in 1..(i - 1) : j \in 1..m
        BY <3>2
      <4>3. ~Parses(sources[q]) \/ \E j \in 1..(i - 1) : files'[j].path = q
        BY <1>5, <4>1, <4>2
      <4> QED BY <3>1, <4>3
    <3>3. CASE i = m + 1
      <4>0. k \in 1..(loading[n].next - 1) /\ q = loading[n].text.imports[k]
        BY <1>3, <1>4, <1>5, <3>1, <3>3
      <4>1. ~Parses(sources[q]) \/ Recorded(q)
        <5>1. n \in 1..Len(loading) /\ ~(n < Len(loading))
          BY <1>1, <1>3
        <5>2. \A d \in 1..(loading[n].next - 1) :
                 LET p == loading[n].text.imports[d]
                 IN  \/ ~Parses(sources[p])
                     \/ Recorded(p)
                     \/ n < Len(loading) /\ p = loading[n + 1].path
          BY <2>2, <5>1 DEF LInv, ImportsBefore
        <5> QED BY <4>0, <5>1, <5>2
      <4>2. i - 1 = m
        BY <3>3
      <4>3. ~Parses(sources[q]) \/ \E j \in 1..(i - 1) : files'[j].path = q
        BY <1>1, <1>5, <4>1, <4>2 DEF Recorded
      <4> QED BY <3>1, <4>3
    <3> QED BY <1>5, <3>2, <3>3
  <2>3. CycleFound' <=> CycleFound
    BY <1>7 DEF CycleFound
  <2>4. Len(loading') = n - 1 /\ Len(files') = m + 1 /\ sources' = sources
    BY <1>5, <1>6
  <2> QED BY <2>1, <2>2, <2>3, <2>4 DEF ImportsBefore, Recorded, Parses
<1>17. ProblemsAreSo'
  <2>1. \A q : IsSo(q)' <=> IsSo(q)
    BY <1>9 DEF IsSo
  <2> QED BY <1>7, <2>1 DEF LInv, ProblemsAreSo
<1>18. EntryComesLast'
  <2>1. ASSUME loading' = <<>>
        PROVE  record.path = Entry
    <3>1. n = 1
      BY <1>3, <1>6, <2>1
    <3>2. loading[1].path = Entry
      BY DEF Finish, LInv, StackIsPath
    <3> QED BY <1>4, <3>1, <3>2
  <2> QED BY <1>5, <2>1 DEF EntryComesLast
<1> QED BY <1>10, <1>11, <1>12, <1>14, <1>15, <1>16, <1>17, <1>18 DEF LInv

\* Every call of the loader, and every return, keeps the invariant.
LEMMA LoadStep ==
    ASSUME LInv, Load
    PROVE  LInv'
BY CannotReadStep, CycleStep, DiamondStep, DoesNotParseStep, OpenStep, FinishStep DEF Load

----------------------------------------------------------------------------
(* When nothing is under way any more.                                     *)

LEMMA Indexes ==
    ASSUME LInv
    PROVE  /\ Len(files) \in Nat /\ DOMAIN files = 1..Len(files)
           /\ Len(problems) \in Nat /\ DOMAIN problems = 1..Len(problems)
BY ProblemsAreASequence DEF LInv, LoaderTypes

\* What imports ask for of a file that has been recorded.
LEMMA ImportsOfRecorded ==
    ASSUME LInv, NEW i \in 1..Len(files), NEW q \in ImportsOf(files[i].path)
    PROVE  /\ q \in Paths /\ Visited(q)
           /\ ~CycleFound => ~Parses(sources[q]) \/ \E j \in 1..(i - 1) : files[j].path = q
<1>1. /\ files[i].text = sources[files[i].path] /\ Parses(sources[files[i].path])
      /\ files[i].path \in Paths
  BY DEF LInv, RecordedOnce, LoaderTypes
<1>2. q \in Paths /\ \E k \in 1..Len(files[i].text.imports) : files[i].text.imports[k] = q
  BY <1>1, ImportsArePaths DEF LInv, LoaderTypes
<1> QED BY <1>2 DEF LInv, ImportsVisited, ImportsBefore

\* Everything reached has been visited.
LEMMA AllVisited ==
    ASSUME LInv, Loaded, NEW p \in Reached
    PROVE  /\ p \in Paths
           /\ Parses(sources[p]) => Recorded(p)
           /\ ~Parses(sources[p]) => Told(p)
<1> DEFINE all == {q \in Paths : Visited(q)}
<1>1. ASSUME NEW q, Visited(q)
      PROVE  Parses(sources[q]) => Recorded(q)
  <2>1. Len(loading) = 0
    BY DEF Loaded
  <2> QED BY <1>1, <2>1 DEF Visited, LInv, SeenIsKept
<1>2. {Entry} \subseteq all
  BY EntryIsAPath DEF Loaded, LInv, ImportsVisited
<1>3. Closed(all)
  <2> SUFFICES ASSUME NEW q \in all PROVE ImportsOf(q) \subseteq all
    BY DEF Closed
  <2>1. CASE ~Parses(sources[q])
    BY <2>1 DEF ImportsOf
  <2>2. CASE Parses(sources[q])
    <3>1. PICK i \in 1..Len(files) : files[i].path = q
      BY <1>1, <2>2 DEF Recorded
    <3> QED BY <3>1, ImportsOfRecorded
  <2> QED BY <2>1, <2>2
<1>4. Reached \subseteq all
  BY <1>2, <1>3, EntryIsAPath, ReachWithin DEF Reached
<1>5. Visited(p) /\ p \in Paths
  BY <1>4
<1>6. ~Parses(sources[p]) => Told(p)
  <2>1. Len(loading) = 0
    BY DEF Loaded
  <2>2. ASSUME ~Parses(sources[p]), p \in seen
        PROVE  Told(p)
    <3>1. ~Recorded(p)
      BY <2>2 DEF Recorded, LInv, RecordedOnce
    <3> QED BY <2>1, <2>2, <3>1 DEF LInv, SeenIsKept
  <2> QED BY <1>5, <2>2 DEF Visited
<1> QED BY <1>1, <1>5, <1>6

\* What is recorded is reached, and parses.
LEMMA RecordedIsReached ==
    ASSUME LInv, NEW i \in 1..Len(files)
    PROVE  files[i].path \in Reached /\ Parses(sources[files[i].path])
BY DEF LInv, RecordedOnce, SeenIsKept

LEMMA MergedInOrder ==
    ASSUME LInv, Loaded, problems = <<>>
    PROVE  MergedOnceInOrder
<1>1. PICK n \in Nat : n = Len(files) /\ DOMAIN files = 1..n
  BY Indexes
<1>2. ~CycleFound /\ \A p : ~Told(p)
  BY DEF CycleFound, Told
<1>3. \A p \in Reached : p \in Paths /\ Parses(sources[p]) /\ \E i \in 1..n : files[i].path = p
  BY <1>1, <1>2, AllVisited DEF Recorded
<1>4. \A i, j \in 1..n : files[i].path = files[j].path => i = j
  BY <1>1 DEF LInv, RecordedOnce
<1>5. \A i \in 1..n : files[i].path \in Reached
  BY <1>1, RecordedIsReached
<1>6. ASSUME NEW p \in Reached
      PROVE  Cardinality({i \in DOMAIN files : files[i].path = p}) = 1
  <2>1. PICK i \in 1..n : files[i].path = p
    BY <1>3
  <2>2. {j \in DOMAIN files : files[j].path = p} = {i}
    BY <1>1, <1>4, <2>1
  <2> QED BY <2>2, FS_Singleton
<1>7. ASSUME NEW p \in Reached, NEW q \in ImportsOf(p),
             NEW i \in {k \in DOMAIN files : files[k].path = p},
             NEW j \in {k \in DOMAIN files : files[k].path = q}
      PROVE  j < i
  <2>1. q \in ImportsOf(files[i].path) /\ i \in 1..n /\ j \in 1..n /\ files[j].path = q
    BY <1>1
  <2>2. Parses(sources[q])
    BY <1>1, <2>1, RecordedIsReached
  <2>3. PICK k \in 1..(i - 1) : files[k].path = q
    BY <1>1, <1>2, <2>1, <2>2, ImportsOfRecorded
  <2>4. k \in 1..n /\ k < i
    BY <2>1
  <2> QED BY <1>4, <2>1, <2>3, <2>4
<1>8. Last(files).path = Entry
  BY DEF Loaded, LInv, EntryComesLast
<1>9. Len(files) = Cardinality(Reached)
  <2> DEFINE at == [i \in 1..n |-> files[i].path]
  <2>1. at \in Bijection(1..n, Reached)
    <3>1. at \in [1..n -> Reached]
      BY <1>5
    <3>2. \A i, j \in 1..n : at[i] = at[j] => i = j
      BY <1>4
    <3>3. \A p \in Reached : \E i \in 1..n : at[i] = p
      BY <1>3
    <3> HIDE DEF at
    <3> QED BY <3>1, <3>2, <3>3 DEF Bijection, Injection, Surjection, IsInjective
  <2> HIDE DEF at
  <2>2. IsFiniteSet(1..n) /\ Cardinality(1..n) = n
    BY FS_Interval
  <2>3. ExistsBijection(1..n, Reached)
    BY <2>1 DEF ExistsBijection
  <2>4. Cardinality(Reached) = Cardinality(1..n)
    BY <2>2, <2>3, FS_Bijection
  <2> QED BY <1>1, <2>2, <2>4
<1> QED BY <1>6, <1>7, <1>8, <1>9 DEF MergedOnceInOrder

\* Without a cycle among the problems, the files recorded are in an order that
\* no cycle has.
LEMMA CyclesAreFound ==
    ASSUME LInv, Loaded, NEW p \in Reached, OnCycle(p)
    PROVE  CycleFound
<1> SUFFICES ASSUME ~CycleFound PROVE FALSE
  OBVIOUS
<1>1. p \in Paths /\ ImportsOf(p) \in SUBSET Paths
  BY AllVisited, ImportsArePaths DEF LInv, LoaderTypes
<1>2. Parses(sources[p])
  <2> SUFFICES ASSUME ImportsOf(p) = {} PROVE FALSE
    BY DEF ImportsOf
  <2>1. Closed({})
    BY DEF Closed
  <2>2. Reach({}) \subseteq {}
    BY <2>1, ReachWithin
  <2> QED BY <2>2 DEF OnCycle
<1>3. PICK i \in 1..Len(files) : files[i].path = p
  BY <1>2, AllVisited DEF Recorded
<1>4. Len(files) \in Nat /\ \A j, k \in 1..Len(files) : files[j].path = files[k].path => j = k
  BY Indexes DEF LInv, RecordedOnce
<1> DEFINE before == {q \in Paths : ~Parses(sources[q]) \/ \E j \in 1..(i - 1) : files[j].path = q}
<1>5. ImportsOf(p) \subseteq before
  BY <1>3, ImportsOfRecorded
<1>6. Closed(before)
  <2> SUFFICES ASSUME NEW q \in before PROVE ImportsOf(q) \subseteq before
    BY DEF Closed
  <2>1. CASE ~Parses(sources[q])
    BY <2>1 DEF ImportsOf
  <2>2. CASE Parses(sources[q])
    <3>1. PICK j \in 1..(i - 1) : files[j].path = q
      BY <2>2
    <3>2. j \in 1..Len(files) /\ \A k \in 1..(j - 1) : k \in 1..(i - 1)
      BY <1>3, <1>4
    <3>3. \A r \in ImportsOf(q) :
             r \in Paths /\ (~Parses(sources[r]) \/ \E k \in 1..(j - 1) : files[k].path = r)
      BY <3>1, <3>2, ImportsOfRecorded
    <3> QED BY <3>2, <3>3
  <2> QED BY <2>1, <2>2
<1>7. p \in before
  <2>1. before \in SUBSET Paths
    OBVIOUS
  <2> HIDE DEF before
  <2>2. Reach(ImportsOf(p)) \subseteq before
    BY <1>1, <1>5, <1>6, <2>1, ReachWithin
  <2> QED BY <2>2 DEF OnCycle
<1>8. PICK j \in 1..(i - 1) : files[j].path = p
  BY <1>2, <1>7
<1>9. j \in 1..Len(files) /\ j # i
  BY <1>3, <1>4
<1> QED BY <1>3, <1>4, <1>8, <1>9

LEMMA SaidOfGraph ==
    ASSUME LInv, Loaded
    PROVE  ProblemsOfGraph
<1>1. DOMAIN problems = 1..Len(problems)
  BY Indexes
<1>2. \A p \in Reached : ~Parses(sources[p]) => \E i \in DOMAIN problems : problems[i].about = p
  BY <1>1, AllVisited DEF Told
<1>3. \A i, j \in DOMAIN problems :
         problems[i] = problems[j] /\ problems[i].what = "syntax" => i = j
  BY <1>1 DEF LInv, ProblemsAreSo
<1>4. (\E p \in Reached : OnCycle(p)) => \E i \in DOMAIN problems : problems[i].what = "import cycle"
  BY <1>1, CyclesAreFound DEF CycleFound
<1>5. \A i \in DOMAIN problems :
         LET p == problems[i]
         IN IF p.what = "import cycle" THEN OnCycle(p.about)
            ELSE p.about \in Reached /\ ~Parses(sources[p.about])
  BY <1>1 DEF LInv, ProblemsAreSo, IsSo
<1> QED BY <1>2, <1>3, <1>4, <1>5 DEF ProblemsOfGraph

\* Together: what a load that ran while no file changed leaves.
LEMMA LoadedWell ==
    ASSUME LInv, Loaded
    PROVE  (problems = <<>> => MergedOnceInOrder) /\ ProblemsOfGraph
BY MergedInOrder, SaidOfGraph

----------------------------------------------------------------------------
(* Merging.                                                                *)

OfDeclare == INSTANCE FoldProofs WITH Op <- Declare
OfMerge == INSTANCE FoldProofs WITH Op <- MergeFile

\* The naturals, by induction.
LEMMA Induction ==
    ASSUME NEW S, 0 \in S, \A n \in Nat : n \in S => n + 1 \in S
    PROVE  \A n \in Nat : n \in S
BY OfDeclare!Induction

\* What is in two sequences joined.
LEMMA RangeOfConcat ==
    ASSUME NEW T, NEW s \in Seq(T), NEW t \in Seq(T)
    PROVE  Range(s \o t) = Range(s) \cup Range(t)
<1>1. ASSUME NEW x \in Range(s) PROVE x \in Range(s \o t)
  <2>1. PICK i \in 1..Len(s) : x = s[i]
    BY <1>1 DEF Range
  <2>2. i \in DOMAIN (s \o t) /\ (s \o t)[i] = x
    BY <2>1
  <2> QED BY <2>2 DEF Range
<1>2. ASSUME NEW x \in Range(t) PROVE x \in Range(s \o t)
  <2>1. PICK i \in 1..Len(t) : x = t[i]
    BY <1>2 DEF Range
  <2>2. i + Len(s) \in DOMAIN (s \o t) /\ (s \o t)[i + Len(s)] = x
    BY <2>1
  <2> QED BY <2>2 DEF Range
<1>3. ASSUME NEW x \in Range(s \o t) PROVE x \in Range(s) \cup Range(t)
  <2>1. PICK i \in 1..Len(s) + Len(t) : x = (s \o t)[i]
    BY <1>3 DEF Range
  <2>2. CASE i <= Len(s)
    BY <2>1, <2>2 DEF Range
  <2>3. CASE i > Len(s)
    <3>1. i - Len(s) \in DOMAIN t /\ x = t[i - Len(s)]
      BY <2>1, <2>3
    <3> QED BY <3>1 DEF Range
  <2> QED BY <2>1, <2>2, <2>3
<1> QED BY <1>1, <1>2, <1>3

\* The sequences of a sequence, one after the other: their type, and what is in them.
LEMMA Flattens ==
    ASSUME NEW T, NEW seqs \in Seq(Seq(T))
    PROVE  /\ FlattenSeq(seqs) \in Seq(T)
           /\ Range(FlattenSeq(seqs)) = UNION {Range(seqs[i]) : i \in DOMAIN seqs}
<1>1. CASE Len(seqs) = 0
  BY <1>1 DEF FlattenSeq, Range
<1> SUFFICES ASSUME Len(seqs) \in Nat \ {0}
             PROVE  /\ FlattenSeq(seqs) \in Seq(T)
                    /\ Range(FlattenSeq(seqs)) = UNION {Range(seqs[i]) : i \in DOMAIN seqs}
  BY <1>1
<1> DEFINE Body(f, i) == IF i = 1 THEN seqs[i] ELSE f[i - 1] \o seqs[i]
           Defined(k) == \E f : f = [i \in 1..k |-> Body(f, i)]
           Good == {k \in Nat : k <= Len(seqs) => Defined(k)}
<1>2. Defined(Len(seqs))
  <2>1. Defined(0)
    <3>1. PICK f : f = [i \in 1..0 |-> 0]
      OBVIOUS
    <3>2. f = [i \in 1..0 |-> Body(f, i)]
      BY <3>1
    <3> QED BY <3>2
  <2>2. ASSUME NEW n \in Nat, Defined(n) PROVE Defined(n + 1)
    <3>1. PICK f : f = [i \in 1..n |-> Body(f, i)]
      BY <2>2
    <3>2. PICK g : g = [i \in 1..n + 1 |-> IF i = n + 1 THEN Body(f, i) ELSE f[i]]
      OBVIOUS
    <3>3. ASSUME NEW i \in 1..n + 1 PROVE g[i] = Body(g, i)
      <4>1. i = 1 \/ g[i - 1] = f[i - 1]
        BY <3>2
      <4>2. ASSUME i # n + 1 PROVE f[i] = Body(f, i)
        <5>1. i \in 1..n
          BY <4>2
        <5> QED BY <3>1, <5>1
      <4>3. g[i] = Body(f, i)
        BY <3>2, <4>2
      <4> QED BY <4>1, <4>3
    <3>4. g = [i \in 1..n + 1 |-> Body(g, i)]
      <4>1. g = [i \in 1..n + 1 |-> g[i]]
        BY <3>2
      <4> HIDE DEF Body
      <4> QED BY <3>3, <4>1
    <3> QED BY <3>4
  <2> HIDE DEF Defined
  <2>3. 0 \in Good /\ \A n \in Nat : n \in Good => n + 1 \in Good
    BY <2>1, <2>2
  <2> HIDE DEF Good
  <2>4. Len(seqs) \in Good
    BY <2>3, Induction
  <2> QED BY <2>4 DEF Good
<1>3. PICK f : /\ f = [i \in 1..Len(seqs) |-> Body(f, i)]
               /\ FlattenSeq(seqs) = f[Len(seqs)]
  <2>1. PICK f : f = CHOOSE g : g = [i \in 1..Len(seqs) |-> Body(g, i)]
    OBVIOUS
  <2>2. f = [i \in 1..Len(seqs) |-> Body(f, i)]
    BY <1>2, <2>1
  <2>3. FlattenSeq(seqs) = f[Len(seqs)]
    BY <2>1 DEF FlattenSeq
  <2> QED BY <2>2, <2>3
<1> DEFINE Whole(k) == /\ f[k] \in Seq(T)
                       /\ Range(f[k]) = UNION {Range(seqs[i]) : i \in 1..k}
           Wholes == {k \in Nat : k + 1 <= Len(seqs) => Whole(k + 1)}
<1> HIDE DEF Whole
<1>4. Whole(1)
  <2>1. f[1] = seqs[1] /\ seqs[1] \in Seq(T)
    BY <1>3
  <2> QED BY <2>1 DEF Whole
<1>5. ASSUME NEW k \in Nat \ {0}, Whole(k), k + 1 <= Len(seqs) PROVE Whole(k + 1)
  <2>1. f[k + 1] = f[k] \o seqs[k + 1]
    <3>1. k + 1 \in 1..Len(seqs) /\ k + 1 # 1 /\ (k + 1) - 1 = k
      BY <1>5
    <3> QED BY <1>3, <3>1
  <2>2. f[k] \in Seq(T) /\ seqs[k + 1] \in Seq(T)
    BY <1>5 DEF Whole
  <2>3. Range(f[k + 1]) = Range(f[k]) \cup Range(seqs[k + 1])
    BY <2>1, <2>2, RangeOfConcat
  <2>4. 1..k + 1 = (1..k) \cup {k + 1}
    OBVIOUS
  <2>5. UNION {Range(seqs[i]) : i \in 1..k + 1}
          = (UNION {Range(seqs[i]) : i \in 1..k}) \cup Range(seqs[k + 1])
    BY <2>4
  <2> QED BY <1>5, <2>1, <2>2, <2>3, <2>5 DEF Whole
<1>6. 0 \in Wholes /\ \A k \in Nat : k \in Wholes => k + 1 \in Wholes
  BY <1>4, <1>5
<1> HIDE DEF Wholes
<1>7. Len(seqs) - 1 \in Nat /\ (Len(seqs) - 1) + 1 = Len(seqs)
  OBVIOUS
<1>8. Len(seqs) - 1 \in Wholes
  BY <1>6, <1>7, Induction
<1>9. Whole(Len(seqs))
  BY <1>7, <1>8 DEF Wholes
<1>10. DOMAIN seqs = 1..Len(seqs)
  OBVIOUS
<1> QED BY <1>3, <1>9, <1>10 DEF Whole

\* What is of a kind.
LEMMA Selected ==
    ASSUME NEW T, NEW s \in Seq(T), NEW kind
    PROVE  /\ OfKind(s, kind) \in Seq(T)
           /\ Range(OfKind(s, kind)) = {d \in Range(s) : d.kind = kind}
<1>1. PICK each : each = [i \in DOMAIN s |-> IF s[i].kind = kind THEN <<s[i]>> ELSE <<>>]
  OBVIOUS
<1>2. each \in Seq(Seq(T)) /\ DOMAIN each = DOMAIN s
  <2>1. \A i \in DOMAIN s : <<s[i]>> \in Seq(T) /\ <<>> \in Seq(T)
    OBVIOUS
  <2>2. \A i \in 1..Len(s) : each[i] \in Seq(T)
    BY <1>1, <2>1
  <2>3. each = [i \in 1..Len(s) |-> each[i]] /\ Len(s) \in Nat
    BY <1>1
  <2> QED BY <2>2, <2>3
<1>3. OfKind(s, kind) = FlattenSeq(each)
  BY <1>1 DEF OfKind, Select
<1>4. \A i \in DOMAIN s : Range(each[i]) = IF s[i].kind = kind THEN {s[i]} ELSE {}
  BY <1>1 DEF Range
<1>5. UNION {Range(each[i]) : i \in DOMAIN s} = {d \in Range(s) : d.kind = kind}
  <2>1. UNION {Range(each[i]) : i \in DOMAIN s} = {s[i] : i \in {j \in DOMAIN s : s[j].kind = kind}}
    <3>1. \A d : (\E i \in DOMAIN s : d \in Range(each[i])) <=> \E i \in DOMAIN s : s[i].kind = kind /\ d = s[i]
      BY <1>4
    <3> QED BY <3>1
  <2>2. Range(s) = {s[i] : i \in DOMAIN s}
    BY DEF Range
  <2> QED BY <2>1, <2>2
<1> QED BY <1>2, <1>3, <1>5, Flattens

\* A text's declarations are all that it declares, whatever the order.
LEMMA DeclaresAll ==
    ASSUME NEW text, IsFile(text), IsText(text)
    PROVE  /\ Declarations(text) \in Seq(Range(text.declares))
           /\ Range(Declarations(text)) = Range(text.declares)
<1>1. /\ text.declares \in Seq(Range(text.declares))
      /\ \A d \in Range(text.declares) : d.kind \in {"skip", "token", "rule"}
  BY DEF IsFile, IsText, Missing, Unreadable
<1>2. PICK D : D = Range(text.declares)
  OBVIOUS
<1>3. PICK a, b, c : /\ a = OfKind(text.declares, "skip") /\ b = OfKind(text.declares, "token")
                     /\ c = OfKind(text.declares, "rule")
  OBVIOUS
<1>4. /\ a \in Seq(D) /\ b \in Seq(D) /\ c \in Seq(D)
      /\ Range(a) = {d \in D : d.kind = "skip"}
      /\ Range(b) = {d \in D : d.kind = "token"}
      /\ Range(c) = {d \in D : d.kind = "rule"}
  BY <1>1, <1>2, <1>3, Selected
<1>5. a \o b \in Seq(D) /\ (a \o b) \o c \in Seq(D)
  BY <1>4
<1>6. Range((a \o b) \o c) = D
  <2>1. Range(a \o b) = Range(a) \cup Range(b)
    BY <1>4, RangeOfConcat
  <2>2. Range((a \o b) \o c) = Range(a \o b) \cup Range(c)
    <3>1. PICK ab : ab = a \o b
      OBVIOUS
    <3>2. ab \in Seq(D) /\ c \in Seq(D)
      BY <1>4, <1>5, <3>1
    <3>3. Range(ab \o c) = Range(ab) \cup Range(c)
      BY <3>2, RangeOfConcat
    <3> QED BY <3>1, <3>3
  <2> QED BY <1>1, <1>2, <1>4, <2>1, <2>2
<1> QED BY <1>2, <1>3, <1>5, <1>6 DEF Declarations


\* A grammar as it is merged, of declarations in T.
OutFields == {"grammar", "target", "keywords", "entry_rule", "imports", "declares", "lints",
              "unsupported", "problems"}
Settings == {"grammar", "target", "keywords"}
Complaints(T) ==
    {Problem("conflicting", field) : field \in Settings}
        \cup {Problem("already defined", d.name) : d \in T} \cup {Problem("no grammar", Entry)}
IsMerged(out, T) ==
    /\ out = [f \in OutFields |-> out[f]]
    /\ out.declares \in Seq(T)
    /\ out.problems \in Seq(Complaints(T))
\* It has D, each name once, unless there is something to say.
HasAll(out, D) ==
    out.problems = <<>> =>
        /\ Range(out.declares) = D
        /\ \A d, e \in D : d.name = e.name => d = e

\* A sequence with one more element.
LEMMA Appending ==
    ASSUME NEW T, NEW s \in Seq(T), NEW x \in T
    PROVE  Append(s, x) \in Seq(T) /\ Append(s, x) # <<>> /\ Range(Append(s, x)) = Range(s) \cup {x}
<1>1. Append(s, x) \in Seq(T)
  OBVIOUS
<1>2. Len(Append(s, x)) = Len(s) + 1 /\ Len(s) \in Nat
  OBVIOUS
<1>3. Append(s, x) # <<>>
  BY <1>2
<1>4. <<x>> \in Seq(T) /\ Append(s, x) = s \o <<x>>
  OBVIOUS
<1>5. Range(<<x>>) = {x}
  BY DEF Range
<1>6. Range(s \o <<x>>) = Range(s) \cup Range(<<x>>)
  BY <1>4, RangeOfConcat
<1> QED BY <1>1, <1>3, <1>4, <1>5, <1>6

\* A setting that a file gives is taken, or complained of.
LEMMA SettleStep ==
    ASSUME NEW out, NEW T, IsMerged(out, T), NEW field \in Settings, NEW value, NEW same,
           NEW settled, settled = Settle(out, field, value, same)
    PROVE  /\ IsMerged(settled, T)
           /\ settled.declares = out.declares /\ settled.entry_rule = out.entry_rule
           /\ settled.problems = <<>> => out.problems = <<>>
<1>1. CASE settled = out
  BY <1>1
<1>2. CASE settled = [out EXCEPT ![field] = value]
  BY <1>2 DEF IsMerged, OutFields, Settings
<1>3. CASE settled = [out EXCEPT !.problems = Append(@, Problem("conflicting", field))]
  <2>1. Problem("conflicting", field) \in Complaints(T)
    BY DEF Complaints
  <2>2. settled.problems = Append(out.problems, Problem("conflicting", field))
    BY <1>3 DEF IsMerged, OutFields
  <2>3. settled.problems \in Seq(Complaints(T)) /\ settled.problems # <<>>
    <3>1. PICK C, s, x : C = Complaints(T) /\ s = out.problems /\ x = Problem("conflicting", field)
      OBVIOUS
    <3>2. s \in Seq(C) /\ x \in C
      BY <2>1, <3>1 DEF IsMerged
    <3>3. Append(s, x) \in Seq(C) /\ Append(s, x) # <<>>
      BY <3>2, Appending
    <3> QED BY <2>2, <3>1, <3>3
  <2> QED BY <1>3, <2>3 DEF IsMerged, OutFields
<1> QED BY <1>1, <1>2, <1>3 DEF Settle

\* A declaration is added, or complained of: with no complaint, nothing is lost.
LEMMA DeclareStep ==
    ASSUME NEW out, NEW T, IsMerged(out, T), NEW d \in T, NEW declared, declared = Declare(out, d)
    PROVE  /\ IsMerged(declared, T)
           /\ declared.entry_rule = out.entry_rule
           /\ declared.problems = <<>> => out.problems = <<>>
           /\ \A D : HasAll(out, D) => HasAll(declared, D \cup {d})
<1>1. CASE \E i \in DOMAIN out.declares : out.declares[i].name = d.name
  <2>1. declared = [out EXCEPT !.problems = Append(@, Problem("already defined", d.name))]
    BY <1>1 DEF Declare
  <2>2. Problem("already defined", d.name) \in Complaints(T)
    BY DEF Complaints
  <2>3. declared.problems = Append(out.problems, Problem("already defined", d.name))
    BY <2>1 DEF IsMerged, OutFields
  <2>4. declared.problems \in Seq(Complaints(T)) /\ declared.problems # <<>>
    <3>1. PICK C, s, x : C = Complaints(T) /\ s = out.problems /\ x = Problem("already defined", d.name)
      OBVIOUS
    <3>2. s \in Seq(C) /\ x \in C
      BY <2>2, <3>1 DEF IsMerged
    <3>3. Append(s, x) \in Seq(C) /\ Append(s, x) # <<>>
      BY <3>2, Appending
    <3> QED BY <2>3, <3>1, <3>3
  <2> QED BY <2>1, <2>4 DEF IsMerged, OutFields, HasAll
<1>2. CASE ~\E i \in DOMAIN out.declares : out.declares[i].name = d.name
  <2>1. declared = [out EXCEPT !.declares = Append(@, d)]
    BY <1>2 DEF Declare
  <2>2. declared.declares = Append(out.declares, d) /\ declared.problems = out.problems
    BY <2>1 DEF IsMerged, OutFields
  <2>3. declared.declares \in Seq(T) /\ Range(declared.declares) = Range(out.declares) \cup {d}
    <3>1. PICK s : s = out.declares
      OBVIOUS
    <3>2. s \in Seq(T)
      BY <3>1 DEF IsMerged
    <3>3. Append(s, d) \in Seq(T) /\ Range(Append(s, d)) = Range(s) \cup {d}
      BY <3>2, Appending
    <3> QED BY <2>2, <3>1, <3>3
  <2>4. \A e \in Range(out.declares) : e.name # d.name
    BY <1>2 DEF Range
  <2>5. ASSUME NEW D, HasAll(out, D) PROVE HasAll(declared, D \cup {d})
    BY <2>2, <2>3, <2>4, <2>5 DEF HasAll
  <2> QED BY <2>1, <2>2, <2>3, <2>5 DEF IsMerged, OutFields
<1> QED BY <1>1, <1>2

\* All that a file declares, in turn.
LEMMA DeclaresInTurn ==
    ASSUME NEW out, NEW T, IsMerged(out, T), NEW s \in Seq(T),
           NEW declared, declared = FoldLeft(Declare, out, s)
    PROVE  /\ IsMerged(declared, T)
           /\ declared.entry_rule = out.entry_rule
           /\ declared.problems = <<>> => out.problems = <<>>
           /\ \A D : HasAll(out, D) => HasAll(declared, D \cup Range(s))
<1>1. DOMAIN s = 1..Len(s) /\ Len(s) \in Nat
  OBVIOUS
<1>2. FoldLeft(Declare, out, s) = OfDeclare!FoldLeft(Declare, out, s)
  BY Zenon DEF FoldLeft, MapThenFoldSet, Max, OfDeclare!FoldLeft, OfDeclare!MapThenFoldSet, OfDeclare!Max
<1> DEFINE after(k) == OfDeclare!After(out, s, k)
<1>3. /\ after(0) = out
      /\ \A i \in 1..Len(s) : after(i) = Declare(after(i - 1), s[i])
  BY <1>1, OfDeclare!FoldsOneByOne
<1>4. OfDeclare!FoldLeft(Declare, out, s) = after(Len(s))
  BY <1>1, OfDeclare!FoldsOneByOne
<1>5. declared = after(Len(s))
  BY <1>2, <1>4
<1> DEFINE Upto(k) == {s[i] : i \in 1..k}
           Good(k) == /\ IsMerged(after(k), T)
                      /\ after(k).entry_rule = out.entry_rule
                      /\ after(k).problems = <<>> => out.problems = <<>>
                      /\ \A D : HasAll(out, D) => HasAll(after(k), D \cup Upto(k))
           All == {k \in Nat : k <= Len(s) => Good(k)}
<1> HIDE DEF after
<1>6. Good(0)
  <2>1. Upto(0) = {}
    OBVIOUS
  <2> QED BY <1>3, <2>1
<1>7. ASSUME NEW k \in Nat, k + 1 <= Len(s), Good(k) PROVE Good(k + 1)
  <2>1. k + 1 \in 1..Len(s) /\ (k + 1) - 1 = k /\ s[k + 1] \in T
    BY <1>7
  <2>2. after(k + 1) = Declare(after(k), s[k + 1])
    BY <1>3, <2>1
  <2>3. /\ IsMerged(after(k + 1), T)
        /\ after(k + 1).entry_rule = after(k).entry_rule
        /\ after(k + 1).problems = <<>> => after(k).problems = <<>>
        /\ \A D : HasAll(after(k), D) => HasAll(after(k + 1), D \cup {s[k + 1]})
    BY <1>7, <2>1, <2>2, DeclareStep
  <2>4. Upto(k + 1) = Upto(k) \cup {s[k + 1]}
    <3>1. 1..k + 1 = (1..k) \cup {k + 1}
      OBVIOUS
    <3> QED BY <3>1
  <2>5. ASSUME NEW D, HasAll(out, D) PROVE HasAll(after(k + 1), D \cup Upto(k + 1))
    <3>1. HasAll(after(k), D \cup Upto(k))
      BY <1>7, <2>5
    <3>2. (D \cup Upto(k)) \cup {s[k + 1]} = D \cup Upto(k + 1)
      BY <2>4
    <3> HIDE DEF Upto
    <3>3. HasAll(after(k + 1), (D \cup Upto(k)) \cup {s[k + 1]})
      BY <2>3, <3>1
    <3> QED BY <3>2, <3>3
  <2> HIDE DEF Upto
  <2> QED BY <1>7, <2>3, <2>5
<1> HIDE DEF Good
<1>8. 0 \in All /\ \A k \in Nat : k \in All => k + 1 \in All
  BY <1>6, <1>7
<1> HIDE DEF All
<1>9. Len(s) \in All
  BY <1>1, <1>8, Induction
<1>10. Good(Len(s))
  BY <1>1, <1>9 DEF All
<1>11. Upto(Len(s)) = Range(s)
  BY <1>1 DEF Range
<1> HIDE DEF Upto
<1> QED BY <1>5, <1>10, <1>11 DEF Good

\* So for a whole file.
LEMMA MergeFileStep ==
    ASSUME NEW out, NEW T, IsMerged(out, T), NEW file, IsFile(file.text), IsText(file.text),
           Range(file.text.declares) \subseteq T, NEW merged, merged = MergeFile(out, file)
    PROVE  /\ IsMerged(merged, T)
           /\ merged.entry_rule = out.entry_rule
           /\ merged.problems = <<>> => out.problems = <<>>
           /\ \A D : HasAll(out, D) => HasAll(merged, D \cup Range(file.text.declares))
<1>1. PICK text : text = file.text
  OBVIOUS
<1>0. PICK once, twice : once = FALSE /\ twice = TRUE
  OBVIOUS
<1>2. PICK a : a = Settle(out, "grammar", text.grammar, once)
  OBVIOUS
<1>3. PICK b : b = Settle(a, "target", text.target, twice)
  OBVIOUS
<1>4. PICK c : c = Settle(b, "keywords", text.keywords, twice)
  OBVIOUS
<1>5. PICK s : s = Declarations(text)
  OBVIOUS
<1>6. PICK declared : declared = FoldLeft(Declare, c, s)
  OBVIOUS
<1>7. merged = [declared EXCEPT !.lints = @ \/ text.lints, !.unsupported = @ \/ text.unsupported]
  BY <1>1, <1>2, <1>3, <1>4, <1>5, <1>6, <1>0, Zenon DEF MergeFile
<1>8. "grammar" \in Settings /\ "target" \in Settings /\ "keywords" \in Settings
  BY DEF Settings
<1>9. /\ IsMerged(a, T) /\ a.declares = out.declares /\ a.entry_rule = out.entry_rule
      /\ a.problems = <<>> => out.problems = <<>>
  BY <1>2, <1>8, SettleStep
<1>10. /\ IsMerged(b, T) /\ b.declares = a.declares /\ b.entry_rule = a.entry_rule
       /\ b.problems = <<>> => a.problems = <<>>
  BY <1>3, <1>8, <1>9, SettleStep
<1>11. /\ IsMerged(c, T) /\ c.declares = b.declares /\ c.entry_rule = b.entry_rule
       /\ c.problems = <<>> => b.problems = <<>>
  BY <1>4, <1>8, <1>10, SettleStep
<1>12. s \in Seq(T) /\ Range(s) = Range(text.declares)
  <2>1. s \in Seq(Range(text.declares)) /\ Range(s) = Range(text.declares)
    BY <1>1, <1>5, DeclaresAll
  <2> QED BY <1>1, <2>1
<1>13. /\ IsMerged(declared, T)
       /\ declared.entry_rule = c.entry_rule
       /\ declared.problems = <<>> => c.problems = <<>>
       /\ \A D : HasAll(c, D) => HasAll(declared, D \cup Range(s))
  BY <1>6, <1>11, <1>12, DeclaresInTurn
<1>14. /\ merged.declares = declared.declares /\ merged.problems = declared.problems
       /\ merged.entry_rule = declared.entry_rule /\ merged = [f \in OutFields |-> merged[f]]
  BY <1>7, <1>13 DEF IsMerged, OutFields
<1>15. IsMerged(merged, T)
  BY <1>13, <1>14 DEF IsMerged
<1>16. \A D : HasAll(out, D) => HasAll(c, D)
  BY <1>9, <1>10, <1>11 DEF HasAll
<1>17. \A D : HasAll(declared, D) => HasAll(merged, D)
  BY <1>14 DEF HasAll
<1>18. \A D : HasAll(out, D) => HasAll(merged, D \cup Range(text.declares))
  BY <1>12, <1>13, <1>16, <1>17
<1> QED BY <1>1, <1>9, <1>10, <1>11, <1>13, <1>14, <1>15, <1>18

\* Files that are recorded, of declarations in T.
AreTexts(recorded, T) ==
    \A i \in DOMAIN recorded : /\ IsFile(recorded[i].text) /\ IsText(recorded[i].text)
                              /\ Range(recorded[i].text.declares) \subseteq T
DeclaredBy(recorded) == UNION {Range(recorded[i].text.declares) : i \in DOMAIN recorded}

\* All the files recorded, in turn.
LEMMA MergesInTurn ==
    ASSUME NEW out, NEW T, IsMerged(out, T), NEW recorded, NEW size \in Nat, DOMAIN recorded = 1..size,
           AreTexts(recorded, T),
           NEW merged, merged = FoldLeft(MergeFile, out, recorded)
    PROVE  /\ IsMerged(merged, T)
           /\ merged.entry_rule = out.entry_rule
           /\ HasAll(out, {}) => HasAll(merged, DeclaredBy(recorded))
<1>2. FoldLeft(MergeFile, out, recorded) = OfMerge!FoldLeft(MergeFile, out, recorded)
  BY Zenon DEF FoldLeft, MapThenFoldSet, Max, OfMerge!FoldLeft, OfMerge!MapThenFoldSet, OfMerge!Max
<1> DEFINE after(k) == OfMerge!After(out, recorded, k)
<1>3. /\ after(0) = out
      /\ \A i \in 1..size : after(i) = MergeFile(after(i - 1), recorded[i])
  BY OfMerge!FoldsOneByOne
<1>4. OfMerge!FoldLeft(MergeFile, out, recorded) = after(size)
  BY OfMerge!FoldsOneByOne
<1>5. merged = after(size)
  BY <1>2, <1>4
<1> DEFINE Of(i) == Range(recorded[i].text.declares)
           Upto(k) == UNION {Of(i) : i \in 1..k}
           Good(k) == /\ IsMerged(after(k), T)
                      /\ after(k).entry_rule = out.entry_rule
                      /\ HasAll(out, {}) => HasAll(after(k), Upto(k))
           All == {k \in Nat : k <= size => Good(k)}
<1> HIDE DEF after
<1>6. Good(0)
  <2>1. Upto(0) = {}
    OBVIOUS
  <2> HIDE DEF Upto
  <2> QED BY <1>3, <2>1
<1>7. ASSUME NEW k \in Nat, k + 1 <= size, Good(k) PROVE Good(k + 1)
  <2>1. k + 1 \in 1..size /\ (k + 1) - 1 = k
    BY <1>7
  <2>2. PICK a, b, file : a = after(k) /\ b = after(k + 1) /\ file = recorded[k + 1]
    OBVIOUS
  <2>3. b = MergeFile(a, file)
    BY <1>3, <2>1, <2>2
  <2>4. IsFile(file.text) /\ IsText(file.text) /\ Range(file.text.declares) \subseteq T
    BY <2>1, <2>2 DEF AreTexts
  <2>5. IsMerged(a, T)
    BY <1>7, <2>2
  <2>6. /\ IsMerged(b, T)
        /\ b.entry_rule = a.entry_rule
        /\ \A D : HasAll(a, D) => HasAll(b, D \cup Range(file.text.declares))
    BY <2>3, <2>4, <2>5, MergeFileStep
  <2>7. Upto(k + 1) = Upto(k) \cup Of(k + 1)
    <3>1. 1..k + 1 = (1..k) \cup {k + 1}
      OBVIOUS
    <3> HIDE DEF Of
    <3> QED BY <3>1
  <2>8. Of(k + 1) = Range(file.text.declares)
    BY <2>2
  <2> HIDE DEF Upto, Of
  <2> QED BY <1>7, <2>2, <2>6, <2>7, <2>8
<1> HIDE DEF Good
<1>8. 0 \in All /\ \A k \in Nat : k \in All => k + 1 \in All
  BY <1>6, <1>7
<1> HIDE DEF All
<1>9. size \in All
  BY <1>8, Induction
<1>10. Good(size)
  BY <1>9 DEF All
<1>11. Upto(size) = DeclaredBy(recorded)
  BY DEF DeclaredBy
<1> HIDE DEF Upto
<1> QED BY <1>5, <1>10, <1>11 DEF Good

\* What the files recorded come to.
LEMMA Merged ==
    ASSUME NEW recorded, NEW size \in Nat, DOMAIN recorded = 1..size, NEW T,
           AreTexts(recorded, T)
    PROVE  /\ IsMerged(Merge(recorded), T)
           /\ Merge(recorded).entry_rule = EntryRule(recorded)
           /\ HasAll(Merge(recorded), DeclaredBy(recorded))
<1>1. PICK base : base = [grammar |-> "none", target |-> "none", keywords |-> "none",
                          entry_rule |-> EntryRule(recorded), imports |-> {},
                          declares |-> <<>>, lints |-> FALSE, unsupported |-> FALSE,
                          problems |-> <<>>]
  OBVIOUS
<1>2. IsMerged(base, T) /\ base.entry_rule = EntryRule(recorded)
  <2>1. <<>> \in Seq(T) /\ <<>> \in Seq(Complaints(T))
    OBVIOUS
  <2>2. base = [f \in OutFields |-> base[f]] /\ base.declares = <<>> /\ base.problems = <<>>
    BY <1>1 DEF OutFields
  <2>3. base.entry_rule = EntryRule(recorded)
    BY <1>1
  <2> QED BY <2>1, <2>2, <2>3 DEF IsMerged
<1>3. HasAll(base, {})
  BY <1>1 DEF HasAll, Range
<1>4. PICK out : out = FoldLeft(MergeFile, base, recorded)
  OBVIOUS
<1>5. PICK merged : merged = Merge(recorded)
  OBVIOUS
<1>6. merged = IF out.grammar = "none"
               THEN [out EXCEPT !.problems = Append(@, Problem("no grammar", Entry))]
               ELSE out
  BY <1>1, <1>4, <1>5, Zenon DEF Merge
<1>7. PICK D : D = DeclaredBy(recorded)
  OBVIOUS
<1>8. IsMerged(out, T) /\ out.entry_rule = base.entry_rule /\ HasAll(out, D)
  BY <1>2, <1>3, <1>4, <1>7, MergesInTurn, Zenon
<1>9. CASE merged = out
  BY <1>2, <1>5, <1>7, <1>8, <1>9
<1>10. CASE merged = [out EXCEPT !.problems = Append(@, Problem("no grammar", Entry))]
  <2>1. PICK C, s, x : C = Complaints(T) /\ s = out.problems /\ x = Problem("no grammar", Entry)
    OBVIOUS
  <2>2. s \in Seq(C) /\ x \in C
    BY <1>8, <2>1 DEF IsMerged, Complaints
  <2>3. Append(s, x) \in Seq(C) /\ Append(s, x) # <<>>
    BY <2>2, Appending
  <2>4. merged.problems = Append(s, x)
    BY <1>8, <1>10, <2>1 DEF IsMerged, OutFields
  <2>5. IsMerged(merged, T) /\ merged.entry_rule = out.entry_rule
    BY <1>8, <1>10, <2>1, <2>3, <2>4 DEF IsMerged, OutFields
  <2>6. HasAll(merged, D)
    BY <2>3, <2>4 DEF HasAll
  <2> QED BY <1>2, <1>5, <1>7, <1>8, <2>5, <2>6
<1> QED BY <1>6, <1>9, <1>10
================================================================================
