-------------------------------- MODULE Trees --------------------------------
(***************************************************************************)
(* Parse trees as generated code reads them (nh-runtime/src/node.rs, and   *)
(* the helpers the generator puts in front of every ast.rs): a pair, its   *)
(* direct children, and the tags that bindings of the grammar put on them. *)
(***************************************************************************)
EXTENDS Integers, Sequences, SequencesExt

\* The sequence of what F makes of 1..n.  Concatenated, TLC evaluates each
\* element once.
Made(n, F(_)) == [i \in 1..n |-> F(i)] \o <<>>

\* A pair: the rule that matched, the tag the enclosing rule gave it, the pairs
\* of the rules inside it, and where it is in the text.
Pair(rule, tag, kids, at) == [rule |-> rule, tag |-> tag, kids |-> kids, at |-> at]
Leaf(rule, tag, at, text) == [rule |-> rule, tag |-> tag, kids |-> <<>>, at |-> at, text |-> text]

\* Node::tagged_all: direct children only.
\* A mutant: as pest's own search, which goes through the whole subtree.
RECURSIVE TaggedBelow(_, _)
TaggedBelow(pair, tag) ==
    FoldLeft(LAMBDA found, kid :
                 (IF kid.tag = tag THEN Append(found, kid) ELSE found) \o TaggedBelow(kid, tag),
             <<>>, pair.kids)
TaggedAll(pair, tag) == SelectSeq(pair.kids, LAMBDA kid : kid.tag = tag)

\* Node::tagged, as an Option, and where the grammar promises the child.
TaggedOption(pair, tag) ==
    LET found == TaggedAll(pair, tag) IN IF found = <<>> THEN <<>> ELSE <<Head(found)>>
Tagged(pair, tag) == Head(TaggedAll(pair, tag))

\* only_child: what a wrapper without a node of its own stands for.
HasOnlyChild(pair) == Len(pair.kids) = 1
OnlyChild(pair) == pair.kids[1]
Unbuilt(pair) == [kind |-> "unbuilt", span |-> pair.at]

\* The error nodes of a tree, in the order of the text (syntax_errors, walk).
\* Below one nothing is looked for.
RECURSIVE ErrorsBelow(_, _)
ErrorsBelow(pair, errorRules) ==
    IF pair.rule \in errorRules THEN <<pair.at>>
    ELSE FoldLeft(LAMBDA found, kid : found \o ErrorsBelow(kid, errorRules), <<>>, pair.kids)

=============================================================================
