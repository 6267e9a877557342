------------------------------- MODULE Folding -------------------------------
(***************************************************************************)
(* The folding of a flat stream of operands and operators into a tree      *)
(* (nh-runtime/src/ops.rs), and the tree the precedences define, stated    *)
(* without an algorithm.                                                   *)
(*                                                                         *)
(* A table is what the generator makes of a grammar's `precedence` block:  *)
(* `info` for the infix and postfix readings of operators, `prefix` for    *)
(* the prefix ones, because a spelling such as - may have both.            *)
(***************************************************************************)
EXTENDS Integers, Sequences, SequencesExt

\* An entry of a table: a higher precedence binds tighter.
Op(prec, fixity, assoc) == [prec |-> prec, fixity |-> fixity, assoc |-> assoc]

\* A token of a stream is an operator, or the node of an operand.
OpToken(op) == [kind |-> "op", op |-> op]
IsOp(token) == token.kind = "op"

HasInfo(table, token, fixity) ==
    /\ IsOp(token)
    /\ token.op \in DOMAIN table.info
    /\ table.info[token.op].fixity = fixity
HasPrefix(table, token) == IsOp(token) /\ token.op \in DOMAIN table.prefix

Infix(op, lhs, rhs) == [kind |-> "infix", op |-> op, exprs |-> <<lhs, rhs>>]
Prefix(op, operand) == [kind |-> "prefix", op |-> op, exprs |-> <<operand>>]
Postfix(op, operand) == [kind |-> "postfix", op |-> op, exprs |-> <<operand>>]

---------------------------------------------------------------------------
(* The builder.  A result is a tree and the position after it, or Unfolded *)

Unfolded == [kind |-> "unfolded"]

\* The loosest operator that may stand in the right operand of one.
\* A mutant: as if the left operand could be as loose on either side.
NextMinOfEither(info) == info.prec
NextMin(info) == IF info.assoc = "left" THEN info.prec + 1 ELSE info.prec

Parsed(tree, next) == [tree |-> tree, next |-> next]

\* parse_unary, from the operand on: the postfix operators that follow it.
Applied(node, token) == Postfix(token.op, node)
WithPostfix(table, tokens, start) ==
    LET next == CHOOSE n \in start + 1..Len(tokens) + 1 :
                    /\ \A i \in start + 1..n - 1 : HasInfo(table, tokens[i], "postfix")
                    /\ n <= Len(tokens) => ~HasInfo(table, tokens[n], "postfix")
    IN Parsed(FoldLeft(Applied, tokens[start], SubSeq(tokens, start + 1, next - 1)), next)

\* parse_unary, where `climb` has what `parse` makes of the rest.
ParseUnary(table, tokens, climb, start) ==
    IF start > Len(tokens) THEN Unfolded
    ELSE IF HasPrefix(table, tokens[start]) THEN
        LET op == tokens[start].op
            operand == climb[<<start + 1, table.prefix[op].prec>>]
        IN IF operand = Unfolded THEN Unfolded
           ELSE Parsed(Prefix(op, operand.tree), operand.next)
    ELSE IF IsOp(tokens[start]) /\ ~HasInfo(table, tokens[start], "postfix") THEN Unfolded
    ELSE WithPostfix(table, tokens, start)

\* The loop of `parse` goes on while an infix operator tight enough follows.
TakesInfix(table, tokens, min, lhs) ==
    /\ lhs # Unfolded
    /\ lhs.next <= Len(tokens)
    /\ HasInfo(table, tokens[lhs.next], "infix")
    /\ table.info[tokens[lhs.next].op].prec >= min
Extend(table, tokens, climb, min, lhs) ==
    IF ~TakesInfix(table, tokens, min, lhs) THEN lhs
    ELSE LET op == tokens[lhs.next].op
             rhs == climb[<<lhs.next + 1, NextMin(table.info[op])>>]
         IN IF rhs = Unfolded THEN Unfolded
            ELSE Parsed(Infix(op, lhs.tree, rhs.tree), rhs.next)

\* What `parse` has after each round of its loop.  Two tokens are taken in each at least.
LastRound(tokens, start) == (Len(tokens) + 1 - start) \div 2
Rounds(table, tokens, climb, start, min) ==
    LET lhs[k \in 0..Len(tokens)] ==
            IF k = 0 THEN ParseUnary(table, tokens, climb, start)
            ELSE Extend(table, tokens, climb, min, lhs[k - 1])
    IN lhs

\* `parse` for every position and least precedence.
Precs(table) ==
    {table.info[o].prec : o \in DOMAIN table.info}
        \cup {table.prefix[o].prec : o \in DOMAIN table.prefix}
Mins(table) == Precs(table) \cup {0} \cup {p + 1 : p \in Precs(table)}
Climb(table, tokens) ==
    LET climb[at \in (1..Len(tokens) + 1) \X Mins(table)] ==
            Rounds(table, tokens, climb, at[1], at[2])[LastRound(tokens, at[1])]
    IN climb

\* `build`: the whole stream, or an error.
Fold(table, tokens) ==
    LET all == Climb(table, tokens)[<<1, 0>>]
    IN IF all = Unfolded THEN Unfolded
       ELSE IF all.next <= Len(tokens) THEN Unfolded
       ELSE all.tree

---------------------------------------------------------------------------
(* What the precedences define                                             *)

\* The trees of the tokens of a span that respect the table, each with `open`, the
\* precedences of the prefix operators whose operands end where the tree ends.
Derived(tree, open) == [tree |-> tree, open |-> open]
NotLooser(table, tree, prec) == tree.kind = "infix" => table.info[tree.op].prec >= prec

\* A prefix operator's operand is no looser infix operation.
ByPrefix(table, op, operands) ==
    LET prec == table.prefix[op].prec
    IN {Derived(Prefix(op, o.tree), o.open \cup {prec}) :
          o \in {t \in operands : NotLooser(table, t.tree, prec)}}

\* A postfix operator binds tighter than all others.
ByPostfix(op, operands) ==
    {Derived(Postfix(op, o.tree), {}) :
        o \in {t \in operands : t.tree.kind \notin {"infix", "prefix"}}}

\* An infix operator's operands bind tighter, or as tight on the side its
\* associativity names; and no prefix operator at the end of its left operand
\* is loose enough to have taken it.
LeastOnLeft(info) == IF info.assoc = "left" THEN info.prec ELSE info.prec + 1
ByInfix(table, op, lefts, rights) ==
    LET info == table.info[op]
    IN {Derived(Infix(op, lr[1].tree, lr[2].tree), lr[2].open) :
          lr \in {p \in lefts \X rights :
                    /\ NotLooser(table, p[1].tree, LeastOnLeft(info))
                    /\ \A prec \in p[1].open : info.prec < prec
                    /\ NotLooser(table, p[2].tree, NextMin(info))}}

\* Those of tokens i to j, where `trees` has the ones of its parts.
Spanning(table, tokens, trees, i, j) ==
    IF i > j THEN {}
    ELSE IF i = j THEN IF IsOp(tokens[i]) THEN {} ELSE {Derived(tokens[i], {})}
    ELSE (IF HasPrefix(table, tokens[i])
          THEN ByPrefix(table, tokens[i].op, trees[<<i + 1, j>>]) ELSE {})
         \cup (IF HasInfo(table, tokens[j], "postfix")
               THEN ByPostfix(tokens[j].op, trees[<<i, j - 1>>]) ELSE {})
         \cup UNION {ByInfix(table, tokens[k].op, trees[<<i, k - 1>>], trees[<<k + 1, j>>]) :
                       k \in {m \in i + 1..j - 1 : HasInfo(table, tokens[m], "infix")}}
TreesOf(table, tokens) ==
    LET trees[span \in (1..Len(tokens) + 1) \X (0..Len(tokens))] ==
            Spanning(table, tokens, trees, span[1], span[2])
    IN trees
Declared(table, tokens) == {t.tree : t \in TreesOf(table, tokens)[<<1, Len(tokens)>>]}

---------------------------------------------------------------------------
(* What is folded                                                          *)

\* The operators of a tier have its precedence and its associativity.
IsTable(table) ==
    /\ \A o \in DOMAIN table.info : table.info[o].prec \in Nat
    /\ \A o \in DOMAIN table.prefix : table.prefix[o].prec \in Nat
    /\ \A o, p \in DOMAIN table.info :
          table.info[o].prec = table.info[p].prec => table.info[o].assoc = table.info[p].assoc

\* prefix* atom postfix* (infix prefix* atom postfix* )*, where `wanting` has the
\* places at which an operand is still to come.
Alternates(table, tokens, wanting) ==
    /\ tokens # <<>> => 1 \in wanting
    /\ \A i \in DOMAIN tokens :
          IF i \in wanting THEN HasPrefix(table, tokens[i]) \/ ~IsOp(tokens[i])
          ELSE HasInfo(table, tokens[i], "postfix") \/ HasInfo(table, tokens[i], "infix")
    /\ \A i \in DOMAIN tokens : i + 1 \in DOMAIN tokens =>
          (i + 1 \in wanting <=>
             IF i \in wanting THEN IsOp(tokens[i]) ELSE HasInfo(table, tokens[i], "infix"))
IsStream(table, tokens) ==
    /\ tokens \in Seq(Range(tokens))
    /\ \A i \in DOMAIN tokens : tokens[i].kind \notin {"infix", "prefix", "postfix", "unfolded"}
    /\ \E wanting \in SUBSET DOMAIN tokens : Alternates(table, tokens, wanting)

=============================================================================
