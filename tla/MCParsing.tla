------------------------------- MODULE MCParsing -------------------------------
(***************************************************************************)
(* Small grammars and programs: every pair of alternatives made of some    *)
(* expressions; an operator table; two languages that recover, with        *)
(* damaged programs whose statements are known; and unlabelled             *)
(* alternatives.                                                           *)
(***************************************************************************)
EXTENDS Parsing

TextsOf(n, chars) == UNION {[1..k -> chars] : k \in 0..n}
Program(text) == [text |-> text, statements |-> {}]

Fixed(value) == Literal(value, FALSE)
A == Fixed(<<"a">>)
Maybe(e) == Repeat(e, "?")
Star(e) == Repeat(e, "*")
Alternative(label, body) == [label |-> label, body |-> body]
Defined(name, alternatives) == [name |-> name, silent |-> FALSE, alternatives |-> alternatives]
Single(name, body) == Defined(name, <<Alternative(name, body)>>)
TokenOfChars(name, chars) ==
    [name |-> name, atomic |-> TRUE, folds |-> FALSE, body |-> Repeat(CharRange(chars), "+")]
Entire(e) == Single("program", Sequence(<<Ref("SOI"), e, Ref("EOI")>>))

Plain(rules, tokens) ==
    [rules |-> rules, tokens |-> tokens, skip |-> {}, folds |-> FALSE,
     reserved |-> <<>>, guards |-> <<>>, recovers |-> <<>>, allows |-> {},
     operators |-> <<>>, atom |-> "none", entry |-> "program"]

---------------------------------------------------------------------------
(* What the lints are about                                                *)

Tried ==
    <<A, Fixed(<<"a", "b">>), Sequence(<<A, Fixed(<<"b">>)>>), Maybe(A), Literal(<<"A">>, TRUE),
     Sequence(<<A, Ref("T")>>), Star(Ref("T")), Ref("s"), Repeat(Ref("s"), "+"),
     Sequence(<<Ref("r"), A>>), Sequence(<<A, Ref("r")>>), Sequence(<<Ref("s"), Ref("r")>>),
     Sequence(<<Lookahead(A, TRUE), Fixed(<<"b">>)>>), Choice(<<Fixed(<<"b">>), Maybe(A)>>)>>
Linted(one, other) ==
    [Plain(<<Entire(Ref("r")),
             Defined("r", <<Alternative("one", one), Alternative("other", other)>>),
             Single("s", Maybe(A))>>,
           <<TokenOfChars("T", {"a"})>>)
     EXCEPT !.allows = {[lint |-> "unreachable-alternative", rule |-> "r"]}]
LintedGrammars ==
    FlattenSeq([i \in DOMAIN Tried |-> [j \in DOMAIN Tried |-> Linted(Tried[i], Tried[j])]])

---------------------------------------------------------------------------
(* Operators, the shorter declared first                                   *)

Op(literal, fixity) == [literal |-> literal, fixity |-> fixity, word |-> FALSE]
WordOp(literal, fixity) == [literal |-> literal, fixity |-> fixity, word |-> TRUE]
Operating ==
    [Plain(<<Entire(Ref("expr")), Single("atom", Ref("ID"))>>, <<TokenOfChars("ID", {"x", "N"})>>)
     EXCEPT !.skip = {"_"}, !.atom = "atom",
            !.reserved = <<[token |-> "ID", words |-> {<<"N", "N">>}]>>,
            !.operators = <<Op(<<"<">>, "left"), Op(<<"<", "=">>, "left"), WordOp(<<"N">>, "left"),
                            WordOp(<<"N">>, "prefix"), Op(<<"=">>, "postfix"),
                            Op(<<"=", "=">>, "postfix")>>]
Operations ==
    {Program(t) : t \in {u \in TextsOf(5, {"x", "N", "<", "=", "_"}) :
                            /\ Len(u) = 4 => u[1] \in {"x", "N"} /\ u[4] \in {"x", "="}
                            /\ Len(u) = 5 => u[1] = "x" /\ u[5] = "x"}}

---------------------------------------------------------------------------
(* Recovery                                                                *)

\* A block in braces, every statement ended by ;.
Braced ==
    [Plain(<<Entire(Star(Ref("stmt"))),
             Defined("stmt", <<Alternative("iff", Sequence(<<Fixed(<<"i">>), Ref("block")>>)),
                               Alternative("print", Sequence(<<Fixed(<<"p">>), Fixed(<<";">>)>>))>>),
             Single("block", Sequence(<<Fixed(<<"{">>), Star(Ref("stmt")), Fixed(<<"}">>)>>))>>,
           <<>>)
     EXCEPT !.skip = {"_"}, !.recovers = <<[rule |-> "stmt", sync |-> Fixed(<<";">>)]>>]
\* A block of lines, and a word that ends it.
Lines ==
    [Plain(<<Entire(Ref("block")),
             Defined("stmt", <<Alternative("while", Sequence(<<Fixed(<<"i">>), Ref("block"),
                                                               Fixed(<<"}">>)>>)),
                               Alternative("print", Fixed(<<"p">>))>>),
             Single("line", Sequence(<<Ref("stmt"), Star(Ref("EOL"))>>)),
             Single("block", Star(Ref("line")))>>,
           <<TokenOfChars("EOL", {";"})>>)
     EXCEPT !.skip = {"_"}, !.recovers = <<[rule |-> "stmt", sync |-> Ref("EOL")]>>]

\* A program is made of pieces: each a text and the statements in it, by where they
\* begin and end in it.
Piece(text, statements) == [text |-> text, statements |-> statements]
Moved(statements, by) == {<<s[1] + by, s[2] + by>> : s \in statements}
Joined(pieces) ==
    FoldLeft(LAMBDA all, p : Piece(all.text \o p.text,
                                   all.statements \cup Moved(p.statements, Len(all.text))),
             Piece(<<>>, {}), pieces)
Statement(text) == Piece(text, {<<1, Len(text) + 1>>})
Between(opens, pieces, closes) ==
    LET all == Joined(<<Piece(opens, {})>> \o pieces \o <<Piece(closes, {})>>)
    IN Piece(all.text, {<<1, Len(all.text) + 1>>} \cup all.statements)

Unended == Statement(<<"?">>)
Lists(simple) == UNION {[1..n -> simple] : n \in 0..2}
Contents(simple, blanks) ==
    UNION {Lists(simple), {<<Unended>>}, {<<s, Unended>> : s \in simple},
           {<<Piece(blanks, {})>> \o l : l \in [1..1 -> simple]}}
BracedSimple == {Statement(<<"p", ";">>), Statement(<<"?", ";">>), Statement(<<"p", "?", "_", ";">>)}
BracedBlocks(inner) ==
    {Between(<<"i", "{">>, body, <<"}">>) : body \in Contents(inner, <<"_">>)}
LinesSimple ==
    {Joined(<<Statement(<<"p">>), Piece(<<";">>, {})>>), Statement(<<"?", ";">>),
     Statement(<<"?", "_", "?", ";">>)}
LinesBlocks(inner) ==
    {Between(<<"i">>, body, <<"}">>) : body \in Contents(inner, <<"_">>)}
Nested(blocks(_), simple) ==
    {Joined(p) : p \in UNION {
        Lists(simple),
        {<<b, s>> : b \in blocks(simple), s \in simple},
        {<<b>> : b \in blocks({CHOOSE s \in simple : Len(s.text) = 2}
                                \cup {b \in blocks(simple) : Len(b.text) < 7})}}}

---------------------------------------------------------------------------
(* Unlabelled alternatives: a word, a word in parentheses, and one after a *)
(* word that is kept whole                                                 *)

Passing ==
    [Plain(<<Entire(Ref("thing")),
             Defined("thing", <<Alternative("none", Sequence(<<Fixed(<<"(">>), Bind("e", Ref("thing")),
                                                               Fixed(<<")">>)>>)),
                                Alternative("pass", Sequence(<<Fixed(<<"L">>), Ref("item")>>)),
                                Alternative("none", Ref("item"))>>),
             Single("item", Ref("ID"))>>,
           <<TokenOfChars("ID", {"x", "L"})>>)
     EXCEPT !.skip = {"_"}, !.reserved = <<[token |-> "ID", words |-> {<<"L">>}]>>]
Passed == {Program(t) : t \in TextsOf(3, {"x", "L", "(", ")", "_"})}

---------------------------------------------------------------------------

MCWritten == <<Operating, Braced, Lines, Passing>> \o LintedGrammars
MCPrograms ==
    [i \in DOMAIN MCWritten |->
        CASE MCWritten[i] = Operating -> Operations
          [] MCWritten[i] = Braced -> Nested(BracedBlocks, BracedSimple)
          [] MCWritten[i] = Lines -> Nested(LinesBlocks, LinesSimple)
          [] MCWritten[i] = Passing -> Passed
          [] OTHER -> {Program(t) : t \in TextsOf(3, {"a", "b"})}]
=============================================================================
