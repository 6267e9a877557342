------------------------------- MODULE Values -------------------------------
(***************************************************************************)
(* Scalar values of the machine (nh-vm/src/value.rs) and what its          *)
(* register-to-register instructions make of them (nh-vm/src/machine.rs).  *)
(*                                                                         *)
(* A number is a multiple of one half, held as its double: Num(1) is 0.5   *)
(* and Num(2) is 1, which is as fine as the instructions can tell whole    *)
(* numbers from fractions.  A string is an element of Text, with no        *)
(* characters.  Reference values (arrays, objects) are not here.           *)
(***************************************************************************)
EXTENDS Integers

CONSTANTS
    Text,       \* strings
    EmptyText,  \* the empty string
    OtherText,  \* the text of any value that is not a string
    Concat      \* two texts put together, a function of the pair

Nil == [type |-> "nil"]
Bool(b) == [type |-> "bool", bool |-> b]
Num(h) == [type |-> "num", num |-> h]
Str(t) == [type |-> "str", str |-> t]

Value ==
    [type : {"nil"}]
        \cup [type : {"bool"}, bool : BOOLEAN]
        \cup [type : {"num"}, num : Int]
        \cup [type : {"str"}, str : Text]

ASSUME TextAssumption ==
    /\ EmptyText \in Text /\ OtherText \in Text
    /\ Concat \in [Text \X Text -> Text]

\* What an instruction comes to when it yields no value: the program fails,
\* or the native code under the machine panics.
Error == [type |-> "error"]
Panic == [type |-> "panic"]
Outcome == Value \cup {Error, Panic}

IsNum(v) == v.type = "num"
IsStr(v) == v.type = "str"

\* `to_string`
Display(v) == IF IsStr(v) THEN v.str ELSE OtherText

Truthy(v) ==
    \/ v.type = "bool" /\ v.bool
    \/ v.type = "num" /\ v.num # 0
    \/ v.type = "str" /\ v.str # EmptyText

\* Division of integers towards zero, and its remainder, for n # 0.
Quotient(m, n) ==
    LET Abs(k) == IF k < 0 THEN -k ELSE k
        q == Abs(m) \div Abs(n)
    IN IF (m < 0) = (n < 0) THEN q ELSE -q
Remainder(m, n) == m - n * Quotient(m, n)

\* `x as i64`: the whole part of the number held as h.
AsI64(h) == Quotient(h, 2)

Arithmetic == {"Add", "Sub", "IDiv", "Rem"}
Comparison == {"Eq", "Ne", "Lt", "Le"}

\* `IDiv`: the guard looks at the divisor itself, the division at its whole
\* part, and a division of integers by zero is a native panic.
IntegerDivide(m, n) ==
    CASE n = 0 -> Error
      [] n # 0 /\ AsI64(n) = 0 -> Panic
      [] OTHER -> Num(2 * Quotient(AsI64(m), AsI64(n)))

OfNumbers(op, m, n) ==
    CASE op = "Add" -> Num(m + n)
      [] op = "Sub" -> Num(m - n)
      [] op = "IDiv" -> IntegerDivide(m, n)
      [] op = "Rem" -> IF n = 0 THEN Error ELSE Num(Remainder(m, n))
      [] op = "Lt" -> Bool(m < n)
      [] op = "Le" -> Bool(m <= n)

\* The instructions with two operands.  Only `+` and the equalities take
\* anything but two numbers.
Binary(op, a, b) ==
    CASE op = "Eq" -> Bool(a = b)
      [] op = "Ne" -> Bool(a # b)
      [] op = "Add" /\ (IsStr(a) \/ IsStr(b)) -> Str(Concat[<<Display(a), Display(b)>>])
      [] OTHER -> IF IsNum(a) /\ IsNum(b)
                  THEN OfNumbers(op, a.num, b.num)
                  ELSE Error

\* The instructions with one operand.
Unary(op, a) ==
    CASE op = "Move" -> a
      [] op = "Not" -> Bool(~Truthy(a))
      [] op = "Neg" -> IF IsNum(a) THEN Num(-a.num) ELSE Error
      [] op = "BitNot" -> IF IsNum(a) THEN Num(2 * (-AsI64(a.num) - 1)) ELSE Error
=============================================================================
