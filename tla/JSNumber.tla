------------------------------- MODULE JSNumber -------------------------------
(***************************************************************************)
(* What the JavaScript operators compute, over the values the arithmetic   *)
(* modules tell apart: integers, halves and -0 (numbers are counted in     *)
(* halves), every other number ("nan"), booleans, strings (a string is     *)
(* the number it spells) and BigInts.  It is the reference the compiler's  *)
(* rules are compared with; the word width and the exact-double domain     *)
(* are those of OpSemantics.                                               *)
(***************************************************************************)
EXTENDS OpSemantics, Bitwise

Val(k, h, nz) == [k |-> k, h |-> h, nz |-> nz]
IntV(n) == Val("num", 2 * n, FALSE)
HalfV(h) == Val("num", h, FALSE)
NegZero == Val("num", 0, TRUE)
NaN == Val("nan", 0, FALSE)
BoolV(b) == Val("bool", IF b THEN 2 ELSE 0, FALSE)
StrV(n) == Val("str", n, FALSE)
BigV == Val("big", 0, FALSE)
Throw == Val("throw", 0, FALSE)

IsInteger(v) == v.k = "num" /\ v.h % 2 = 0
Negative(v) == v.nz \/ v.h < 0
IsZero(v) == v.k = "num" /\ v.h = 0

\* A sum or product beyond the exact domain rounds to an even integer.
Rounded(h) == IF AbsOf(h) <= 2 * IV_LIM THEN h ELSE h - (h % 4)
Signed(h, negative) == Val("num", Rounded(h), h = 0 /\ negative)

ToNumber(v) == CASE v.k \in {"num", "nan"} -> v
                 [] v.k = "bool" -> HalfV(v.h)
                 [] v.k = "str" -> IntV(v.h)

Spelled(v) == IF v.k = "str" THEN v.h ELSE v.h \div 2
Concat(x, y) == StrV(100 * Spelled(x) + Spelled(y))

\* ToInt32 and ToUint32 truncate towards zero and wrap; "nan" has h = 0.
Truncated(v) == IF v.h >= 0 THEN v.h \div 2 ELSE -((-v.h) \div 2)
ToUint(v) == Truncated(v) % 2^W
SignedWord(n) == LET m == n % 2^W IN IF m > I32_HI THEN m - 2^W ELSE m
ToInt32(v) == SignedWord(Truncated(v))
ShiftBy(v) == ToUint(v) % W

Plus(x, y) == Signed(x.h + y.h, x.nz /\ y.nz)
Minus(x, y) == Signed(x.h - y.h, x.nz /\ ~y.nz)
Times(x, y) == IF (x.h * y.h) % 2 = 1 THEN NaN
               ELSE Signed((x.h * y.h) \div 2, Negative(x) # Negative(y))
Remainder(x, y) ==
    IF IsZero(y) THEN NaN
    ELSE LET m == AbsOf(x.h) % AbsOf(y.h)
         IN Signed(IF Negative(x) THEN -m ELSE m, Negative(x))

\* Of two numbers; y is ignored by the unary operators.
NumberOp(op, x, y) ==
    LET nan == x.k = "nan" \/ (op \notin Unary /\ y.k = "nan")
        arith == op \in {"Add", "Sub", "Mul", "Mod", "Inc", "Dec", "Neg", "Pos"}
    IN CASE op = "BitAnd" -> IntV(SignedWord(ToUint(x) & ToUint(y)))
         [] op = "BitOr"  -> IntV(SignedWord(ToUint(x) | ToUint(y)))
         [] op = "BitXor" -> IntV(SignedWord(ToUint(x) ^^ ToUint(y)))
         [] op = "Lsh"    -> IntV(SignedWord(ToInt32(x) * 2^ShiftBy(y)))
         [] op = "Rsh"    -> IntV(ToInt32(x) \div 2^ShiftBy(y))
         [] op = "Ursh"   -> IntV(ToUint(x) \div 2^ShiftBy(y))
         [] op = "BitNot" -> IntV(-ToInt32(x) - 1)
         [] op = "Div" \/ (arith /\ nan) -> NaN
         [] op = "Add" /\ ~nan -> Plus(x, y)
         [] op = "Sub" /\ ~nan -> Minus(x, y)
         [] op = "Inc" /\ ~nan -> Plus(x, IntV(1))
         [] op = "Dec" /\ ~nan -> Minus(x, IntV(1))
         [] op = "Neg" /\ ~nan -> Signed(-x.h, x.k = "num" /\ ~x.nz)
         [] op = "Pos" /\ ~nan -> x
         [] op = "Mul" /\ ~nan -> Times(x, y)
         [] op = "Mod" /\ ~nan -> Remainder(x, y)

\* Of any two values: concatenation, BigInts and the coercions included.
JSValue(op, x, y) ==
    LET ks == IF op \in Unary THEN {x.k} ELSE {x.k, y.k}
    IN CASE op = "Add" /\ "str" \in ks -> Concat(x, y)
         [] ~(op = "Add" /\ "str" \in ks) /\ "big" \in ks ->
              IF ks = {"big"} /\ op \notin {"Ursh", "Pos"} THEN BigV ELSE Throw
         [] ~(op = "Add" /\ "str" \in ks) /\ "big" \notin ks ->
              NumberOp(op, ToNumber(x), IF op \in Unary THEN x ELSE ToNumber(y))
=============================================================================
