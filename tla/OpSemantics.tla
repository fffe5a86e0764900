----------------------------- MODULE OpSemantics -----------------------------
(***************************************************************************)
(* The operator vocabulary of compiler/src/opsem.rs and the interval       *)
(* transfer of compiler/src/likelier/types.rs: which primitive classes,    *)
(* which magnitude and which integer bounds the analysis and the lowering  *)
(* ascribe to the result of a JavaScript operator.                         *)
(*                                                                         *)
(* The word width W stands for 32, Lim for the exponent 53 of the exact    *)
(* double domain, Rung1 and Rung2 for the exponents 36 and 48 of the       *)
(* widening ladder: the rules only compare the four.                       *)
(***************************************************************************)
EXTENDS Integers, FiniteSets, FiniteSetsExt

CONSTANTS W, Lim, Rung1, Rung2

ASSUME WidthAssumption ==
    /\ {W, Lim, Rung1, Rung2} \subseteq Nat
    /\ 2 <= W /\ W <= Rung1 /\ Rung1 <= Rung2 /\ Rung2 < Lim

I32_LO == -(2^(W-1))
I32_HI == 2^(W-1) - 1
U32_HI == 2^W - 1
IV_LIM == 2^Lim

MinOf(x, y) == IF x <= y THEN x ELSE y
MaxOf(x, y) == IF x >= y THEN x ELSE y
AbsOf(x) == IF x >= 0 THEN x ELSE -x

-----------------------------------------------------------------------------
(* The prim-class algebra.  An operand is [prims, wild, range], with       *)
(* range 0 for I32, 1 for I53, 2 for Top.                                  *)

NUM == {"int32", "double"}
I32 == 0
I53 == 1
Top == 2
Unary == {"Inc", "Dec", "Neg", "Pos", "BitNot"}

def_string(o) == ~o.wild /\ o.prims = {"string"}
may_string(o) == "string" \in o.prims

add_number_bits(o) ==
    (IF o.prims \cap {"int32", "boolean", "null"} # {} THEN {"int32"} ELSE {})
      \cup (IF o.prims \cap {"double", "undefined"} # {} THEN {"double"} ELSE {})
      \cup (IF o.wild THEN NUM ELSE {})

to_number_bits(o) ==
    add_number_bits(o) \cup (IF "string" \in o.prims THEN NUM ELSE {})

num_part_noint(na, nb) ==
    IF na = {} \/ nb = {} THEN {}
    ELSE IF na = {"double"} /\ nb = {"double"} THEN {"double"} ELSE NUM

num_part(na, nb) ==
    IF na = {"int32"} /\ nb = {"int32"} THEN {"int32"} ELSE num_part_noint(na, nb)

coerced_range(o) ==
    IF o.prims \cap {"undefined", "string"} # {} \/ o.wild THEN Top ELSE o.range

int_range(ra, rb) == IF MaxOf(ra, rb) <= I53 THEN I53 ELSE Top

\* The operand b is ignored by the unary operators.
result(op, a, b) ==
    LET na == to_number_bits(a)
        nb == to_number_bits(b)
        ra == coerced_range(a)
        rb == coerced_range(b)
    IN CASE op = "Add" /\ (def_string(a) \/ def_string(b)) -> <<{"string"}, Top>>
         [] op = "Add" /\ ~(def_string(a) \/ def_string(b)) ->
              << num_part(add_number_bits(a), add_number_bits(b))
                   \cup (IF may_string(a) \/ may_string(b) THEN {"string"} ELSE {}),
                 int_range(ra, rb) >>
         [] op \in {"Sub", "Mul"} -> <<num_part(na, nb), int_range(ra, rb)>>
         [] op = "Ursh" -> <<num_part(na, nb), I53>>
         [] op = "Mod" -> <<num_part_noint(na, nb), int_range(ra, rb)>>
         [] op \in {"Div", "Pow"} -> <<num_part_noint(na, nb), Top>>
         [] op \in {"Inc", "Dec", "Neg"} ->
              <<num_part(na, {"int32"}), int_range(ra, I32)>>
         [] op = "Pos" -> <<na, ra>>
         [] OTHER -> <<{"int32"}, I32>>

-----------------------------------------------------------------------------
(* The exact-integer interval algebra.  An interval claims a finite        *)
(* integer in lo..hi, or -0 when nz is set; NoIv claims nothing.           *)

NoIv == [ok |-> FALSE, lo |-> 0, hi |-> 0, nz |-> FALSE]
Iv(l, h, n) == [ok |-> TRUE, lo |-> l, hi |-> h, nz |-> n]
IV_I32 == Iv(I32_LO, I32_HI, FALSE)

iv_ok(l, h, n) ==
    IF l <= h /\ l >= -IV_LIM /\ h <= IV_LIM THEN Iv(l, h, n) ELSE NoIv

iv_nonneg_i32(i) == i.ok /\ i.lo >= 0 /\ i.hi <= I32_HI
InI32(i) == i.ok /\ i.lo >= I32_LO /\ i.hi <= I32_HI
iv_const(i, k) == i.ok /\ ~i.nz /\ i.lo = k /\ i.hi = k
ShiftCount(i) == {k \in 0..(W-1) : iv_const(i, k)}

iv_add(a, b) ==
    IF a.ok /\ b.ok THEN iv_ok(a.lo + b.lo, a.hi + b.hi, a.nz /\ b.nz) ELSE NoIv

\* Mutant: the far end subtracts the far end.
iv_subSameEnds(a, b) ==
    IF a.ok /\ b.ok THEN iv_ok(a.lo - b.lo, a.hi - b.hi, a.nz) ELSE NoIv

iv_sub(a, b) ==
    IF a.ok /\ b.ok THEN iv_ok(a.lo - b.hi, a.hi - b.lo, a.nz) ELSE NoIv

iv_mul(a, b) ==
    LET corners == {x * y : x \in {a.lo, a.hi}, y \in {b.lo, b.hi}}
        nz == \/ a.lo <= 0 /\ a.hi >= 0 /\ b.lo < 0
              \/ b.lo <= 0 /\ b.hi >= 0 /\ a.lo < 0
              \/ a.nz /\ b.hi > 0
              \/ b.nz /\ a.hi > 0
    IN IF a.ok /\ b.ok THEN iv_ok(Min(corners), Max(corners), nz) ELSE NoIv

iv_mod(a, b) ==
    IF a.ok /\ b.ok /\ a.lo >= 0 /\ ~a.nz /\ ~(b.lo <= 0 /\ b.hi >= 0)
    THEN iv_ok(0, MinOf(MaxOf(AbsOf(b.lo), AbsOf(b.hi)) - 1, a.hi), FALSE)
    ELSE NoIv

iv_neg(a) == IF a.ok THEN iv_ok(-a.hi, -a.lo, a.lo <= 0 /\ a.hi >= 0) ELSE NoIv

\* The higher bounds of the non-negative int32 operands, if any.
iv_bitand(a, b) ==
    LET his == {i.hi : i \in {j \in {a, b} : iv_nonneg_i32(j)}}
    IN IF his = {} THEN IV_I32 ELSE Iv(0, Min(his), FALSE)

next_power_of_two(n) == 2^(CHOOSE i \in 0..(W + 1) : 2^i >= n /\ (i = 0 \/ 2^(i-1) < n))

iv_bitorxor(a, b) ==
    IF iv_nonneg_i32(a) /\ iv_nonneg_i32(b)
    THEN Iv(0, MinOf(next_power_of_two(MaxOf(a.hi, b.hi) + 1) - 1, I32_HI), FALSE)
    ELSE IV_I32

iv_lsh(a, b) ==
    IF \E k \in ShiftCount(b) : InI32(a) /\ InI32(Iv(a.lo * 2^k, a.hi * 2^k, FALSE))
    THEN Iv(a.lo * 2^b.lo, a.hi * 2^b.lo, FALSE)
    ELSE IV_I32

iv_rsh(a, b) ==
    IF ShiftCount(b) = {} THEN IV_I32
    ELSE LET i == IF InI32(a) THEN a ELSE IV_I32
         IN Iv(i.lo \div 2^b.lo, i.hi \div 2^b.lo, FALSE)

iv_ursh(a, b) ==
    IF ShiftCount(b) = {} THEN Iv(0, U32_HI, FALSE)
    ELSE IF iv_nonneg_i32(a) THEN Iv(a.lo \div 2^b.lo, a.hi \div 2^b.lo, FALSE)
         ELSE Iv(0, U32_HI \div 2^b.lo, FALSE)

iv_bitnot(a) == IF InI32(a) THEN Iv(-a.hi - 1, -a.lo - 1, FALSE) ELSE IV_I32

iv_transfer(op, a, b) ==
    LET one == Iv(1, 1, FALSE)
    IN CASE op = "Add" -> iv_add(a, b)
         [] op = "Sub" -> iv_sub(a, b)
         [] op = "Mul" -> iv_mul(a, b)
         [] op = "Mod" -> iv_mod(a, b)
         [] op \in {"Div", "Pow"} -> NoIv
         [] op = "Inc" -> iv_add(a, one)
         [] op = "Dec" -> iv_sub(a, one)
         [] op = "Neg" -> iv_neg(a)
         [] op = "Pos" -> a
         [] op = "Ursh" -> iv_ursh(a, b)
         [] op = "BitAnd" -> iv_bitand(a, b)
         [] op \in {"BitOr", "BitXor"} -> iv_bitorxor(a, b)
         [] op = "Lsh" -> iv_lsh(a, b)
         [] op = "Rsh" -> iv_rsh(a, b)
         [] op = "BitNot" -> iv_bitnot(a)

-----------------------------------------------------------------------------
(* The recorded ranges of the lowering, joined with widening.  NoRange is  *)
(* the absent claim.                                                       *)

NoRange == [ok |-> FALSE, lo |-> 0, hi |-> 0]
VRange(l, h) == [ok |-> TRUE, lo |-> l, hi |-> h]
hull(r, s) == VRange(MinOf(r.lo, s.lo), MaxOf(r.hi, s.hi))
IV_WIDEN_JOINS == 3

\* The rungs of the ladder; a bound beyond the last gives the claim up.
LoRungs == {0, I32_LO, -(2^Rung1), -(2^Rung2)}
HiRungs == {0, I32_HI, 2^Rung1, 2^Rung2}
widen_lo(l) == {r \in LoRungs : r <= l /\ \A q \in LoRungs : q <= l => q <= r}
widen_hi(h) == {r \in HiRungs : r >= h /\ \A q \in HiRungs : q >= h => q >= r}

iv_join_recorded(new, stored) ==
    LET u == hull(new, stored)
        los == IF u.lo >= stored.lo THEN {u.lo} ELSE widen_lo(u.lo)
        his == IF u.hi <= stored.hi THEN {u.hi} ELSE widen_hi(u.hi)
    IN IF los = {} \/ his = {} THEN NoRange
       ELSE VRange(Max(los), Min(his))

iv_join_tolerant(new, stored, grow) ==
    IF ~(new.ok /\ stored.ok) THEN <<NoRange, 0>>
    ELSE IF hull(new, stored) = stored THEN <<stored, grow>>
    ELSE IF grow >= IV_WIDEN_JOINS THEN <<iv_join_recorded(new, stored), grow>>
    ELSE <<hull(new, stored), grow + 1>>

-----------------------------------------------------------------------------
(* The interval component of an analysis cell: Empty < In < Num < Any,     *)
(* with quantized bounds.                                                  *)

EmptyI == [k |-> "Empty", lo |-> 0, hi |-> 0]
NumI == [k |-> "Num", lo |-> 0, hi |-> 0]
AnyI == [k |-> "Any", lo |-> 0, hi |-> 0]
InI(l, h) == [k |-> "In", lo |-> l, hi |-> h]

hq_mag_up(m) == IF m <= 8 THEN m ELSE next_power_of_two(m)
hq_lo(l) == IF l >= 0 THEN 0 ELSE MaxOf(-hq_mag_up(-l), I32_LO)

hq_hi(h) == IF h <= 0 THEN 0 ELSE MinOf(hq_mag_up(h + 1) - 1, I32_HI)

of_range(l, h) ==
    IF l >= I32_LO /\ h <= I32_HI THEN InI(hq_lo(l), hq_hi(h)) ELSE NumI

IntervalJoin(a, b) ==
    CASE a.k = "Empty" -> b
      [] a.k # "Empty" /\ b.k = "Empty" -> a
      [] a.k # "Empty" /\ b.k # "Empty" /\ "Any" \in {a.k, b.k} -> AnyI
      [] a.k \in {"In", "Num"} /\ b.k \in {"In", "Num"} /\ "Num" \in {a.k, b.k} -> NumI
      [] a.k = "In" /\ b.k = "In" -> InI(MinOf(a.lo, b.lo), MaxOf(a.hi, b.hi))

subsumes(a, b) == IntervalJoin(a, b) = a

\* An operand is [prims, wild, range, interval] here.
operand_interval(o) ==
    IF o.wild \/ o.prims \cap {"undefined", "string"} # {} THEN AnyI
    ELSE IF o.prims \cap {"boolean", "null"} # {}
         THEN IntervalJoin(o.interval, InI(0, 1))
         ELSE o.interval

\* lit is the exact literal interval riding the constraint, or NoRange.
OperandIv(h, lit) ==
    IF lit.ok THEN Iv(lit.lo, lit.hi, FALSE)
    ELSE IF h.k = "In" THEN Iv(h.lo, h.hi, FALSE) ELSE NoIv

\* Mutant: an operand with no evidence yet is a number like any other.
arith_intervalEager(op, a, a_lit, b, b_lit) ==
    LET r == iv_transfer(op, OperandIv(a, a_lit), OperandIv(b, b_lit))
    IN IF r.ok THEN of_range(r.lo, r.hi)
       ELSE IF op = "Add" /\ (a = AnyI \/ b = AnyI) THEN AnyI ELSE NumI

arith_interval(op, a, a_lit, b, b_lit) ==
    LET r == iv_transfer(op, OperandIv(a, a_lit), OperandIv(b, b_lit))
        nothing(h, lit) == h.k = "Empty" /\ ~lit.ok
    IN IF nothing(a, a_lit) \/ (op \notin Unary /\ nothing(b, b_lit)) THEN EmptyI
       ELSE IF r.ok THEN of_range(r.lo, r.hi)
       ELSE IF op = "Add" /\ (a = AnyI \/ b = AnyI) THEN AnyI ELSE NumI
=============================================================================
