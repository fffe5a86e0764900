---------------------------- MODULE ArithLowering ----------------------------
(***************************************************************************)
(* The arithmetic lowerings of compiler/src/wasm/bbv/arith.rs.  For an     *)
(* operator and the claims its operands carry, the compiler picks a        *)
(* ladder: raw int32 or int64 code where the claims allow it, f64 code,    *)
(* tag tests, and helper calls on the arms that are left.  This module     *)
(* runs what it emits, over straight-line expression code, beside what     *)
(* JavaScript computes.                                                    *)
(*                                                                         *)
(* An operand is the runtime value its carrier denotes (v), the carrier    *)
(* (repr), the tag a Boxed carrier holds (tag), and what the compiler      *)
(* believes: the prim classes (ty, with out for objects) and the interval  *)
(* (iv).  An exact-Double claim boxes a number without canonicalising it,  *)
(* so the tag is not a function of the value.                              *)
(***************************************************************************)
EXTENDS JSNumber, Sequences

CONSTANTS Units,        \* the compilation units explored:
                        \*   progs: sequences of "Push", "Store" and operators
                        \*   leaves: the operands a "Push" may push
                        \*   frac: fractional_arith_sites holds for these operators
                        \*   bigIntFree: the module text has no BigInt
          MulBits       \* exponent of the product bound (47 in the code)

VARIABLES unit, prog, lpc,   \* the code
          ostack,           \* the compiled code's operand stack
          jstack            \* the JavaScript operand stack

lowVars == <<unit, prog, lpc, ostack, jstack>>

-----------------------------------------------------------------------------
(* Claims.                                                                 *)

PrimDesc(p) == [prims |-> p, out |-> FALSE]
BottomTy == [prims |-> {"int32", "double", "boolean", "string", "bigint"}, out |-> TRUE]

is_exact_int32(t) == t = PrimDesc({"int32"})
is_exact_double(t) == t = PrimDesc({"double"})
is_string_only(t) == t = PrimDesc({"string"})
is_numeric(t) == t.prims # {} /\ t.prims \subseteq NUM /\ ~t.out

IsWord(v) == IsInteger(v) /\ ~v.nz /\ 2 * I32_LO <= v.h /\ v.h <= 2 * I32_HI

CanonicalTag(v) ==
    CASE v.k \in {"num", "nan"} -> IF IsWord(v) THEN "int32" ELSE "double"
      [] v.k = "bool" -> "boolean" [] v.k = "str" -> "string" [] v.k = "big" -> "bigint"

Operand(v, repr, tag, t, i) == [v |-> v, repr |-> repr, tag |-> tag, ty |-> t, iv |-> i]
Boxed(v, t, i) == Operand(v, "Boxed", CanonicalTag(v), t, i)
Word(n, i) == Operand(IntV(n), "I32", "none", PrimDesc({"int32"}), i)
Wide(n, t, i) == Operand(IntV(n), "I64", "none", t, i)
Float(v, t, i) == Operand(v, "F64", "none", t, i)

\* An unboxed carrier proves its own class.
refine_by_repr(o) ==
    LET mask == CASE o.repr = "I32" -> {"int32"} [] o.repr \in {"F64", "I64"} -> NUM
                  [] o.repr = "Bool" -> {"boolean"} [] o.repr = "Boxed" -> {}
        narrowed == o.ty.prims \cap mask
    IN IF o.repr = "Boxed" THEN o
       ELSE [o EXCEPT !.ty = PrimDesc(IF narrowed = {} THEN mask ELSE narrowed)]

op_iv(o) ==
    IF o.iv.ok THEN o.iv
    ELSE IF o.repr = "I32" \/ is_exact_int32(o.ty) THEN IV_I32
    ELSE IF o.repr = "I64" THEN Iv(-IV_LIM, IV_LIM, FALSE) ELSE NoIv

CleanIv(i) == i.ok /\ ~i.nz

iv_clamp_i32(i) ==
    LET l == MaxOf(i.lo, I32_LO)
        h == MinOf(i.hi, I32_HI)
    IN IF i.ok /\ l <= h THEN Iv(l, h, i.nz) ELSE NoIv

f64_result_prims(a, b) ==
    IF is_exact_double(a.ty) /\ is_exact_double(b.ty) THEN {"double"} ELSE NUM

result_ty_iv(mask, i) ==
    PrimDesc(IF "int32" \in mask /\ CleanIv(i) /\ InI32(i) THEN {"int32"} ELSE mask)

int32_wrap_operand_ok(o) == is_exact_int32(o.ty) \/ o.repr = "I64"
i64_arith_operand_ok(o) == o.repr \in {"I64", "I32"}
                             \/ (o.repr \in {"Boxed", "F64"} /\ is_exact_int32(o.ty))
raw_frac_operand(o) == o.repr = "F64" /\ is_numeric(o.ty) /\ ~is_exact_int32(o.ty)

-----------------------------------------------------------------------------
(* Carriers.  The integer carriers drop the sign of zero and the fraction. *)

BoxTag(o) ==
    CASE o.repr = "Boxed" -> o.tag
      [] o.repr = "I32" -> "int32"
      [] o.repr = "Bool" -> "boolean"
      [] o.repr = "F64" -> IF is_exact_double(o.ty) THEN "double" ELSE CanonicalTag(o.v)
      [] o.repr = "I64" -> CanonicalTag(o.v)

to_i64_exact(o) == Truncated(o.v)
to_i32(o) == ToInt32(o.v)

int32_tag_test(o) == is_exact_int32(o.ty) \/ BoxTag(o) = "int32"
number_tag_test(o) == is_numeric(o.ty) \/ BoxTag(o) \in NUM
int32_or_bool_test(o) ==
    is_exact_int32(o.ty) \/ o.ty = PrimDesc({"boolean"}) \/ BoxTag(o) \in {"int32", "boolean"}

\* The result of a numeric helper call: a BigInt has no claim narrower than that.
bigint_result(v, mask, i) ==
    Boxed(v, PrimDesc(mask \cup (IF unit.bigIntFree THEN {} ELSE {"bigint"})), i)

-----------------------------------------------------------------------------
(* Truncation demand: the nodes whose every use goes through ToInt32.      *)

BitOps == {"BitAnd", "BitOr", "BitXor", "Lsh", "Rsh", "Ursh"}
Arity(i) == IF i = "Push" THEN 0 ELSE IF i = "Store" \/ i \in Unary THEN 1 ELSE 2
MUL_UNITS == 2^(MulBits - (W - 1))
CAP_UNITS == 2^(Lim - (W - 1))

\* The abstract stack before instruction n + 1: <<producer or 0, units>>.
Producers(p) ==
    LET st[n \in 0..Len(p)] ==
          IF n = 0 THEN <<>>
          ELSE LET s == st[n-1]
                   i == p[n]
                   rest == SubSeq(s, 1, Len(s) - Arity(i))
                   u == s[Len(s)][2] + s[Len(s) - 1][2]
               IN CASE i \in {"Add", "Sub"} ->
                         Append(rest, IF u <= CAP_UNITS THEN <<n, u>> ELSE <<0, 1>>)
                    [] i = "Mul" -> Append(rest, <<n, MUL_UNITS>>)
                    [] OTHER -> Append(rest, <<0, 1>>)
    IN st

Consumes(p, q, n) == \E j \in 0..(Arity(p[q]) - 1) :
                       LET s == Producers(p)[q-1] IN s[Len(s) - j][1] = n

trunc_demanded(p, n) ==
    LET marked[m \in 1..(Len(p) + 1)] ==
          \E q \in (m + 1)..Len(p) :
            /\ Consumes(p, q, m)
            /\ p[q] \in BitOps \cup {"BitNot"} \/ (p[q] \in {"Add", "Sub"} /\ marked[q])
    IN marked[n]

-----------------------------------------------------------------------------
(* The ladders.  Each yields the operand the executed arm leaves.          *)

int_result_or_ovf(sum, riv, trunc) ==
    IF CleanIv(riv) /\ InI32(riv) THEN Word(SignedWord(sum), iv_clamp_i32(riv))
    ELSE IF trunc THEN Word(SignedWord(sum), NoIv)
    ELSE IF SignedWord(sum) = sum THEN Word(sum, iv_clamp_i32(riv))
    ELSE Operand(IntV(sum), "Boxed", "double", PrimDesc({"double"}), riv)

\* Mutant: the product of a zero and a negative number stays an int32.
int_mul_result_or_ovfNoNegZero(x, y, riv, check_fits) ==
    IF check_fits => SignedWord(x * y) = x * y
    THEN Word(SignedWord(x * y), iv_clamp_i32(riv))
    ELSE Operand(Times(IntV(x), IntV(y)), "Boxed", "double", PrimDesc({"double"}), riv)

int_mul_result_or_ovf(x, y, riv, check_fits) ==
    LET negzero == x * y = 0 /\ (x < 0) # (y < 0)
    IN IF ~negzero /\ (check_fits => SignedWord(x * y) = x * y)
       THEN Word(SignedWord(x * y), iv_clamp_i32(riv))
       ELSE Operand(Times(IntV(x), IntV(y)), "Boxed", "double", PrimDesc({"double"}), riv)

\* The helper arm of Add and Sub; two strings concatenate to a string.
addsub_slow_arms(op, a, b, riv) ==
    IF op = "Add"
    THEN Boxed(JSValue(op, a.v, b.v),
               IF a.v.k = "str" /\ b.v.k = "str" THEN PrimDesc({"string"}) ELSE BottomTy,
               IF a.v.k = "str" /\ b.v.k = "str" THEN NoIv ELSE riv)
    ELSE bigint_result(JSValue(op, a.v, b.v), NUM, riv)

emit_addsub_op(op, a, b, trunc) ==
    LET riv == iv_transfer(op, op_iv(a), op_iv(b))
        x == to_i64_exact(a)
        y == to_i64_exact(b)
        exact == IF op = "Add" THEN x + y ELSE x - y
        float == NumberOp(op, a.v, b.v)
    IN IF is_exact_int32(a.ty) /\ is_exact_int32(b.ty)
       THEN int_result_or_ovf(exact, riv, trunc)
       ELSE IF CleanIv(riv) /\ i64_arith_operand_ok(a) /\ i64_arith_operand_ok(b)
       THEN Wide(exact, result_ty_iv(NUM, riv), riv)
       ELSE IF is_numeric(a.ty) /\ is_numeric(b.ty)
       THEN Float(float, result_ty_iv(f64_result_prims(a, b), riv), riv)
       ELSE IF op = "Add" /\ (is_string_only(a.ty) \/ is_string_only(b.ty))
       THEN Boxed(JSValue(op, a.v, b.v), PrimDesc({"string"}), NoIv)
       ELSE IF /\ op \in unit.frac
               /\ \/ raw_frac_operand(a) /\ ~is_numeric(b.ty)
                  \/ raw_frac_operand(b) /\ ~is_numeric(a.ty)
       THEN IF number_tag_test(a) /\ number_tag_test(b)
            THEN Float(float, PrimDesc(NUM), riv)
            ELSE addsub_slow_arms(op, a, b, riv)
       ELSE IF int32_tag_test(a) /\ int32_tag_test(b)
       THEN int_result_or_ovf(exact, iv_transfer(op, IV_I32, IV_I32), trunc)
       ELSE IF number_tag_test(a) /\ number_tag_test(b)
       THEN Float(float, PrimDesc(NUM), riv)
       ELSE addsub_slow_arms(op, a, b, riv)

emit_muldiv_op(op, a, b, trunc) ==
    LET riv == iv_transfer(op, op_iv(a), op_iv(b))
        x == to_i64_exact(a)
        y == to_i64_exact(b)
        float == NumberOp(op, a.v, b.v)
    IN IF op = "Mul" /\ is_exact_int32(a.ty) /\ is_exact_int32(b.ty)
       THEN CASE InI32(riv) /\ riv.nz -> int_mul_result_or_ovf(x, y, riv, FALSE)
              [] InI32(riv) /\ ~riv.nz -> Word(SignedWord(x * y), riv)
              [] ~InI32(riv) ->
                   IF riv.ok /\ riv.lo >= -(2^MulBits) /\ riv.hi <= 2^MulBits /\ trunc
                   THEN Word(SignedWord(x * y), NoIv)
                   ELSE int_mul_result_or_ovf(x, y, riv, TRUE)
       ELSE IF op = "Mul" /\ CleanIv(riv) /\ i64_arith_operand_ok(a) /\ i64_arith_operand_ok(b)
       THEN Wide(x * y, result_ty_iv(NUM, riv), riv)
       ELSE IF is_numeric(a.ty) /\ is_numeric(b.ty)
       THEN Float(float, result_ty_iv(f64_result_prims(a, b), riv), riv)
       ELSE IF number_tag_test(a) /\ number_tag_test(b)
       THEN Float(float, PrimDesc(NUM), riv)
       ELSE bigint_result(JSValue(op, a.v, b.v), NUM, riv)

emit_mod_op(a, b) ==
    LET riv == iv_mod(op_iv(a), op_iv(b))
    IN IF CleanIv(riv) /\ i64_arith_operand_ok(a) /\ i64_arith_operand_ok(b)
       THEN Wide(to_i64_exact(a) % AbsOf(to_i64_exact(b)), result_ty_iv(NUM, riv), riv)
       ELSE IF number_tag_test(a) /\ number_tag_test(b)
       THEN Float(NumberOp("Mod", a.v, b.v), PrimDesc(NUM), riv)
       ELSE bigint_result(JSValue("Mod", a.v, b.v), NUM, riv)

emit_bitop(op, a, b) ==
    LET riv == iv_transfer(op, op_iv(a), op_iv(b))
        raw == NumberOp(op, IntV(to_i32(a)), IntV(to_i32(b)))
    IN IF \/ int32_wrap_operand_ok(a) /\ int32_wrap_operand_ok(b)
          \/ number_tag_test(a) /\ number_tag_test(b)
          \/ int32_or_bool_test(a) /\ int32_or_bool_test(b)
       THEN Word(Truncated(raw), riv)
       ELSE bigint_result(JSValue(op, a.v, b.v), {"int32"}, NoIv)

\* The arm of a number operand whose class is not proven drops the interval.
emit_ursh_op(a, b) ==
    LET riv == iv_ursh(op_iv(a), op_iv(b))
        raw == NumberOp("Ursh", IntV(to_i32(a)), IntV(to_i32(b)))
    IN IF \/ int32_wrap_operand_ok(a) /\ int32_wrap_operand_ok(b)
          \/ is_numeric(a.ty) /\ is_numeric(b.ty)
          \/ int32_tag_test(a) /\ int32_tag_test(b)
       THEN Wide(Truncated(raw), PrimDesc(NUM), riv)
       ELSE IF number_tag_test(a) /\ number_tag_test(b)
       THEN Wide(Truncated(raw), PrimDesc(NUM), NoIv)
       ELSE Boxed(JSValue("Ursh", a.v, b.v), PrimDesc(NUM), riv)

emit_incdec_op(op, a) ==
    LET riv == iv_transfer(op, op_iv(a), NoIv)
        exact == to_i64_exact(a) + (IF op = "Inc" THEN 1 ELSE -1)
    IN IF is_exact_int32(a.ty) THEN int_result_or_ovf(exact, riv, FALSE)
       ELSE IF CleanIv(riv) /\ i64_arith_operand_ok(a)
       THEN Wide(exact, result_ty_iv(NUM, riv), riv)
       ELSE IF is_numeric(a.ty)
       THEN Float(NumberOp(op, a.v, a.v), result_ty_iv(NUM, riv), riv)
       ELSE IF BoxTag(a) = "int32"
       THEN int_result_or_ovf(exact, iv_transfer(op, IV_I32, NoIv), FALSE)
       ELSE IF BoxTag(a) = "double" THEN Boxed(NumberOp(op, a.v, a.v), PrimDesc(NUM), riv)
       ELSE bigint_result(JSValue(op, a.v, a.v), NUM, riv)

emit_bitnot_op(a) ==
    IF int32_wrap_operand_ok(a) \/ is_numeric(a.ty)
    THEN Word(-to_i32(a) - 1, iv_bitnot(op_iv(a)))
    ELSE IF number_tag_test(a) THEN Word(-to_i32(a) - 1, NoIv)
    ELSE bigint_result(JSValue("BitNot", a.v, a.v), {"int32"}, NoIv)

emit_neg_op(a) ==
    IF number_tag_test(a)
    THEN Float(NumberOp("Neg", a.v, a.v), PrimDesc(NUM), iv_neg(op_iv(a)))
    ELSE bigint_result(JSValue("Neg", a.v, a.v), NUM, NoIv)

emit_tonumeric_op(a) ==
    IF is_numeric(a.ty) THEN a
    ELSE IF number_tag_test(a)
    THEN Operand(a.v, "Boxed", BoxTag(a), PrimDesc(NUM), NoIv)
    ELSE Boxed(JSValue("Pos", a.v, a.v), PrimDesc(NUM), NoIv)

Lowered(op, a, b, trunc) ==
    CASE op \in {"Add", "Sub"} -> emit_addsub_op(op, a, b, trunc)
      [] op \in {"Mul", "Div"} -> emit_muldiv_op(op, a, b, trunc)
      [] op = "Mod" -> emit_mod_op(a, b)
      [] op = "Ursh" -> emit_ursh_op(a, b)
      [] op \in BitOps \ {"Ursh"} -> emit_bitop(op, a, b)
      [] op \in {"Inc", "Dec"} -> emit_incdec_op(op, a)
      [] op = "BitNot" -> emit_bitnot_op(a)
      [] op = "Neg" -> emit_neg_op(a)
      [] op = "Pos" -> emit_tonumeric_op(a)

-----------------------------------------------------------------------------
(* Running an expression.                                                  *)

LowInit == /\ unit \in Units
           /\ prog \in unit.progs
           /\ lpc = 1
           /\ ostack = <<>>
           /\ jstack = <<>>

Instr == prog[lpc]
Running == lpc <= Len(prog)
At(s, i) == s[Len(s) - i]
Rest(s) == SubSeq(s, 1, Len(s) - Arity(Instr))

Push == /\ Running /\ Instr = "Push"
        /\ \E o \in unit.leaves : ostack' = Append(ostack, o) /\ jstack' = Append(jstack, o.v)
        /\ lpc' = lpc + 1
        /\ UNCHANGED <<unit, prog>>

\* A store keeps its value on the stack; the slot's copy is what others see.
Store == /\ Running /\ Instr = "Store"
         /\ lpc' = lpc + 1
         /\ UNCHANGED <<unit, prog, ostack, jstack>>

Result ==
    LET b == refine_by_repr(At(ostack, 0))
        a == IF Instr \in Unary THEN b ELSE refine_by_repr(At(ostack, 1))
    IN Lowered(Instr, a, b, trunc_demanded(prog, lpc))

Expected == JSValue(Instr, At(jstack, Arity(Instr) - 1), At(jstack, 0))

\* An operator; one that throws ends the code.
Operate ==
    /\ Running /\ Instr \notin {"Push", "Store"}
    /\ IF Expected = Throw
       THEN lpc' = Len(prog) + 1 /\ ostack' = <<>> /\ jstack' = <<>>
       ELSE /\ ostack' = Append(Rest(ostack), Result)
            /\ jstack' = Append(Rest(jstack), Expected)
            /\ lpc' = lpc + 1
    /\ UNCHANGED <<unit, prog>>

LowNext == Push \/ Store \/ Operate

-----------------------------------------------------------------------------

\* What a carrier can hold, what its type claims of its boxed form, and what its
\* interval claims of its value.
Holds(o) ==
    /\ o.repr = "I32" => IsWord(o.v)
    /\ o.repr = "I64" => IsInteger(o.v) /\ ~o.v.nz /\ AbsOf(o.v.h) <= 2 * IV_LIM
    /\ o.repr = "Boxed" /\ ~o.ty.out => o.tag \in o.ty.prims
    /\ is_exact_int32(o.ty) => IsWord(o.v)
    /\ o.iv.ok => /\ IsInteger(o.v) /\ (o.v.nz => o.iv.nz)
                  /\ o.v.nz \/ (2 * o.iv.lo <= o.v.h /\ o.v.h <= 2 * o.iv.hi)

\* Every claim an arm leaves on the operand stack is true of the value it leaves
\* there: later operators elide tag tests, overflow tests and -0 tests on the
\* strength of it, with no test left to catch a wrong one.
ClaimsHold == \A i \in 1..Len(ostack) : Holds(ostack[i])

\* The producer of each stack entry, in program order.
Producer(i) == IF lpc = 1 THEN 0 ELSE Producers(prog)[lpc-1][i][1]
Demanded(i) == Producer(i) # 0 /\ trunc_demanded(prog, Producer(i))

\* The compiled code computes what JavaScript computes; a value every use of
\* which truncates may differ from it by a multiple of 2^W.
ResultIsJS ==
    \A i \in 1..Len(ostack) :
      IF Demanded(i) /\ ostack[i].v.k = "num" /\ jstack[i].k = "num"
      THEN ToInt32(ostack[i].v) = ToInt32(jstack[i])
      ELSE ostack[i].v = jstack[i]

\* An arm leaves the value JavaScript computes, in a carrier that holds it, with
\* claims that are true of it.
LoweringSound == ClaimsHold /\ ResultIsJS
=============================================================================
