----------------------------- MODULE ArithClaims -----------------------------
(***************************************************************************)
(* The transfer functions of OpSemantics applied the way the fixpoints     *)
(* apply them: an operator whose operands' claims only grow.  What the     *)
(* rules say is compared with what JavaScript computes on every value the  *)
(* operands' claims admit.                                                 *)
(*                                                                         *)
(* At the level "facts" the operands are interval facts of the lowering    *)
(* (bounds and the may-be--0 flag), at "cells" operand typesets of the     *)
(* analysis.                                                               *)
(***************************************************************************)
EXTENDS JSNumber

CONSTANTS FactOps, CellOps,  \* the operators explored at each level
          Bounds,     \* the interval end points explored
          Far,        \* unbounded operands are sampled in -Far..Far
          EvidenceA,  \* the typesets that flow into the first operand's cell
          EvidenceB,  \* and into the second's
          Literals    \* the literal intervals of a second operand

VARIABLES level, opcode, left, right,   \* the operator and the claims about its operands
          literal                \* the literal interval of the second operand, or NoRange

claimVars == <<level, opcode, left, right, literal>>

-----------------------------------------------------------------------------
(* The interval facts of the lowering.                                     *)

Admits(i) == IF i.ok THEN {IntV(n) : n \in i.lo..i.hi}
                            \cup (IF i.nz /\ i.lo <= 0 /\ i.hi >= 0 THEN {NegZero} ELSE {})
             ELSE {IntV(n) : n \in {-Far, -1, 0, Far}} \cup {NegZero, NaN}

Facts == {NoIv} \cup {Iv(l, h, z) : l \in Bounds, h \in Bounds, z \in BOOLEAN}
Valid(i) == i.lo <= i.hi /\ (i.nz => i.lo <= 0 /\ i.hi >= 0)

\* j claims no more than i does.
Weaker(i, j) == ~j.ok \/ (i.ok /\ j.lo <= i.lo /\ i.hi <= j.hi /\ (i.nz => j.nz))

InitIv == level = "operands" /\ opcode \in FactOps /\ left = NoIv /\ right = NoIv /\ literal = NoRange

\* The operands' facts as the lowering first has them.
Operands == /\ level = "operands" /\ level' = "facts"
            /\ left' \in {i \in Facts : Valid(i)}
            /\ right' \in IF opcode \in Unary THEN {NoIv} ELSE {i \in Facts : Valid(i)}
            /\ UNCHANGED <<opcode, literal>>

\* A recorded fact weakens by one bound, or to no claim.
Weakened(i) ==
    {j \in Facts : Valid(j) /\ Weaker(i, j) /\ j.nz = i.nz /\ j # i
                   /\ (j.ok => j.lo = i.lo \/ j.hi = i.hi)}

NextIv == /\ level = "facts"
          /\ UNCHANGED <<level, opcode, literal>>
          /\ \/ left' \in Weakened(left) /\ UNCHANGED right
             \/ opcode \notin Unary /\ right' \in Weakened(right) /\ UNCHANGED left

\* A product that may be -0 because one factor is -0 and the other only 0.
ZeroByNegZero(i, j) == i.nz /\ j.ok /\ j.lo = 0 /\ j.hi = 0 /\ i.lo = 0

Covers(i, v) == i.ok => /\ IsInteger(v) /\ (v.nz => i.nz)
                        /\ v.nz \/ (2 * i.lo <= v.h /\ v.h <= 2 * i.hi)

\* Every value the operator can produce from admitted operands is a finite
\* integer within the computed bounds, and is -0 only where the flag says so:
\* what the consumers of a fact (elided overflow and -0 checks) rely on.
IvSound ==
    \/ level # "facts"
    \/ opcode = "Mul" /\ (ZeroByNegZero(left, right) \/ ZeroByNegZero(right, left))
    \/ LET r == iv_transfer(opcode, left, right)
       IN \A x \in Admits(left) : \A y \in (IF opcode \in Unary THEN {NaN} ELSE Admits(right)) :
            Covers(r, NumberOp(opcode, x, y))

\* Weakening an operand's fact never strengthens the result's: the context fixpoint
\* re-derives facts from joined ones and counts on the order.
FactsMonotone ==
    [][level = "facts" =>
       \E l \in {left'}, r \in {right'} : Weaker(iv_transfer(opcode, left, right), iv_transfer(opcode, l, r))]_claimVars

-----------------------------------------------------------------------------
(* The operand typesets of the analysis.  The evidence that reaches a cell *)
(* is a TypeSet one of the constructors of types.rs builds.                *)

Operand(p, w, r, i) == [prims |-> p, wild |-> w, range |-> r, interval |-> i]

Prim(p) == Operand(p, FALSE, IF "double" \in p THEN Top ELSE I32,
                   IF p \cap NUM # {} THEN NumI ELSE EmptyI)
IntegerValue(n) == Operand({"int32"}, FALSE, I32, of_range(n, n))
IntegralDouble == Operand({"double"}, FALSE, I53, NumI)
UnknownEvidence == Operand({}, TRUE, Top, AnyI)

NoEvidence == Operand({}, FALSE, I32, EmptyI)

InitCell ==
    level = "cells" /\ opcode \in CellOps /\ left = NoEvidence /\ right = NoEvidence /\ literal \in Literals

JoinOperand(o, q) ==
    Operand(o.prims \cup q.prims, o.wild \/ q.wild, MaxOf(o.range, q.range),
            IntervalJoin(o.interval, q.interval))

\* The fixpoint joins one more typeset into an operand's cell.
NextCell ==
    /\ level = "cells"
    /\ UNCHANGED <<level, opcode, literal>>
    /\ \/ \E q \in EvidenceA : left' = JoinOperand(left, q) /\ UNCHANGED right
       \/ opcode \notin Unary /\ \E q \in EvidenceB : right' = JoinOperand(right, q) /\ UNCHANGED left

ClaimInit == InitIv \/ InitCell
ClaimNext == Operands \/ NextIv \/ NextCell

CellInterval(l, r) == arith_interval(opcode, operand_interval(l), NoRange, operand_interval(r), literal)
CellResult(l, r) == result(opcode, l, r)

IntervalLeq(i, j) == subsumes(j, i)

\* "Monotone in both operands (fixpoint-safe)" (opsem.rs, types.rs): growing an
\* operand never shrinks the prims, the magnitude or the interval claimed for the
\* result, so re-evaluating an edge never retracts what it raised before.
TransferMonotone ==
    [][ level = "cells" =>
        \E l \in {left'}, r \in {right'} :
          LET before == CellResult(left, right)
              after == CellResult(l, r)
          IN /\ before[1] \subseteq after[1]
             /\ before[1] # {} => before[2] <= after[2]
             /\ IntervalLeq(CellInterval(left, right), CellInterval(l, r)) ]_claimVars

\* The numbers an operand cell stands for, -0 read as 0.
Numbers(o) ==
    LET i == operand_interval(o)
    IN CASE i.k = "Empty" -> {}
         [] i.k = "In" -> {IntV(n) : n \in i.lo..i.hi}
         [] i.k \in {"Num", "Any"} -> {IntV(n) : n \in {-Far, -1, 0, 1, Far}} \cup {NaN}

SecondNumbers == IF literal.ok THEN {IntV(n) : n \in literal.lo..literal.hi} ELSE Numbers(right)

\* The bounds claimed for a result cell hold of the result of every pair of numbers
\* the operand cells admit (-0 read as 0): the range stamps and the folded bounds
\* checks are built from them.
CellSound ==
    level = "cells" =>
    LET r == CellInterval(left, right)
    IN r.k = "In" =>
         \A x \in Numbers(left) : \A y \in (IF opcode \in Unary THEN {NaN} ELSE SecondNumbers) :
           LET v == NumberOp(opcode, x, y)
           IN IsInteger(v) /\ 2 * r.lo <= v.h /\ v.h <= 2 * r.hi

\* Cells only ever hold quantized bounds, so that the join is a plain hull and a
\* cell's interval can grow only finitely often.
ResultQuantized ==
    level = "cells" =>
    LET r == CellInterval(left, right)
    IN r.k = "In" => r = of_range(r.lo, r.hi)

\* The bounds a fact or a cell claims for a result, and its -0 flag, hold of every value
\* the operator computes from what the operands admit, and a cell's are quantized.
ClaimsSound == IvSound /\ CellSound /\ ResultQuantized

\* Weaker operands never give a stronger result, in the context facts (opsem.rs
\* iv_transfer) and in the cells of the analysis (arith_interval, result).
ClaimsMonotone == FactsMonotone /\ TransferMonotone
=============================================================================
