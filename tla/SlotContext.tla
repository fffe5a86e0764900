----------------------------- MODULE SlotContext -----------------------------
(***************************************************************************)
(* The facts a version of the generated code holds about a frame slot      *)
(* (SlotCtx of wasm/bbv/ctx.rs): how two facts compare, meet and join, the *)
(* representation a fact licenses, and the guards with which an edge       *)
(* proves a fact it does not have (wasm/bbv/version.rs, proof_gap and      *)
(* emit_proof).  The advisory members (likely_cls, src, prov) are left     *)
(* out: no claim of a slot depends on them.                                *)
(***************************************************************************)
EXTENDS OpSemantics

CONSTANTS
    SlotFacts,     \* the facts the tests, the literals and the claims mint
    SlotVals   \* the values a slot may hold

Prims == {"int32", "double", "string", "boolean", "undefined"}
NoTa == "none"

Slot(prims, outside, range) ==
    [prims |-> prims, outside |-> outside, range |-> range, cls |-> NoRange, shallow |-> FALSE,
     slots |-> FALSE, ta |-> NoTa, iv |-> NoRange, grow |-> 0]

TOP == Slot(Prims, TRUE, Top)
OBJ_ONLY_SLOT == Slot({}, TRUE, Top)
INT32_SLOT == [Slot({"int32"}, FALSE, I32) EXCEPT !.iv = VRange(I32_LO, I32_HI)]
NUMERIC_SLOT == Slot(NUM, FALSE, Top)
DOUBLE_SLOT == Slot({"double"}, FALSE, Top)
STR_SLOT == Slot({"string"}, FALSE, Top)
BOOL_SLOT == Slot({"boolean"}, FALSE, Top)

ExactInt32(s) == s.prims = {"int32"} /\ ~s.outside
ObjOnly(s) == s.prims = {} /\ s.outside
ClaimsClass(s) == s.cls.ok \/ s.shallow \/ s.slots
slot_is_numeric(s) == s.prims # {} /\ s.prims \subseteq NUM /\ ~s.outside

\* The empty claim means unmodelled, not "no value".
SlotOf(prims, outside, range) ==
    IF prims = {} /\ ~outside THEN TOP
    ELSE Slot(prims, outside, IF prims = {"int32"} /\ ~outside THEN I32 ELSE range)

\* What the guard of an entry claim proves.  A mixed number claim is one number-tag test
\* only when a fraction may really come; otherwise it is tested as an int32.
claim_slot_ctx(claim) ==
    CASE claim.object /\ claim.ta = NoTa -> OBJ_ONLY_SLOT
      [] claim.object /\ claim.ta # NoTa -> [OBJ_ONLY_SLOT EXCEPT !.ta = claim.ta]
      [] ~claim.object /\ claim.prims = NUM /\ claim.double_first -> NUMERIC_SLOT
      [] ~claim.object /\ (claim.prims = {"int32"} \/ (claim.prims = NUM /\ ~claim.double_first)) -> INT32_SLOT
      [] ~claim.object /\ claim.prims = {"double"} -> DOUBLE_SLOT
      [] ~claim.object /\ claim.prims = {"string"} -> STR_SLOT
      [] ~claim.object /\ claim.prims = {"boolean"} -> BOOL_SLOT
      [] OTHER -> TOP

-----------------------------------------------------------------------------
(* The order, the meet and the join. *)

Within(r, s) == ~s.ok \/ (r.ok /\ r.lo >= s.lo /\ r.hi <= s.hi)

implies_sans_iv(s, w) ==
    /\ s.prims \subseteq w.prims
    /\ s.outside => w.outside
    /\ s.range <= w.range
    /\ Within(s.cls, w.cls)
    /\ w.shallow => s.shallow
    /\ w.slots => s.slots
    /\ w.ta = NoTa \/ s.ta = w.ta

implies(s, w) == implies_sans_iv(s, w) /\ Within(s.iv, w.iv)

\* Both claims hold; of two that contradict each other the newer, w, is kept.
Tighter(r, s) ==
    IF ~(r.ok /\ s.ok) THEN (IF r.ok THEN r ELSE s)
    ELSE LET l == MaxOf(r.lo, s.lo)
             h == MinOf(r.hi, s.hi)
         IN IF l <= h THEN VRange(l, h) ELSE s

Meet(s, w) ==
    LET prims == s.prims \cap w.prims
        outside == s.outside /\ w.outside
    IN IF prims = {} /\ ~outside THEN {}
       ELSE {[prims |-> prims, outside |-> outside, range |-> MinOf(s.range, w.range),
              cls |-> Tighter(s.cls, w.cls), shallow |-> s.shallow \/ w.shallow,
              slots |-> s.slots \/ w.slots, ta |-> IF s.ta # NoTa THEN s.ta ELSE w.ta,
              iv |-> Tighter(s.iv, w.iv), grow |-> MaxOf(s.grow, w.grow)]}

\* Mutant: the class claim of the arriving side survives alone.
JoinKeepsClass(s, w) ==
    LET j == iv_join_tolerant(s.iv, w.iv, w.grow)
    IN [prims |-> s.prims \cup w.prims, outside |-> s.outside \/ w.outside,
        range |-> MaxOf(s.range, w.range), cls |-> IF s.cls.ok /\ w.cls.ok THEN hull(s.cls, w.cls) ELSE s.cls,
        shallow |-> s.shallow /\ w.shallow, slots |-> s.slots /\ w.slots,
        ta |-> IF s.ta = w.ta THEN s.ta ELSE NoTa, iv |-> j[1], grow |-> j[2]]

\* The weakest claim both satisfy; w is the stored side.
Join(s, w) ==
    LET j == iv_join_tolerant(s.iv, w.iv, w.grow)
    IN [prims |-> s.prims \cup w.prims,
        outside |-> s.outside \/ w.outside,
        range |-> MaxOf(s.range, w.range),
        cls |-> IF s.cls.ok /\ w.cls.ok THEN hull(s.cls, w.cls) ELSE NoRange,
        shallow |-> s.shallow /\ w.shallow,
        slots |-> s.slots /\ w.slots,
        ta |-> IF s.ta = w.ta THEN s.ta ELSE NoTa,
        iv |-> j[1], grow |-> j[2]]

\* The stored slot with nothing but its interval weakened.
join_iv_only(stored, s) ==
    LET j == iv_join_tolerant(s.iv, stored.iv, stored.grow)
    IN [stored EXCEPT !.iv = j[1], !.grow = j[2]]

-----------------------------------------------------------------------------
(* Representations. *)

Raw == {"I32", "F64", "Bool", "I64"}

slot_repr(s) ==
    CASE ExactInt32(s) -> "I32"
      [] s.prims = {"boolean"} /\ ~s.outside -> "Bool"
      [] slot_is_numeric(s) /\ ~ExactInt32(s) /\ s.range # Top -> "I64"
      [] slot_is_numeric(s) /\ ~ExactInt32(s) /\ s.range = Top -> "F64"
      [] s.prims = {"string"} /\ ~s.outside -> "StrPtr"
      [] ObjOnly(s) -> "ObjPtr"
      [] OTHER -> "Boxed"

\* A value: its tag, twice its number (halves stand for fractions), and for an object the
\* class word and the kind of typed array it is.
IsNum(v) == v.tag \in NUM
Integral(v) == IsNum(v) /\ ~v.nz /\ v.h % 2 = 0
IntIn(v, l, h) == Integral(v) /\ l <= v.h \div 2 /\ v.h \div 2 <= h
FitsI32(v) == IntIn(v, I32_LO, I32_HI)
AsInt32(v) == [v EXCEPT !.tag = "int32"]
AsDouble(v) == [v EXCEPT !.tag = "double"]
Garbage == [tag |-> "garbage", h |-> 0, nz |-> FALSE, idx |-> 0, shallow |-> FALSE, slots |-> FALSE,
            ta |-> NoTa, addr |-> 0]

\* What a carrier of representation r can hold.
HoldsIn(r, v) ==
    CASE r = "Boxed" -> TRUE
      [] r = "I32" -> v.tag = "int32"
      [] r = "I64" -> IntIn(v, -IV_LIM, IV_LIM)
      [] r = "F64" -> IsNum(v)
      [] r = "Bool" -> v.tag = "boolean"
      [] r = "StrPtr" -> v.tag = "string"
      [] r = "ObjPtr" -> v.tag = "object"

\* Boxing makes an int32 of every number that is one.
Canonical(v) == IF IsNum(v) /\ FitsI32(v) THEN AsInt32(v) ELSE v

\* convert_to_repr of an operand under the fact s: the payload is taken for what the target says
\* it is, and a value known to be a double is boxed as its bits.
Convert(s, v, from, to) ==
    CASE from = to -> v
      [] from # to /\ to = "Boxed" ->
           IF from = "F64" /\ s.prims = {"double"} /\ ~s.outside THEN AsDouble(v) ELSE Canonical(v)
      [] from # to /\ to = "I32" -> IF FitsI32(v) /\ (v.tag = "int32" \/ from # "Boxed") THEN AsInt32(v) ELSE Garbage
      [] from # to /\ to = "F64" -> IF IsNum(v) THEN v ELSE Garbage
      [] from # to /\ to = "I64" -> IF IntIn(v, -IV_LIM, IV_LIM) THEN v ELSE Garbage
      [] from # to /\ to \in {"Bool", "StrPtr", "ObjPtr"} -> IF HoldsIn(to, v) THEN v ELSE Garbage

\* What the fact s says of a value.
Admits(s, v) ==
    /\ IF v.tag = "object" THEN s.outside ELSE v.tag \in s.prims
    /\ IsNum(v) => CASE s.range = I32 -> FitsI32(v)
                     [] s.range = I53 -> IntIn(v, -IV_LIM, IV_LIM)
                     [] s.range = Top -> TRUE
    /\ s.cls.ok => v.tag = "object" /\ s.cls.lo <= v.idx /\ v.idx <= s.cls.hi
    /\ s.shallow => v.tag = "object" /\ v.shallow
    /\ s.slots => v.tag = "object" /\ v.slots
    /\ s.ta # NoTa => v.tag = "object" /\ v.ta = s.ta
    /\ s.iv.ok => IntIn(v, s.iv.lo, s.iv.hi)

-----------------------------------------------------------------------------
(* Proof edges: an arrival with the fact src, in representation repr, is   *)
(* tested for the fact tgt.                                                *)

\* The guard the slot owes: none, a tag test, an exactness test, or no guard proves it.
proof_gap(src, repr, tgt) ==
    IF implies_sans_iv(src, tgt) THEN "none"
    ELSE IF repr = "Boxed"
         THEN IF \/ ClaimsClass(tgt) /\ ~ObjOnly(tgt)
                 \/ tgt.range # Top /\ ~ExactInt32(tgt)
                 \/ tgt.prims = {} /\ ~tgt.outside
              THEN "refuse" ELSE "Tag"
    ELSE IF repr \in {"I64", "F64"} /\ ExactInt32(tgt) /\ ~ClaimsClass(tgt) THEN "Exact"
    ELSE "refuse"

\* The interval the edge delivers: the source's, narrowed by what the guard proves.
proof_delivered_iv(src, guard, tgt) ==
    LET word == VRange(I32_LO, I32_HI)
        g == IF guard = "Exact" \/ (guard = "Tag" /\ ExactInt32(tgt)) THEN word ELSE NoRange
    IN Tighter(src.iv, g)

\* An interval the arrival does not have is proved by a bounds test, where the value is certainly
\* an int32 by the time of the test.
iv_gap_guardable(delivered, src, repr, guard, tgt) ==
    /\ \/ repr = "I32"
       \/ repr = "Boxed" /\ guard = "Tag" /\ ExactInt32(tgt)
       \/ repr = "F64" /\ guard = "Exact"
    /\ tgt.iv.ok
    /\ iv_join_tolerant(delivered, tgt.iv, tgt.grow) # <<tgt.iv, tgt.grow>>

\* The tests an edge makes on the value: the tag set with the clasp of a typed array behind it,
\* the round trip through int32 (which -0 fails), the bounds, and - behind the object test - the
\* class word.
proof_tag_cond(v, tgt) ==
    IF ObjOnly(tgt) THEN v.tag = "object" /\ (tgt.ta = NoTa \/ v.ta = tgt.ta)
    ELSE v.tag \in tgt.prims \/ (tgt.outside /\ v.tag = "object")

GuardPasses(v, guard, ivTest, tgt) ==
    /\ CASE guard = "none" -> TRUE
         [] guard = "Tag" -> proof_tag_cond(v, tgt)
         [] guard = "Exact" -> FitsI32(v)
    /\ ivTest => \/ tgt.iv.lo <= I32_LO \/ v.h >= 2 * tgt.iv.lo
    /\ ivTest => \/ tgt.iv.hi >= I32_HI \/ v.h <= 2 * tgt.iv.hi
    \* The word read through the payload of another tag may be anything.
    /\ guard # "none" /\ ClaimsClass(tgt) /\ v.tag = "object" =>
         /\ tgt.cls.ok => tgt.cls.lo <= v.idx /\ v.idx <= tgt.cls.hi
         /\ tgt.shallow => v.shallow
         /\ tgt.slots => v.slots

-----------------------------------------------------------------------------
(* Two facts, reached from the minted ones by meets and joins. *)

VARIABLES arriving, recorded

slotVars == <<arriving, recorded>>
SlotInit == arriving \in SlotFacts /\ recorded \in SlotFacts

Arrive == arriving' \in SlotFacts /\ recorded' = Join(arriving, recorded)
ArriveIvOnly == implies_sans_iv(arriving, recorded) /\ recorded' = join_iv_only(recorded, arriving) /\ arriving' \in SlotFacts
\* refine_src: only a test of the class word or of the clasp refines the slot it read.
Refine == /\ arriving.cls.ok \/ arriving.ta # NoTa
          /\ \E m \in Meet(recorded, arriving) : recorded' = m
          /\ UNCHANGED arriving
Swap == arriving' = recorded /\ recorded' = arriving

SlotNext == Arrive \/ ArriveIvOnly \/ Refine \/ Swap
-----------------------------------------------------------------------------
(* Properties. *)

\* ctx.rs:244 and 336: a fact that implies another admits no value the other refuses, the join
\* of an arrival and the stored fact admits every value of either, and refining a slot by a test
\* that passed keeps the value that passed it.
LatticeSound ==
    LET j == Join(arriving, recorded)
        i == join_iv_only(recorded, arriving)
    IN /\ implies(arriving, recorded) => \A v \in SlotVals : Admits(arriving, v) => Admits(recorded, v)
       /\ implies_sans_iv(arriving, recorded) =>
            \A v \in SlotVals : Admits(arriving, v) \/ Admits(recorded, v) => Admits(i, v)
       /\ \A v \in SlotVals :
            /\ Admits(arriving, v) \/ Admits(recorded, v) => Admits(j, v)
            /\ Admits(arriving, v) /\ Admits(recorded, v) => \E m \in Meet(arriving, recorded) : Admits(m, v)

\* version.rs:985: the representation of a slot holds every value the slot admits.
ReprHolds == \A v \in SlotVals : Admits(recorded, v) => HoldsIn(slot_repr(recorded), v)

\* version.rs:1464: a value that arrives under its fact, in the representation that licenses or
\* boxed, and passes the guards of a proof edge satisfies the recorded fact once it is in that
\* fact's representation - except for the interval where none is tested, and there the delivered
\* interval is true of it.
ProofSound ==
    \A repr \in {slot_repr(arriving), "Boxed"} :
        LET guard == proof_gap(arriving, repr, recorded)
            delivered == proof_delivered_iv(arriving, guard, recorded)
            ivTest == iv_gap_guardable(delivered, arriving, repr, guard, recorded)
            claim == IF ivTest THEN recorded ELSE [recorded EXCEPT !.iv = delivered]
        IN guard # "refuse" =>
             \A v \in SlotVals :
                Admits(arriving, v) /\ HoldsIn(repr, v) /\ GuardPasses(v, guard, ivTest, recorded)
                  => Admits(claim, Convert(arriving, v, repr, slot_repr(recorded)))

\* The facts a version is compiled under claim no more than the values that reach it
\* give: through joins, refinements, representations and proof edges.
ContextSound == LatticeSound /\ ReprHolds /\ ProofSound
=============================================================================
