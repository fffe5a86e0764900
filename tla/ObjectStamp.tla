---------------------------- MODULE ObjectStamp ----------------------------
(***************************************************************************)
(* The likely-class word of one object (runtime/NightObjectWord.h,         *)
(* NightRuntime.cpp, NightHooks.cpp, NightOps.cpp and, in the compiler,    *)
(* wasm/mod.rs, bbv/facts.rs, frame.rs, property.rs, ops.rs, call.rs).     *)
(*                                                                         *)
(* The analysis predicts layouts: field names in slot order, some of them  *)
(* masked (predicted numeric) and some of those ranged.  An object is born *)
(* with the CONSTRUCTING sentinel and three optimistic bits; every add and *)
(* store either shows that a bit still holds or clears it; when its        *)
(* constructor returns, the surviving bits are published under the         *)
(* layout's index.  From then on compiled code that finds the index and a  *)
(* bit in the word uses fixed slots (SLOTS), unboxes numbers with no check *)
(* (TYPES) and drops overflow checks (RANGES), and carries such facts over *)
(* calls for as long as the stamp epoch does not move.                     *)
(*                                                                         *)
(* A layout's number is its stamp key (layout id + 1).  Slots are counted  *)
(* from 1.  All range claims on a name are one interval.  Facts are about  *)
(* one layout, not a span of them.                                         *)
(***************************************************************************)
EXTENDS Integers, Sequences, FiniteSets

CONSTANTS
    Names,        \* property names
    Values,       \* the values stored, a subset of Kinds
    Layouts,      \* stamp keys, 1..n
    Fields,       \* [Layouts -> Seq(Names)]
    Mask,         \* [Layouts -> [Names -> SUBSET {"int", "double"}]], {} = unmasked
    Ranged,       \* [Layouts -> SUBSET Names]
    Bodies,       \* compiled bodies with an own-`this` layout
    Own,          \* [Bodies -> Layouts]
    IsRestamp,    \* [Bodies -> BOOLEAN]: an init delegate, not a constructor
    Writes,       \* [Bodies -> SUBSET Names]: names stored through `this`
    Literals,     \* layouts with a stamping object-literal site
    Functions,    \* the bodies that may be called on any object; a class's constructor
                  \* runs only on the object made for it
    News,         \* construct sites
    SiteLayout,   \* [News -> Layouts \cup {0}]: the layout a site resolves to, 0 if none
    Runs,         \* [News -> SUBSET Bodies]: the bodies that run on its object while
                  \* it is under construction
    FixedCounts,  \* numbers of fixed slots an allocation may have
    EarlyKeyMax,  \* EARLY_KEY_MAX
    PairCap,      \* runtime_add_check's bound on prediction pairs
    KeylessSlots, \* the in-prefix bound of a keyless receiver
    MaxSlots,     \* bound: properties of the object
    MaxFrames     \* bound: bodies in progress on the object

CONSTANT NoFact

\* An int32 inside the name's range claim, an int32 outside it, a double, and
\* anything that is not a number.
Kinds == {"in", "out", "double", "object"}

PrimOf(v) == IF v \in {"in", "out"} THEN {"int"}
             ELSE IF v = "double" THEN {"double"} ELSE {}
IsNumber(v) == v # "object"

ASSUME LayoutsAssumption ==
    /\ Layouts \subseteq Nat \ {0} /\ IsFiniteSet(Layouts)
    /\ Fields \in [Layouts -> Seq(Names)]
    /\ \A l \in Layouts : \A i, j \in 1..Len(Fields[l]) :
          Fields[l][i] = Fields[l][j] => i = j
    /\ \A k, l \in Layouts : Fields[k] = Fields[l] => k = l
    /\ Mask \in [Layouts -> [Names -> SUBSET {"int", "double"}]]
    /\ \A l \in Layouts : \A n \in Names :
          Mask[l][n] # {} => \E i \in 1..Len(Fields[l]) : Fields[l][i] = n
    /\ Ranged \in [Layouts -> SUBSET Names]
    /\ \A l \in Layouts : \A n \in Ranged[l] : Mask[l][n] # {}
    /\ Literals \subseteq Layouts

ASSUME BodiesAssumption ==
    /\ Own \in [Bodies -> Layouts]
    /\ IsRestamp \in [Bodies -> BOOLEAN]
    /\ Writes \in [Bodies -> SUBSET Names]
    /\ Functions \subseteq Bodies
    /\ SiteLayout \in [News -> Layouts \cup {0}]
    /\ Runs \in [News -> SUBSET Bodies]

ASSUME LimitsAssumption ==
    /\ Values \subseteq Kinds
    /\ FixedCounts \subseteq 0..KeylessSlots   \* the bound is the engine's limit of fixed slots
    /\ {EarlyKeyMax, PairCap, KeylessSlots, MaxSlots, MaxFrames} \subseteq Nat

VARIABLES
    word,     \* the class word
    props,    \* the object's property names in slot order
    vals,     \* their values
    nfixed,   \* the object's fixed slots
    born,     \* the site that made it: of News, or a literal of its layout
    running,  \* the bodies in progress with this object as `this`
    fact      \* the class fact held by the frame at depth fact.depth, or NoFact

vars == <<word, props, vals, nfixed, born, running, fact>>

(***************************************************************************)
(* The class word.                                                         *)
(***************************************************************************)

BitNames == {"slots", "types", "ranges"}
NoBits == [b \in BitNames |-> FALSE]
AllBits == [b \in BitNames |-> TRUE]

Sentinel(k, bits) == [sent |-> TRUE, idx |-> 0, key |-> k, bits |-> bits]
Stamped(l, bits) == [sent |-> FALSE, idx |-> l, key |-> 0, bits |-> bits]
ZeroWord == Stamped(0, NoBits)

Clear(w, gone) ==
    [w EXCEPT !.bits = [b \in BitNames |-> w.bits[b] /\ b \notin gone]]

\* Mutant: the mark is not left.
SetAdvIneligibleForgotten(w) == w

\* NightSetAdvIneligible, emit_set_adv_ineligible: bit 18 is ORed in.  It is the
\* lowest bit of the early key while the sentinel is set.
SetAdvIneligible(w) == [w EXCEPT !.key = IF @ % 2 = 0 THEN @ + 1 ELSE @]
AdvIneligible(w) == w.key % 2 = 1

\* Mutant: the epoch stays.
NightNoteDemotionForgotten(w) == FALSE

\* NightNoteDemotion: taking bits from w advances the stamp epoch.
NightNoteDemotion(w) == ~w.sent

\* NightClearSlotsBit, demote_delta: so does the step from w to v if it takes any.
Demotes(w, v) == NightNoteDemotion(w) /\ \E b \in BitNames : w.bits[b] /\ ~v.bits[b]

(***************************************************************************)
(* The layout tables (wasm/mod.rs).                                        *)
(***************************************************************************)

Size(l) == Len(Fields[l])
Has(l, n) == \E i \in 1..Size(l) : Fields[l][i] = n
PosOf(l, n) == CHOOSE i \in 1..Size(l) : Fields[l][i] = n
Extends(l, k) == Size(k) <= Size(l) /\ \A i \in 1..Size(k) : Fields[l][i] = Fields[k][i]

\* ext_bound_of, gLayouts.extLen: the longest layout extending k.
ExtLen(k) == CHOOSE m \in {Size(l) : l \in {e \in Layouts : Extends(e, k)}} :
                \A l \in Layouts : Extends(l, k) => Size(l) <= m

\* prefix_keys
PrefixKeys(l) == {p \in Layouts : Size(p) > 0 /\ Size(p) < Size(l) /\ Extends(l, p)}

\* layout_addpred_tx: the prefix-closed (key, slot) pairs predicting n.
AddPreds(n) ==
    {p \in Layouts \X (1..MaxSlots) :
        \E l \in Layouts :
            /\ l = p[1] \/ (p[1] \in PrefixKeys(l) /\ p[2] > Size(p[1]))
            /\ p[2] <= Size(l) /\ Fields[l][p[2]] = n}

\* runtime_add_check: an over-full list degrades to the empty one.
RuntimePairs(n) == IF Cardinality(AddPreds(n)) > PairCap THEN {} ELSE AddPreds(n)

HasMasks(l) == \E n \in Names : Mask[l][n] # {}
HasRanges(l) == Ranged[l] # {}

(***************************************************************************)
(* SLOTS: what an add of n in slot i does to the word.                     *)
(***************************************************************************)

AtPredicted(l, n, i) == i = PosOf(l, n)

\* The slot is one the layout's immediates reach.
InFixedSlot(i) == i <= nfixed

\* NightAddPropCheck, run by the engine on every add.
NightAddPropCheck(w, n, i) ==
    LET k == IF w.sent THEN w.key ELSE w.idx
        predictedByExtension ==
            \E l \in Layouts : /\ Size(l) > Size(k) /\ Extends(l, k)
                               /\ i > Size(k) /\ i <= Size(l) /\ Fields[l][i] = n
    IN
    IF ~w.bits.slots THEN w
    ELSE IF k \notin Layouts THEN Clear(w, {"slots"})
    ELSE IF i > ExtLen(k) THEN w
    ELSE IF Has(k, n)
         THEN (IF InFixedSlot(i) /\ AtPredicted(k, n, i) THEN w ELSE Clear(w, {"slots"}))
    ELSE IF predictedByExtension /\ InFixedSlot(i) THEN w
    ELSE IF ~w.sent /\ i > Size(k) THEN SetAdvIneligible(w)
    ELSE Clear(w, {"slots"})

\* The key AddCheck::Runtime reads: the early key ORed with the stamped index.
LiveKey(w) == IF w.sent THEN w.key
              ELSE IF AdvIneligible(w) /\ w.idx % 2 = 0 THEN w.idx + 1 ELSE w.idx

\* AddCheck::Runtime, at an add whose receiver's layout is not static.
RuntimeAddCheck(w, n, i) ==
    LET k == LiveKey(w)
        inBound == IF k = 0 THEN i <= KeylessSlots
                   ELSE k \notin Layouts \/ i <= ExtLen(k)
        deviates == w.bits.slots /\ inBound /\ <<k, i>> \notin RuntimePairs(n)
    IN
    IF ~deviates THEN w
    ELSE IF w.idx # 0 /\ k \in Layouts /\ i > Size(k) THEN SetAdvIneligible(w)
    ELSE Clear(w, {"slots"})

\* ctor_add_check: AddCheck::Predicted and ::Unpredicted, at a store through `this`.
OwnAddCheck(w, b, n, i) ==
    LET l == Own[b] IN
    IF Has(l, n) THEN (IF AtPredicted(l, n, i) THEN w ELSE Clear(w, {"slots"}))
    ELSE IF i <= Size(l) THEN Clear(w, {"slots"})
    ELSE IF i <= ExtLen(l) THEN SetAdvIneligible(w)
    ELSE w

(***************************************************************************)
(* TYPES and RANGES: what a store of v to n does to the word.  known is    *)
(* what the compiler can show of the value: "nothing", that it is a        *)
(* "number", or that it is in the claimed "range".                         *)
(***************************************************************************)

KnownOf(v) == {"nothing"} \cup (IF IsNumber(v) THEN {"number"} ELSE {})
                          \cup (IF v \in {"in", "double"} THEN {"range"} ELSE {})

\* Mutant: the engine keeps RANGES on number stores.
EngineStoreMaskRangesKept(w, v) == IF IsNumber(v) THEN w ELSE Clear(w, {"types"})

\* kStoreClearMask, kStoreNonNumberClearMask
EngineStoreMask(w, v) == Clear(w, IF IsNumber(v) THEN {"ranges"} ELSE {"ranges", "types"})

\* store_range_act, emit_range_act, over the layouts the receiver may have.
RangeAct(w, n, v, known, ls) ==
    IF (\E l \in ls : n \in Ranged[l]) /\ known # "range" /\ v # "in"
    THEN Clear(w, {"ranges"}) ELSE w

\* emit_conform_check_or_clear
ConformCheckOrClear(w, v, mask) ==
    IF PrimOf(v) # {} /\ PrimOf(v) \subseteq mask THEN w ELSE Clear(w, {"types", "ranges"})

\* emit_store_choke with no site claim.
GenericChoke(w, v) == IF IsNumber(v) THEN w ELSE Clear(w, {"types"})

\* ctor_init_claim with emit_store_choke, at a store through `this`.
InitChoke(w, b, n, v, known) ==
    IF known # "nothing" THEN w
    ELSE IF ~Has(Own[b], n) THEN GenericChoke(w, v)
    ELSE IF Mask[Own[b]][n] = {} THEN w
    ELSE ConformCheckOrClear(w, v, Mask[Own[b]][n])

(***************************************************************************)
(* The carried fact.                                                       *)
(***************************************************************************)

\* The frame that holds the fact is the one executing.
InHolder == fact # NoFact /\ fact.depth = Len(running)

\* emit_flag_fork: code called by the holder took the word to w; the holder keeps its
\* fact only if the epoch stood still.
FactAfterCall(w) == IF Demotes(word, w) THEN NoFact ELSE fact

\* An inline store took the word to w.  In the holder's own frame the store
\* sweeps the facts it may falsify (kill_slots_facts, kill_shallow_facts).
FactAfterInline(w, killSlots, killTypes) ==
    IF InHolder
    THEN [fact EXCEPT !.slots = @ /\ ~killSlots, !.types = @ /\ ~killTypes]
    ELSE FactAfterCall(w)

(***************************************************************************)
(* Stores.                                                                 *)
(***************************************************************************)

Present(n) == \E i \in 1..Len(props) : props[i] = n
SlotOf(n) == CHOOSE i \in 1..Len(props) : props[i] = n
NewSlot == Len(props) + 1

Overwrite(i, v) == vals' = [vals EXCEPT ![i] = v] /\ UNCHANGED props

Add(n, v) ==
    /\ NewSlot <= MaxSlots
    /\ props' = Append(props, n)
    /\ vals' = Append(vals, v)

\* Interpreted code, or a helper: the engine stores, with its masks, and on an add
\* calls the PropertyAdded hook.
EngineSet(n, v) ==
    /\ \/ /\ Present(n)
          /\ Overwrite(SlotOf(n), v)
          /\ word' = EngineStoreMask(word, v)
       \/ /\ ~Present(n)
          /\ Add(n, v)
          /\ word' = EngineStoreMask(NightAddPropCheck(word, n, NewSlot), v)
    /\ fact' = FactAfterCall(word')
    /\ UNCHANGED <<nfixed, born, running>>

\* emit_set_prop_ic_inline: an inline cache hit by name, which ranges over the layouts ls
\* and elides the choke if the value or the receiver's layout allows it; or an add replayed
\* from a transition row, into a fixed slot.
InlineSet(n, v, known, ls, elided) ==
    LET choked(w) == IF elided THEN w ELSE GenericChoke(w, v)
        stored == choked(RangeAct(word, n, v, known, ls))
    IN
    /\ \/ /\ Present(n)
          /\ Overwrite(SlotOf(n), v)
          /\ word' = stored
       \/ /\ ~Present(n) /\ InFixedSlot(NewSlot)
          /\ Add(n, v)
          /\ word' = RuntimeAddCheck(stored, n, NewSlot)
    /\ fact' = FactAfterInline(word', TRUE, ~elided)
    /\ UNCHANGED <<nfixed, born, running>>

\* A compiled store to a receiver no fact is held of.
CompiledSet(n, v) ==
    \E known \in KnownOf(v) : InlineSet(n, v, known, Layouts, known # "nothing")

\* A compiled store through `this` in the body on top.
OwnThisSet(n, v) ==
    LET b == running[Len(running)] IN
    /\ running # <<>>
    /\ n \in Writes[b]
    /\ \E known \in KnownOf(v) :
        LET stored == InitChoke(RangeAct(word, n, v, known, Layouts), b, n, v, known) IN
        /\ \/ /\ Present(n)
              /\ Overwrite(SlotOf(n), v)
              /\ word' = stored
           \/ /\ ~Present(n) /\ InFixedSlot(NewSlot)
              /\ Add(n, v)
              /\ word' = OwnAddCheck(stored, b, n, NewSlot)
        /\ fact' = FactAfterInline(word', TRUE, known = "nothing")
    /\ UNCHANGED <<nfixed, born, running>>

\* layout_unmasked: under the fact's layout the name carries no claim, or is absent.
LayoutUnmasked(n) == Mask[fact.l][n] = {}

\* emit_class_fact_set by the fact's holder: the slot is the layout's when SLOTS is in
\* the fact or in the word.
FactSetSlot(n, v) ==
    /\ InHolder
    /\ Has(fact.l, n)
    /\ fact.slots \/ word.bits.slots
    /\ PosOf(fact.l, n) <= Len(vals)
    /\ Overwrite(PosOf(fact.l, n), v)
    /\ \E known \in KnownOf(v) :
        LET ranged == RangeAct(word, n, v, known, {fact.l})
            elided == known # "nothing" \/ LayoutUnmasked(n)
        IN
        /\ word' = IF elided THEN ranged ELSE ConformCheckOrClear(ranged, v, Mask[fact.l][n])
        /\ fact' = [fact EXCEPT !.slots = TRUE, !.types = @ /\ elided]
    /\ UNCHANGED <<nfixed, born, running>>

\* The same where the slot form does not apply.
FactSetByName(n, v) ==
    /\ InHolder
    /\ ~(Has(fact.l, n) /\ (fact.slots \/ word.bits.slots))
    /\ \E known \in KnownOf(v) :
        InlineSet(n, v, known, {fact.l}, known # "nothing" \/ LayoutUnmasked(n))

\* A structural change (delete, freeze, reconfigure, swap, an object flag): the engine resets
\* the word and calls ObjectDemoted.
StructuralChange ==
    /\ word # ZeroWord
    /\ word' = ZeroWord
    /\ fact' = IF NightNoteDemotion(word) THEN NoFact ELSE fact
    /\ \/ UNCHANGED <<props, vals>>
       \/ /\ props # <<>>
          /\ props' = SubSeq(props, 1, Len(props) - 1)
          /\ vals' = SubSeq(vals, 1, Len(vals) - 1)
    /\ UNCHANGED <<nfixed, born, running>>

(***************************************************************************)
(* Guards.                                                                 *)
(***************************************************************************)

\* emit_class_fact_get, emit_class_fact_set: identity fused with SLOTS.
GuardIdentity ==
    /\ word.idx # 0 /\ word.bits.slots
    /\ fact' = [l |-> word.idx, slots |-> TRUE, types |-> FALSE, depth |-> Len(running)]
    /\ UNCHANGED <<word, props, vals, nfixed, born, running>>

\* Under a live identity fact only the bits are tested.
GuardBits ==
    /\ InHolder /\ word.bits.slots
    /\ fact' = [fact EXCEPT !.slots = TRUE, !.types = @ \/ word.bits.types]
    /\ UNCHANGED <<word, props, vals, nfixed, born, running>>

(***************************************************************************)
(* Activations.                                                            *)
(***************************************************************************)

\* emit_stamp_ctor_foreign_this_guard: constructors only.
ForeignThisGuard(w, b) ==
    IF ~IsRestamp[b] /\ w.idx \notin {0, Own[b]} THEN Clear(w, {"types", "ranges"}) ELSE w

Enter(b) ==
    /\ Len(running) < MaxFrames
    /\ (born \in News /\ b \in Runs[born]) \/ (~word.sent /\ b \in Functions)
    /\ running' = Append(running, b)
    /\ word' = ForeignThisGuard(word, b)
    /\ fact' = FactAfterCall(word')
    /\ UNCHANGED <<props, vals, nfixed, born>>

\* The ownership gate of emit_class_idx_stamp_impl.
Owns(w, b) ==
    LET l == Own[b]
        keys == {0, l} \cup (IF IsRestamp[b] THEN PrefixKeys(l) ELSE {})
    IN
    \/ w.sent /\ w.key \in keys
    \/ IsRestamp[b] /\ w.idx \in PrefixKeys(l) /\ ~AdvIneligible(w)

\* emit_class_idx_stamp_impl: the word a returning body leaves.
Stamp(w, b) ==
    LET l == Own[b] IN
    IF ~Owns(w, b) \/ Len(props) < Size(l) THEN w
    ELSE Stamped(l, [w.bits EXCEPT !.types = @ /\ HasMasks(l), !.ranges = @ /\ HasRanges(l)])

\* The facts of a frame die with it.
FactAfterExit == IF InHolder THEN NoFact ELSE fact

\* The body on top returns and stamps (a restamp moves no epoch), or throws.
Return ==
    /\ running # <<>>
    /\ word' = Stamp(word, running[Len(running)])
    /\ running' = SubSeq(running, 1, Len(running) - 1)
    /\ fact' = FactAfterExit
    /\ UNCHANGED <<props, vals, nfixed, born>>

Throw ==
    /\ running # <<>>
    /\ running' = SubSeq(running, 1, Len(running) - 1)
    /\ fact' = FactAfterExit
    /\ UNCHANGED <<word, props, vals, nfixed, born>>

(***************************************************************************)
(* Birth.                                                                  *)
(***************************************************************************)

\* A key past the early-key space is dropped.
EarlyKey(l) == IF l <= EarlyKeyMax THEN l ELSE 0

\* early_stamp_word
EarlyStampWord(l) ==
    Sentinel(EarlyKey(l), [AllBits EXCEPT !.types = HasMasks(l), !.ranges = HasRanges(l)])

\* The words a `new` may seed: a resolved site's, or the per-function region's with its
\* bits all set (emit_construct_this); unresolved, construct_alloc_word's keyless word or
\* NightSetConstructingSentinel's.
AllocWords(l) ==
    IF l # 0 THEN {EarlyStampWord(l), Sentinel(EarlyKey(l), AllBits)}
    ELSE {Sentinel(0, AllBits), Sentinel(0, [AllBits EXCEPT !.slots = FALSE])}

\* NightConstruct, NightCreateThis, emit_construct_this.
BornConstructing ==
    /\ born \in News
    /\ word \in AllocWords(SiteLayout[born])
    /\ props = <<>> /\ vals = <<>>
    /\ nfixed \in FixedCounts

\* An object literal is stamped, with SLOTS only, before its fields are added and escapes
\* after.
BornLiteral ==
    /\ born \in Literals
    /\ word = Stamped(born, [NoBits EXCEPT !.slots = TRUE])
    /\ props = Fields[born] /\ vals \in [1..Size(born) -> Values]
    /\ nfixed \in FixedCounts /\ nfixed >= Size(born)

Init ==
    /\ BornConstructing \/ BornLiteral
    /\ running = <<>>
    /\ fact = NoFact

Next ==
    \/ \E n \in Names, v \in Values : EngineSet(n, v)
    \/ \E n \in Names, v \in Values : CompiledSet(n, v)
    \/ \E n \in Names, v \in Values : OwnThisSet(n, v)
    \/ \E n \in Names, v \in Values : FactSetSlot(n, v)
    \/ \E n \in Names, v \in Values : FactSetByName(n, v)
    \/ StructuralChange
    \/ GuardIdentity
    \/ GuardBits
    \/ \E b \in Bodies : Enter(b)
    \/ Return
    \/ Throw

Spec == Init /\ [][Next]_vars

-----------------------------------------------------------------------------
\* Types; a word with the sentinel has no index, so that no class guard passes on an
\* object under construction.
TypeOK ==
    /\ word \in [sent : BOOLEAN, idx : Layouts \cup {0}, key : Nat,
                 bits : [BitNames -> BOOLEAN]]
    /\ word.sent => word.idx = 0
    /\ props \in Seq(Names) /\ vals \in Seq(Values) /\ Len(props) = Len(vals)
    /\ nfixed \in Nat
    /\ born \in News \cup Literals
    /\ running \in Seq(Bodies)
    /\ fact = NoFact \/ fact \in [l : Layouts, slots : BOOLEAN, types : BOOLEAN, depth : Nat]

\* The object has layout l's names in l's slots, all of them fixed.
SlotsOf(l) == /\ Size(l) <= Len(props) /\ Size(l) <= nfixed
              /\ \A i \in 1..Size(l) : props[i] = Fields[l][i]

\* The masked fields of l hold numbers.
TypesOf(l) == \A i \in 1..Len(props) : Mask[l][props[i]] # {} => IsNumber(vals[i])

\* The int32s in ranged fields of l are in range.
RangesOf(l) == \A i \in 1..Len(props) : props[i] \in Ranged[l] => vals[i] # "out"

\* A class guard that finds an index and SLOTS may use the layout's slot numbers.
SlotsHold == word.idx # 0 /\ word.bits.slots => SlotsOf(word.idx)

\* A class guard that finds an index and TYPES may unbox a masked field as a number.
TypesHold == word.idx # 0 /\ word.bits.types => TypesOf(word.idx)

\* With TYPES and RANGES, an int32 read from a ranged field is in its range.
RangesHold == word.idx # 0 /\ word.bits.types /\ word.bits.ranges => RangesOf(word.idx)

\* The two kinds of carried fact are true of the object.
FactSlotsHold == fact # NoFact /\ fact.slots => SlotsOf(fact.l)
FactTypesHold == fact # NoFact /\ fact.types => TypesOf(fact.l)

\* What compiled code still carries after a call is true of the object: the epoch moves
\* whenever a carried fact dies.
FactHolds == FactSlotsHold /\ FactTypesHold

\* What a guard on the class word lets compiled code skip about values is true of them.
StampedValuesHold == TypesHold /\ RangesHold
=============================================================================
