-------------------------- MODULE ObjectStampProofs --------------------------
(***************************************************************************)
(* The stamp epoch, for any layouts, claims, bodies and sites, and any      *)
(* order of stores, calls and stamps.                                       *)
(*                                                                          *)
(* Whether the word's own claims hold depends on what the analysis          *)
(* predicted (SlotsHold and StampedValuesHold are checked on an instance).  *)
(* What compiled code carries over a call does not: a carried fact is no    *)
(* stronger than the word, because the epoch has moved whenever the word    *)
(* lost a bit and a restamp only makes a layout longer.                     *)
(***************************************************************************)
EXTENDS ObjectStamp, TLAPS

WordType == [sent : BOOLEAN, idx : Layouts \cup {0}, key : Nat, bits : [BitNames -> BOOLEAN]]
FactType == [l : Layouts, slots : BOOLEAN, types : BOOLEAN, depth : Nat]

\* An init delegate's layout claims the fields of the layout it advances.
DelegatesClaim ==
    \A r \in Bodies : IsRestamp[r] =>
        \A p \in PrefixKeys(Own[r]) : \A n \in Names : Mask[p][n] # {} => Mask[Own[r]][n] # {}

\* A carried fact is about the word's layout or one it grew from, and is in the word.
Backed ==
    fact # NoFact =>
    /\ word.idx # 0
    /\ Extends(word.idx, fact.l)
    /\ fact.slots => word.bits.slots

FactInv == TypeOK /\ Backed

\* The same of TYPES: the word still claims what the fact's layout does.
TypesBacked ==
    fact # NoFact =>
    /\ \A n \in Names : Mask[fact.l][n] # {} => Mask[word.idx][n] # {}
    /\ fact.types /\ HasMasks(fact.l) => word.bits.types

LEMMA SizeNat == \A l \in Layouts : Size(l) \in Nat
  BY LayoutsAssumption DEF Size

LEMMA ExtTransitive ==
    ASSUME NEW k \in Layouts, NEW l \in Layouts, NEW m \in Layouts, Extends(l, k), Extends(m, l)
    PROVE Extends(m, k)
  BY SizeNat DEF Extends

(***************************************************************************)
(* The word.                                                                *)
(***************************************************************************)

\* v is w with fewer bits.
Fewer(w, v) ==
    /\ v \in WordType
    /\ v.sent = w.sent /\ v.idx = w.idx
    /\ \A b \in BitNames : v.bits[b] => w.bits[b]

\* And with TYPES if w has it.
KeepsTypes(w, v) == w.bits.types => v.bits.types

LEMMA FewerClear ==
    ASSUME NEW w \in WordType, NEW v, Fewer(w, v), NEW gone
    PROVE /\ Fewer(w, Clear(v, gone))
          /\ "types" \notin gone /\ KeepsTypes(w, v) => KeepsTypes(w, Clear(v, gone))
  BY DEF Fewer, Clear, WordType, BitNames, KeepsTypes

LEMMA FewerAdv ==
    ASSUME NEW w \in WordType, NEW v, Fewer(w, v)
    PROVE /\ Fewer(w, SetAdvIneligible(v))
          /\ KeepsTypes(w, v) => KeepsTypes(w, SetAdvIneligible(v))
  BY DEF Fewer, SetAdvIneligible, WordType, BitNames, KeepsTypes

LEMMA FewerSame ==
    ASSUME NEW w \in WordType
    PROVE Fewer(w, w) /\ KeepsTypes(w, w)
  BY DEF Fewer, KeepsTypes

\* The checks of an add take SLOTS or the right to advance.
LEMMA EngineAdd ==
    ASSUME NEW w \in WordType, NEW n, NEW i
    PROVE Fewer(w, NightAddPropCheck(w, n, i))
  BY FewerClear, FewerAdv, FewerSame DEF NightAddPropCheck

LEMMA RuntimeAdd ==
    ASSUME NEW w \in WordType, NEW v, Fewer(w, v), NEW n, NEW i
    PROVE /\ Fewer(w, RuntimeAddCheck(v, n, i))
          /\ KeepsTypes(w, v) => KeepsTypes(w, RuntimeAddCheck(v, n, i))
  BY FewerClear, FewerAdv DEF RuntimeAddCheck

LEMMA OwnAdd ==
    ASSUME NEW w \in WordType, NEW v, Fewer(w, v), NEW b, NEW n, NEW i
    PROVE /\ Fewer(w, OwnAddCheck(v, b, n, i))
          /\ KeepsTypes(w, v) => KeepsTypes(w, OwnAddCheck(v, b, n, i))
  BY FewerClear, FewerAdv DEF OwnAddCheck

\* The checks of a store take TYPES or RANGES.
LEMMA RangeStore ==
    ASSUME NEW w \in WordType, NEW n, NEW v, NEW known, NEW ls
    PROVE Fewer(w, RangeAct(w, n, v, known, ls)) /\ KeepsTypes(w, RangeAct(w, n, v, known, ls))
  BY FewerClear, FewerSame DEF RangeAct

LEMMA Choked ==
    ASSUME NEW w \in WordType, NEW x, Fewer(w, x), NEW v, NEW m
    PROVE /\ Fewer(w, GenericChoke(x, v)) /\ Fewer(w, ConformCheckOrClear(x, v, m))
          /\ Fewer(w, EngineStoreMask(x, v))
  BY FewerClear DEF GenericChoke, ConformCheckOrClear, EngineStoreMask

LEMMA InitStore ==
    ASSUME NEW w \in WordType, NEW x, Fewer(w, x), NEW b, NEW n, NEW v, NEW known
    PROVE /\ Fewer(w, InitChoke(x, b, n, v, known))
          /\ known # "nothing" /\ KeepsTypes(w, x) => KeepsTypes(w, InitChoke(x, b, n, v, known))
  BY Choked DEF InitChoke

(***************************************************************************)
(* The fact.                                                                *)
(***************************************************************************)

\* What every step keeps of the fact.
FactKept ==
    /\ fact' = NoFact \/ fact' \in FactType
    /\ Backed'
    /\ TypesBacked => TypesBacked'

\* A call that left the epoch alone took no bit from the word.
LEMMA AfterCall ==
    ASSUME FactInv, Fewer(word, word'), fact' = FactAfterCall(word')
    PROVE FactKept
  <1>1. CASE fact = NoFact \/ Demotes(word, word')
    BY <1>1 DEF FactAfterCall, FactKept, Backed, TypesBacked
  <1>2. CASE fact # NoFact /\ ~Demotes(word, word')
    <2>1. fact' = fact /\ fact \in FactType
      BY <1>2 DEF FactAfterCall, FactInv, TypeOK, FactType
    <2>2. ~word.sent /\ word.idx # 0 BY <1>2 DEF FactInv, Backed, TypeOK
    <2>3. (word.bits.types => word'.bits.types) /\ (word.bits.slots => word'.bits.slots)
      BY <1>2, <2>2 DEF Demotes, NightNoteDemotion, BitNames
    <2> QED BY <1>2, <2>1, <2>2, <2>3 DEF FactInv, Backed, TypesBacked, FactKept, Fewer
  <1> QED BY <1>1, <1>2

\* An inline store of the holder drops what it may falsify.
LEMMA AfterInline ==
    ASSUME FactInv, Fewer(word, word'), NEW elided \in BOOLEAN,
           elided => KeepsTypes(word, word'), fact' = FactAfterInline(word', TRUE, ~elided)
    PROVE FactKept
  <1>1. CASE InHolder
    <2>1. fact # NoFact /\ fact \in FactType BY <1>1 DEF InHolder, FactInv, TypeOK, FactType
    <2>2. fact' = [fact EXCEPT !.slots = @ /\ ~TRUE, !.types = @ /\ ~~elided]
      BY <1>1 DEF FactAfterInline
    <2>3. fact' \in FactType /\ fact'.l = fact.l /\ ~fact'.slots /\ fact'.types = (fact.types /\ elided)
      BY <2>1, <2>2 DEF FactType
    <2> QED BY <2>1, <2>3 DEF FactInv, Backed, TypesBacked, FactKept, Fewer, KeepsTypes
  <1>2. CASE ~InHolder
    BY <1>2, AfterCall DEF FactAfterInline
  <1> QED BY <1>1, <1>2

\* A store or an activation leaves the rest typed.
LEMMA Kept ==
    ASSUME FactInv, Fewer(word, word'), FactKept,
           props' \in Seq(Names), vals' \in Seq(Values), Len(props') = Len(vals'),
           running' \in Seq(Bodies), UNCHANGED <<nfixed, born>>
    PROVE FactInv' /\ (TypesBacked => TypesBacked')
  <1>1. /\ word' \in [sent : BOOLEAN, idx : Layouts \cup {0}, key : Nat, bits : [BitNames -> BOOLEAN]]
        /\ word'.sent => word'.idx = 0
    BY DEF FactInv, TypeOK, Fewer, WordType
  <1> QED BY <1>1 DEF FactInv, TypeOK, FactKept, FactType

\* The names and values after an overwrite or an add.
LEMMA Overwritten ==
    ASSUME TypeOK, NEW i \in 1..Len(props), NEW v \in Values, Overwrite(i, v)
    PROVE props' \in Seq(Names) /\ vals' \in Seq(Values) /\ Len(props') = Len(vals')
  <1>1. props \in Seq(Names) /\ vals \in Seq(Values) /\ Len(props) = Len(vals)
    BY DEF TypeOK
  <1>2. vals' = [vals EXCEPT ![i] = v] /\ props' = props
    BY DEF Overwrite
  <1>3. vals' \in Seq(Values) /\ Len(vals') = Len(vals)
    BY <1>1, <1>2
  <1> QED BY <1>1, <1>2, <1>3

LEMMA SlotOfPresent ==
    ASSUME NEW n, Present(n)
    PROVE SlotOf(n) \in 1..Len(props)
  BY DEF Present, SlotOf

LEMMA Added ==
    ASSUME TypeOK, NEW n \in Names, NEW v \in Values, Add(n, v)
    PROVE props' \in Seq(Names) /\ vals' \in Seq(Values) /\ Len(props') = Len(vals')
  BY DEF TypeOK, Add

LEMMA WordTyped == FactInv => word \in WordType
  BY DEF FactInv, TypeOK, WordType

(***************************************************************************)
(* The steps.                                                               *)
(***************************************************************************)

LEMMA EngineSetKeeps ==
    ASSUME FactInv, NEW n \in Names, NEW v \in Values, EngineSet(n, v)
    PROVE FactInv' /\ (TypesBacked => TypesBacked')
  <1>1. word \in WordType /\ TypeOK BY WordTyped DEF FactInv
  <1>2. Fewer(word, word')
    BY <1>1, EngineAdd, FewerSame, Choked DEF EngineSet
  <1>3. FactKept BY <1>2, AfterCall DEF EngineSet
  <1>4. props' \in Seq(Names) /\ vals' \in Seq(Values) /\ Len(props') = Len(vals')
    BY <1>1, Overwritten, SlotOfPresent, Added DEF EngineSet
  <1>5. running' \in Seq(Bodies) /\ UNCHANGED <<nfixed, born>> BY <1>1 DEF EngineSet, TypeOK
  <1> QED BY <1>2, <1>3, <1>4, <1>5, Kept

LEMMA InlineSetKeeps ==
    ASSUME FactInv, NEW n \in Names, NEW v \in Values, NEW known, NEW ls, NEW elided \in BOOLEAN,
           InlineSet(n, v, known, ls, elided)
    PROVE FactInv' /\ (TypesBacked => TypesBacked')
  <1>1. word \in WordType /\ TypeOK BY WordTyped DEF FactInv
  <1> DEFINE ranged == RangeAct(word, n, v, known, ls)
             stored == IF elided THEN ranged ELSE GenericChoke(ranged, v)
  <1>2. Fewer(word, stored) /\ (elided => KeepsTypes(word, stored))
    BY <1>1, RangeStore, Choked
  <1>3. word' \in {stored, RuntimeAddCheck(stored, n, NewSlot)}
    BY DEF InlineSet
  <1>4. Fewer(word, word') /\ (elided => KeepsTypes(word, word'))
    <2> HIDE DEF stored
    <2> QED BY <1>1, <1>2, <1>3, RuntimeAdd
  <1>5. FactKept BY <1>4, AfterInline DEF InlineSet
  <1>6. props' \in Seq(Names) /\ vals' \in Seq(Values) /\ Len(props') = Len(vals')
    BY <1>1, Overwritten, SlotOfPresent, Added DEF InlineSet
  <1>7. running' \in Seq(Bodies) /\ UNCHANGED <<nfixed, born>> BY <1>1 DEF InlineSet, TypeOK
  <1> QED BY <1>4, <1>5, <1>6, <1>7, Kept

LEMMA OwnThisSetKeeps ==
    ASSUME FactInv, NEW n \in Names, NEW v \in Values, OwnThisSet(n, v)
    PROVE FactInv' /\ (TypesBacked => TypesBacked')
  <1>1. word \in WordType /\ TypeOK BY WordTyped DEF FactInv
  <1> DEFINE b == running[Len(running)]
  <1>2. PICK known \in KnownOf(v) :
          LET stored == InitChoke(RangeAct(word, n, v, known, Layouts), b, n, v, known) IN
          /\ \/ Present(n) /\ Overwrite(SlotOf(n), v) /\ word' = stored
             \/ Add(n, v) /\ word' = OwnAddCheck(stored, b, n, NewSlot)
          /\ fact' = FactAfterInline(word', TRUE, known = "nothing")
    BY DEF OwnThisSet
  <1> DEFINE ranged == RangeAct(word, n, v, known, Layouts)
             stored == InitChoke(ranged, b, n, v, known)
             elided == known # "nothing"
  <1>3. Fewer(word, ranged) /\ KeepsTypes(word, ranged) BY <1>1, RangeStore
  <1>4. Fewer(word, stored) /\ (elided => KeepsTypes(word, stored))
    <2> HIDE DEF ranged, b
    <2> QED BY <1>1, <1>3, InitStore
  <1>5. word' = stored \/ word' = OwnAddCheck(stored, b, n, NewSlot)
    BY <1>2
  <1>6. Fewer(word, word') /\ (elided => KeepsTypes(word, word'))
    <2> HIDE DEF stored, elided, b
    <2> QED BY <1>1, <1>4, <1>5, OwnAdd
  <1>7. FactKept
    <2>1. fact' = FactAfterInline(word', TRUE, ~elided) BY <1>2
    <2>2. elided \in BOOLEAN OBVIOUS
    <2> HIDE DEF elided
    <2> QED BY <1>6, <2>1, <2>2, AfterInline
  <1>8. props' \in Seq(Names) /\ vals' \in Seq(Values) /\ Len(props') = Len(vals')
    BY <1>1, <1>2, Overwritten, SlotOfPresent, Added
  <1>9. running' \in Seq(Bodies) /\ UNCHANGED <<nfixed, born>> BY <1>1 DEF OwnThisSet, TypeOK
  <1> QED BY <1>6, <1>7, <1>8, <1>9, Kept

LEMMA FactSetSlotKeeps ==
    ASSUME FactInv, NEW n \in Names, NEW v \in Values, FactSetSlot(n, v)
    PROVE FactInv' /\ (TypesBacked => TypesBacked')
  <1>1. word \in WordType /\ TypeOK BY WordTyped DEF FactInv
  <1>2. fact # NoFact /\ fact \in FactType /\ word.bits.slots
    BY DEF FactSetSlot, InHolder, FactInv, Backed, TypeOK, FactType
  <1>3. PICK known \in KnownOf(v) :
          LET ranged == RangeAct(word, n, v, known, {fact.l})
              elided == known # "nothing" \/ LayoutUnmasked(n)
          IN
          /\ word' = IF elided THEN ranged ELSE ConformCheckOrClear(ranged, v, Mask[fact.l][n])
          /\ fact' = [fact EXCEPT !.slots = TRUE, !.types = @ /\ elided]
    BY DEF FactSetSlot
  <1> DEFINE ranged == RangeAct(word, n, v, known, {fact.l})
             elided == known # "nothing" \/ LayoutUnmasked(n)
  <1>4. Fewer(word, ranged) /\ KeepsTypes(word, ranged) BY <1>1, RangeStore
  <1>5. ranged.bits.slots
    BY <1>1, <1>2 DEF RangeAct, Clear, WordType, BitNames
  <1>6. /\ Fewer(word, word') /\ (elided => KeepsTypes(word, word'))
        /\ word'.bits.slots
    <2>1. CASE elided BY <2>1, <1>3, <1>4, <1>5
    <2>2. CASE ~elided
      <3>1. word' = ConformCheckOrClear(ranged, v, Mask[fact.l][n]) BY <2>2, <1>3
      <3> HIDE DEF ranged, elided
      <3>2. ranged \in WordType BY <1>4 DEF Fewer
      <3>3. Fewer(word, word') BY <3>1, <1>1, <1>4, Choked
      <3>4. Clear(ranged, {"types", "ranges"}).bits.slots
        BY <3>2, <1>5 DEF Clear, WordType, BitNames
      <3>5. word' = ranged \/ word' = Clear(ranged, {"types", "ranges"})
        BY <3>1 DEF ConformCheckOrClear
      <3> QED BY <2>2, <3>3, <3>4, <3>5, <1>5
    <2> QED BY <2>1, <2>2
  <1>7. fact' \in FactType /\ fact'.l = fact.l /\ fact'.types = (fact.types /\ elided)
    <2>1. elided \in BOOLEAN BY DEF LayoutUnmasked
    <2>2. fact' = [fact EXCEPT !.slots = TRUE, !.types = @ /\ elided] BY <1>3
    <2> HIDE DEF elided
    <2> QED BY <1>2, <2>1, <2>2 DEF FactType
  <1>8. fact' # NoFact => FactKept
    <2> HIDE DEF elided, ranged
    <2> QED BY <1>2, <1>6, <1>7 DEF FactKept, FactInv, Backed, TypesBacked, Fewer, KeepsTypes
  <1>9. fact' = NoFact => FactKept BY DEF FactKept, Backed, TypesBacked
  <1>10. props' \in Seq(Names) /\ vals' \in Seq(Values) /\ Len(props') = Len(vals')
    <2>1. PosOf(fact.l, n) \in 1..Len(props) /\ Overwrite(PosOf(fact.l, n), v)
      BY <1>1, <1>2, SizeNat DEF FactSetSlot, Has, PosOf, TypeOK, FactType
    <2> QED BY <1>1, <2>1, Overwritten
  <1>11. running' \in Seq(Bodies) /\ UNCHANGED <<nfixed, born>> BY <1>1 DEF FactSetSlot, TypeOK
  <1> QED BY <1>6, <1>8, <1>9, <1>10, <1>11, Kept

LEMMA StructuralChangeKeeps ==
    ASSUME FactInv, StructuralChange
    PROVE FactInv' /\ TypesBacked'
  <1>1. word' = ZeroWord /\ UNCHANGED <<nfixed, born, running>>
    BY DEF StructuralChange
  <1>2. word' \in WordType /\ ~word'.sent
    BY <1>1 DEF ZeroWord, Stamped, NoBits, WordType, BitNames
  <1>3. fact' = NoFact
    BY DEF StructuralChange, NightNoteDemotion, FactInv, Backed, TypeOK
  <1>4. props' \in Seq(Names) /\ vals' \in Seq(Values) /\ Len(props') = Len(vals')
    <2>1. props \in Seq(Names) /\ vals \in Seq(Values) /\ Len(props) = Len(vals)
      BY DEF FactInv, TypeOK
    <2>2. CASE UNCHANGED <<props, vals>> BY <2>1, <2>2
    <2>3. CASE /\ props # <<>>
               /\ props' = SubSeq(props, 1, Len(props) - 1)
               /\ vals' = SubSeq(vals, 1, Len(vals) - 1)
      BY <2>1, <2>3
    <2> QED BY <2>2, <2>3 DEF StructuralChange
  <1> QED BY <1>1, <1>2, <1>3, <1>4 DEF FactInv, TypeOK, WordType, Backed, TypesBacked

LEMMA GuardIdentityKeeps ==
    ASSUME FactInv, GuardIdentity
    PROVE FactInv' /\ TypesBacked'
  <1>1. word.idx \in Layouts /\ Len(running) \in Nat
    BY DEF GuardIdentity, FactInv, TypeOK
  <1>2. fact' \in FactType /\ fact'.l = word.idx /\ ~fact'.types
    BY <1>1 DEF GuardIdentity, FactType
  <1>3. Extends(word.idx, word.idx) BY <1>1, SizeNat DEF Extends
  <1> QED BY <1>1, <1>2, <1>3 DEF GuardIdentity, FactInv, TypeOK, Backed, TypesBacked, FactType

LEMMA GuardBitsKeeps ==
    ASSUME FactInv, GuardBits
    PROVE FactInv' /\ (TypesBacked => TypesBacked')
  <1>1. fact # NoFact /\ fact \in FactType /\ word \in WordType
    BY WordTyped DEF GuardBits, InHolder, FactInv, TypeOK, FactType
  <1>2. fact' = [fact EXCEPT !.slots = TRUE, !.types = @ \/ word.bits.types]
    BY DEF GuardBits
  <1>3. fact' \in FactType /\ fact'.l = fact.l /\ (fact'.types <=> fact.types \/ word.bits.types)
    BY <1>1, <1>2 DEF FactType, WordType, BitNames
  <1> QED BY <1>1, <1>3 DEF GuardBits, FactInv, TypeOK, Backed, TypesBacked, FactType

LEMMA EnterKeeps ==
    ASSUME FactInv, NEW b \in Bodies, Enter(b)
    PROVE FactInv' /\ (TypesBacked => TypesBacked')
  <1>1. word \in WordType BY WordTyped
  <1>2. Fewer(word, word') BY <1>1, FewerClear, FewerSame DEF Enter, ForeignThisGuard
  <1>3. FactKept BY <1>2, AfterCall DEF Enter
  <1>4. /\ props' \in Seq(Names) /\ vals' \in Seq(Values) /\ Len(props') = Len(vals')
        /\ running' \in Seq(Bodies) /\ UNCHANGED <<nfixed, born>>
    BY DEF Enter, FactInv, TypeOK
  <1> QED BY <1>2, <1>3, <1>4, Kept

\* Leaving a frame.
LEMMA Left ==
    ASSUME TypeOK, running # <<>>
    PROVE SubSeq(running, 1, Len(running) - 1) \in Seq(Bodies) /\ running[Len(running)] \in Bodies
  BY DEF TypeOK

LEMMA ThrowKeeps ==
    ASSUME FactInv, Throw
    PROVE FactInv' /\ (TypesBacked => TypesBacked')
  <1>1. running' \in Seq(Bodies) BY Left DEF Throw, FactInv
  <1>2. fact' \in {NoFact, fact} /\ UNCHANGED <<word, props, vals, nfixed, born>>
    BY DEF Throw, FactAfterExit
  <1> QED BY <1>1, <1>2 DEF FactInv, TypeOK, Backed, TypesBacked

\* A stamp on an object a fact is held of is a delegate's: it makes the layout longer and
\* takes no bit but TYPES, where the new layout claims nothing.
LEMMA ReturnKeeps ==
    ASSUME FactInv, Return
    PROVE FactInv' /\ (DelegatesClaim /\ TypesBacked => TypesBacked')
  <1> DEFINE b == running[Len(running)]
             l == Own[b]
             bits == [word.bits EXCEPT !.types = @ /\ HasMasks(l), !.ranges = @ /\ HasRanges(l)]
  <1>1. word \in WordType /\ TypeOK BY WordTyped DEF FactInv
  <1>2. running' \in Seq(Bodies) /\ b \in Bodies /\ l \in Layouts
    BY <1>1, Left, BodiesAssumption DEF Return
  <1>3. fact' \in {NoFact, fact} /\ UNCHANGED <<props, vals, nfixed, born>>
    BY DEF Return, FactAfterExit
  <1>4. word' = word \/ (Owns(word, b) /\ word' = Stamped(l, bits))
    BY DEF Return, Stamp
  <1>5. CASE word' = word
    BY <1>1, <1>2, <1>3, <1>5 DEF FactInv, TypeOK, Backed, TypesBacked
  <1>6. CASE Owns(word, b) /\ word' = Stamped(l, bits)
    <2>1. /\ bits \in [BitNames -> BOOLEAN] /\ (bits.slots <=> word.bits.slots)
          /\ bits.types <=> word.bits.types /\ HasMasks(l)
      <3>1. HasMasks(l) \in BOOLEAN /\ HasRanges(l) \in BOOLEAN BY DEF HasMasks, HasRanges
      <3>2. word.bits \in [BitNames -> BOOLEAN] BY <1>1 DEF WordType
      <3> HIDE DEF l
      <3> QED BY <3>1, <3>2 DEF BitNames
    <2> HIDE DEF bits
    <2>2. word'.sent = FALSE /\ word'.idx = l /\ word'.key = 0 /\ word'.bits = bits /\ word' \in WordType
      BY <1>2, <1>6, <2>1 DEF Stamped, WordType
    <2> HIDE DEF l, b
    <2>3. TypeOK' BY <1>1, <1>2, <1>3, <2>2 DEF TypeOK, WordType
    <2>4. CASE fact' = NoFact BY <2>3, <2>4 DEF FactInv, Backed, TypesBacked
    <2>5. CASE fact' = fact /\ fact # NoFact
      <3>1. word.idx # 0 /\ ~word.sent /\ fact.l \in Layouts /\ word.idx \in Layouts
        BY <1>1, <2>5 DEF FactInv, Backed, TypeOK
      <3>2. IsRestamp[b] /\ word.idx \in PrefixKeys(l)
        BY <3>1, <1>6 DEF Owns, l
      <3>3. Extends(l, word.idx) BY <3>2 DEF PrefixKeys
      <3>4. l # 0 /\ Extends(l, fact.l)
        BY <1>2, <2>5, <3>1, <3>3, ExtTransitive, LayoutsAssumption DEF FactInv, Backed
      <3>5. FactInv'
        BY <2>1, <2>2, <2>3, <2>5, <3>4 DEF FactInv, Backed
      <3>6. ASSUME DelegatesClaim, TypesBacked PROVE TypesBacked'
        <4>1. \A n \in Names : Mask[word.idx][n] # {} => Mask[l][n] # {}
          BY <3>6, <3>2, <1>2 DEF DelegatesClaim, l
        <4>2. \A n \in Names : Mask[fact.l][n] # {} => Mask[l][n] # {}
          BY <4>1, <3>6, <2>5 DEF TypesBacked
        <4>3. HasMasks(fact.l) => HasMasks(l) BY <4>2 DEF HasMasks
        <4> QED BY <4>2, <4>3, <3>6, <2>1, <2>2, <2>5 DEF TypesBacked
      <3> QED BY <3>5, <3>6
    <2> QED BY <2>4, <2>5, <1>3
  <1> QED BY <1>4, <1>5, <1>6

LEMMA NextKeeps ==
    ASSUME FactInv, [Next]_vars
    PROVE FactInv' /\ (DelegatesClaim /\ TypesBacked => TypesBacked')
  <1>1. CASE UNCHANGED vars BY <1>1 DEF vars, FactInv, TypeOK, Backed, TypesBacked
  <1>2. CASE \E n \in Names, v \in Values : EngineSet(n, v) BY <1>2, EngineSetKeeps
  <1>3. CASE \E n \in Names, v \in Values : CompiledSet(n, v)
    BY <1>3, InlineSetKeeps DEF CompiledSet
  <1>4. CASE \E n \in Names, v \in Values : OwnThisSet(n, v) BY <1>4, OwnThisSetKeeps
  <1>5. CASE \E n \in Names, v \in Values : FactSetSlot(n, v) BY <1>5, FactSetSlotKeeps
  <1>6. CASE \E n \in Names, v \in Values : FactSetByName(n, v)
    BY <1>6, InlineSetKeeps DEF FactSetByName, LayoutUnmasked
  <1>7. CASE StructuralChange BY <1>7, StructuralChangeKeeps
  <1>8. CASE GuardIdentity BY <1>8, GuardIdentityKeeps
  <1>9. CASE GuardBits BY <1>9, GuardBitsKeeps
  <1>10. CASE \E b \in Bodies : Enter(b) BY <1>10, EnterKeeps
  <1>11. CASE Return BY <1>11, ReturnKeeps
  <1>12. CASE Throw BY <1>12, ThrowKeeps
  <1> QED BY <1>1, <1>2, <1>3, <1>4, <1>5, <1>6, <1>7, <1>8, <1>9, <1>10, <1>11, <1>12 DEF Next

LEMMA InitHolds == Init => FactInv /\ TypesBacked
  <1> SUFFICES ASSUME Init PROVE FactInv /\ TypesBacked OBVIOUS
  <1>1. fact = NoFact /\ running = <<>> BY DEF Init
  <1>2. \A l : HasMasks(l) \in BOOLEAN /\ HasRanges(l) \in BOOLEAN BY DEF HasMasks, HasRanges
  <1>3. \A l \in Layouts : EarlyKey(l) \in Nat BY LayoutsAssumption DEF EarlyKey
  <1>4. nfixed \in Nat
    BY LimitsAssumption DEF Init, BornConstructing, BornLiteral
  <1>5. CASE BornConstructing
    <2>1. SiteLayout[born] \in Layouts \cup {0} /\ word \in AllocWords(SiteLayout[born])
      BY <1>5, BodiesAssumption DEF BornConstructing
    <2>2. word \in WordType /\ word.idx = 0
      <3>1. \A l \in Layouts : [AllBits EXCEPT !.types = HasMasks(l), !.ranges = HasRanges(l)] \in [BitNames -> BOOLEAN]
        BY <1>2 DEF AllBits, BitNames
      <3>2. [AllBits EXCEPT !.slots = FALSE] \in [BitNames -> BOOLEAN] /\ AllBits \in [BitNames -> BOOLEAN]
        BY DEF AllBits, BitNames
      <3>3. \A k \in Nat, x \in [BitNames -> BOOLEAN] : Sentinel(k, x) \in WordType /\ Sentinel(k, x).idx = 0
        BY DEF Sentinel, WordType
      <3> DEFINE l == SiteLayout[born]
      <3>4. CASE l = 0
        <4>1. word \in {Sentinel(0, AllBits), Sentinel(0, [AllBits EXCEPT !.slots = FALSE])}
          BY <2>1, <3>4 DEF AllocWords
        <4> DEFINE x == [AllBits EXCEPT !.slots = FALSE]
        <4>2. word = Sentinel(0, AllBits) \/ word = Sentinel(0, x) BY <4>1
        <4>3. x \in [BitNames -> BOOLEAN] /\ AllBits \in [BitNames -> BOOLEAN] BY <3>2
        <4> HIDE DEF x
        <4> QED BY <4>2, <4>3, <3>3
      <3>5. CASE l # 0
        <4>1. l \in Layouts /\ word \in {EarlyStampWord(l), Sentinel(EarlyKey(l), AllBits)}
          BY <2>1, <3>5 DEF AllocWords
        <4> HIDE DEF l
        <4>2. EarlyKey(l) \in Nat BY <4>1, <1>3
        <4>3. EarlyStampWord(l) = Sentinel(EarlyKey(l), [AllBits EXCEPT !.types = HasMasks(l), !.ranges = HasRanges(l)])
          BY DEF EarlyStampWord
        <4>4. word = EarlyStampWord(l) \/ word = Sentinel(EarlyKey(l), AllBits) BY <4>1
        <4>5. EarlyStampWord(l) \in WordType /\ EarlyStampWord(l).idx = 0
          <5> DEFINE x == [AllBits EXCEPT !.types = HasMasks(l), !.ranges = HasRanges(l)]
          <5>1. x \in [BitNames -> BOOLEAN] BY <4>1, <3>1
          <5>2. EarlyStampWord(l) = Sentinel(EarlyKey(l), x) BY <4>3
          <5> HIDE DEF x
          <5> QED BY <5>1, <5>2, <4>2, <3>3
        <4> QED BY <4>2, <4>4, <4>5, <3>2, <3>3
      <3> QED BY <3>4, <3>5
    <2> QED BY <1>1, <1>4, <1>5, <2>2 DEF BornConstructing, FactInv, TypeOK, WordType, Backed, TypesBacked
  <1>6. CASE BornLiteral
    <2>1. born \in Literals /\ born \in Layouts
      BY <1>6, LayoutsAssumption DEF BornLiteral
    <2>2. word \in WordType /\ ~word.sent
      BY <1>6, <2>1 DEF BornLiteral, Stamped, NoBits, BitNames, WordType
    <2>3. props \in Seq(Names) /\ vals \in Seq(Values) /\ Len(props) = Len(vals)
      <3>1. Fields[born] \in Seq(Names) /\ Size(born) \in Nat
        BY <2>1, LayoutsAssumption, SizeNat
      <3>2. vals \in [1..Size(born) -> Values] /\ props = Fields[born]
        BY <1>6 DEF BornLiteral
      <3>3. vals \in Seq(Values) /\ Len(vals) = Size(born) BY <3>1, <3>2
      <3> QED BY <3>1, <3>2, <3>3 DEF Size
    <2> QED BY <1>1, <1>4, <2>1, <2>2, <2>3 DEF FactInv, TypeOK, WordType, Backed, TypesBacked
  <1> QED BY <1>5, <1>6 DEF Init

(***************************************************************************)
(* The theorems.                                                            *)
(***************************************************************************)

\* The class word is well typed, and one under construction has no index: no class guard
\* passes before the first stamp.
THEOREM StampTypes == Spec => []TypeOK
  <1>1. Init => FactInv BY InitHolds
  <1>2. FactInv /\ [Next]_vars => FactInv' BY NextKeeps
  <1>3. FactInv => TypeOK BY DEF FactInv
  <1> QED BY <1>1, <1>2, <1>3, PTL DEF Spec

\* Whatever the analysis predicted: the slots that a frame goes on using after calls, because
\* the stamp epoch stood still, are the object's as long as those of its word are.
THEOREM CarriedSlots == Spec => [](SlotsHold => FactSlotsHold)
  <1>1. Init => FactInv BY InitHolds
  <1>2. FactInv /\ [Next]_vars => FactInv' BY NextKeeps
  <1>3. FactInv => (SlotsHold => FactSlotsHold)
    <2> SUFFICES ASSUME FactInv, SlotsHold, fact # NoFact, fact.slots PROVE SlotsOf(fact.l)
      BY DEF FactSlotsHold
    <2>1. fact.l \in Layouts /\ word.idx \in Layouts /\ Extends(word.idx, fact.l) /\ Len(props) \in Nat
          /\ nfixed \in Nat
      BY DEF FactInv, TypeOK, Backed
    <2>2. SlotsOf(word.idx) BY DEF SlotsHold, FactInv, Backed
    <2> QED BY <2>1, <2>2, SizeNat DEF SlotsOf, Extends
  <1> QED BY <1>1, <1>2, <1>3, PTL DEF Spec

\* If delegates claim the fields of the layouts they advance: both kinds of carried fact are
\* true of the object as long as what its word says is.
THEOREM CarriedFacts ==
    ASSUME DelegatesClaim
    PROVE Spec => [](SlotsHold /\ TypesHold => FactHolds)
  <1>1. Init => FactInv /\ TypesBacked BY InitHolds
  <1>2. FactInv /\ TypesBacked /\ [Next]_vars => FactInv' /\ TypesBacked' BY NextKeeps
  <1>3. FactInv /\ TypesBacked => (TypesHold => FactTypesHold)
    <2> SUFFICES ASSUME FactInv, TypesBacked, TypesHold, fact # NoFact, fact.types
                 PROVE TypesOf(fact.l)
      BY DEF FactTypesHold
    <2>1. \A i \in 1..Len(props) : props[i] \in Names BY DEF FactInv, TypeOK
    <2>2. CASE HasMasks(fact.l)
      <3>1. TypesOf(word.idx) BY <2>2 DEF TypesHold, FactInv, Backed, TypesBacked
      <3> QED BY <2>1, <3>1 DEF TypesOf, TypesBacked
    <2>3. CASE ~HasMasks(fact.l) BY <2>1, <2>3 DEF TypesOf, HasMasks
    <2> QED BY <2>2, <2>3
  <1>4. Spec => [](TypesHold => FactTypesHold) BY <1>1, <1>2, <1>3, PTL DEF Spec
  <1>5. (SlotsHold => FactSlotsHold) /\ (TypesHold => FactTypesHold) => (SlotsHold /\ TypesHold => FactHolds)
    BY DEF FactHolds
  <1> QED BY <1>4, <1>5, CarriedSlots, PTL
=============================================================================
