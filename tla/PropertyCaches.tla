--------------------------- MODULE PropertyCaches ---------------------------
(* The inline property caches: the per-site rows and global tables that a    *)
(* compiled property read, write or literal definition probes, the miss      *)
(* helpers that fill them, and the collector callbacks that drop them.        *)
(*                                                                            *)
(* One name X is followed; the other names give receivers their layouts.  A   *)
(* shape is its description (proto link, properties in slot order, the        *)
(* engine's invalidated-teleporting flag, the number that tells a             *)
(* dictionary's shapes apart) and an address: rows hold addresses, and the    *)
(* collector frees and moves them.  What an access does is a location (object *)
(* and slot), a call or a failure; it is compared with what the engine's own  *)
(* lookup would do on the same heap.                                          *)
EXTENDS Integers, Sequences, FiniteSets, SequencesExt, FiniteSetsExt, TLC

CONSTANTS
    Recv,        \* the receivers
    P, Q,        \* the prototypes: every receiver's proto is P, P's is Q
    This,        \* the receiver that is the compiled constructor's `this`
    OwnNames,    \* the names the program gives receivers, per family
    OtherName,   \* the name another site of the body adds
    NFixed,      \* fixed slots of an object
    Ways,        \* INLINE_IC_WAYS
    InlineHops,  \* IC_TRANS_INLINE_HOPS
    RowHops,     \* IC_TRANS_PROTO_HOPS, kGChainMaxHops
    NAddrs,      \* addresses shapes are allocated at
    MaxHeapOps,  \* bound on the mutations of a behaviour
    StartKinds,  \* what Q may hold at the start, per family
    ProtoKinds,  \* the kinds of property the prototypes get, per family
    GcInSet,     \* whether a major collection may run inside a generic set
    SelfRedefine, \* whether an accessor may replace the property it serves
    Reshadow,    \* whether a chain the engine has already invalidated may be
                 \* shadowed or cut again below an accessor
    MaxCycles    \* bound on the major collections of a behaviour

ASSUME PropAssumption ==
    /\ P # Q /\ P \notin Recv /\ Q \notin Recv /\ This \in Recv
    /\ {"null", "free"} \cap (Recv \cup {P, Q}) = {}
    /\ NFixed \in Nat /\ Ways \in Nat \ {0} /\ InlineHops \in Nat /\ RowHops \in Nat
    /\ NAddrs \in Nat /\ MaxHeapOps \in Nat /\ MaxCycles \in Nat
    /\ \A f \in {"get", "set", "init", "accessor"} :
           /\ StartKinds[f] \subseteq {"data", "readonly", "getset1", "getset2", "none"}
           /\ ProtoKinds[f] \subseteq {"data", "readonly", "getset1", "getset2"}

VARIABLES
    fam,      \* the family of caches the behaviour exercises
    form,     \* the description of each object's shape
    place,    \* the description at each shape address
    young,    \* the prototypes still in the nursery
    ghost,    \* the shape word left at a prototype's vacated nursery address
    gc,       \* the major collection under way
    heapOps,  \* mutations so far
    ways, mega, gchain, accessor,                     \* get-side rows
    setWay, megaSet, trans, initRow, setAdd, initAdd, \* set-side rows
    rowsHoldNursery,                                  \* transRowsHoldNursery
    cell,     \* the proto-proof cell of the body
    pend,     \* the miss helper in its engine call
    amiss     \* the accesses that did not do what the engine would have done

heapVars == <<form, place, young, ghost, gc, heapOps>>
getRows == <<ways, mega, gchain, accessor>>
setRows == <<setWay, megaSet, trans, initRow, setAdd, initAdd, rowsHoldNursery>>
propVars == <<fam, heapVars, getRows, setRows, cell, pend, amiss>>

X == "x"
Null == "null"
Protos == {P, Q}
Objs == Recv \cup Protos
Families == {"get", "set", "init", "accessor"}
Keys == {"id", "ptr"}  \* a property row's atom id, an element row's atomPtr | 1
Kinds == {"data", "readonly", "getset1", "getset2"}
Accessors == {"getset1", "getset2"}

(****************************** shapes ******************************)
Free == [proto |-> "free", props |-> <<>>, inv |-> FALSE, uid |-> 0]
Addrs == 1..NAddrs

SlotOf(f, n) == IF \E i \in DOMAIN f.props : f.props[i].n = n
                THEN CHOOSE i \in DOMAIN f.props : f.props[i].n = n ELSE 0
AddTo(f, n, k) == [f EXCEPT !.props = Append(@, [n |-> n, k |-> k])]

\* The shape word of an object.
NightObjectShape(o) == CHOOSE a \in Addrs : place[a] = form[o]

\* The prototypes above an object, nearest first, and the nearest object,
\* itself included, that has a name.
Up(F, o) == IF o = Null THEN Null ELSE F[o].proto
Above(F, o) ==
    LET p == Up(F, o)
        q == Up(F, p)
    IN  IF p = Null THEN <<>> ELSE IF q = Null THEN <<p>> ELSE <<p, q>>
Holds(F, o, n) == o # Null /\ SlotOf(F[o], n) # 0
HolderIn(F, o, n) ==
    LET p == Up(F, o)
        q == Up(F, p)
    IN  IF Holds(F, o, n) THEN o ELSE IF Holds(F, p, n) THEN p ELSE IF Holds(F, q, n) THEN q ELSE Null
KindIn(f) == f.props[SlotOf(f, X)].k

(* A description without an address takes the lowest free one; one that has  *)
(* an address keeps it: the shape tree is memoized.                          *)
Homes(pl, f) ==
    IF \E a \in Addrs : pl[a] = f THEN {pl}
    ELSE {[pl EXCEPT ![a] = f] : a \in {b \in Addrs : pl[b] = Free /\ \A c \in 1..(b - 1) : pl[c] # Free}}
\* Descriptions F2 replace form, of o and perhaps of Q; an address used again
\* is not swept.
Reform(F2, o) ==
    /\ form' = F2
    /\ \E pl \in Homes(place, F2[o]) : place' \in Homes(pl, F2[Q])
    /\ gc' = [gc EXCEPT !.doomed = {a \in @ : place[a] \notin {F2[x] : x \in Objs}}]

\* A pointer to a prototype, and the shape word read through it: the nursery
\* address keeps its old word once the object has moved.
PtrTo(o) == [obj |-> o, young |-> o \in young]
ShapeAt(ptr) == IF ptr.young = (ptr.obj \in young) THEN NightObjectShape(ptr.obj) ELSE ghost[ptr.obj]

(************************* what the engine does *************************)
Nothing == [do |-> "undefined", obj |-> Null, slot |-> 0]
Load(o, i) == [do |-> "load", obj |-> o, slot |-> i]
Store(o, i) == [do |-> "store", obj |-> o, slot |-> i]
Call(fn) == [do |-> "call", obj |-> fn, slot |-> 0]
Fails == [do |-> "fail", obj |-> Null, slot |-> 0]
Adds(o, i) == [do |-> "add", obj |-> o, slot |-> i]

HolderOf(o) == HolderIn(form, o, X)
KindAt(o) == KindIn(form[o])

EngineGet(o) ==
    LET h == HolderOf(o) IN
    IF h = Null THEN Nothing
    ELSE IF KindAt(h) \in Accessors THEN Call(KindAt(h)) ELSE Load(h, SlotOf(form[h], X))
EngineDefine(o) ==
    IF SlotOf(form[o], X) # 0 THEN Store(o, SlotOf(form[o], X)) ELSE Adds(o, Len(form[o].props) + 1)
EngineSet(o) ==
    LET h == HolderOf(o) IN
    IF h = Null THEN EngineDefine(o)
    ELSE IF KindAt(h) \in Accessors THEN Call(KindAt(h))
    ELSE IF KindAt(h) = "readonly" THEN Fails ELSE EngineDefine(o)

(******************************* rows *******************************)
NoGet == [shape |-> 0, key |-> "id", holder |-> Null, holderShape |-> 0, slot |-> 0]
NoChain == [shape |-> 0, ptrs |-> <<>>, shapes |-> <<>>, slot |-> 0]
NoAccessor == [shape |-> 0, kind |-> "get", holder |-> Null, holderShape |-> 0, callee |-> Null]
NoSet == [shape |-> 0, key |-> "id", slot |-> 0]
NoTrans == [old |-> 0, new |-> 0, slot |-> 0, ptrs |-> <<>>, shapes |-> <<>>, current |-> FALSE]
NoCell == [recv |-> Null, words |-> <<>>]
NoPend == [op |-> "none", o |-> Null, key |-> "id", user |-> FALSE, gc |-> FALSE, ran |-> FALSE,
           before |-> 0, span |-> 0, want |-> Nothing]

\* A transition row, of the table's present generation or not.
Marked(r, current) ==
    [old |-> r.old, new |-> r.new, slot |-> r.slot, ptrs |-> r.ptrs, shapes |-> r.shapes, current |-> current]

Poly == -1   \* IC_POLY_SENTINEL

\* An access served by `by` did `got`; the engine would have done `want`.
Seen(by, got, want) ==
    amiss' = IF got = want THEN amiss ELSE amiss \cup {[by |-> by, got |-> got, want |-> want]}
\* A miss answered kMissClean, kMissOk.
Answered(clean) ==
    amiss' = IF clean /\ (pend.ran \/ pend.gc)
             THEN amiss \cup {[by |-> "clean", got |-> pend.want, want |-> pend.want]} ELSE amiss

Fixed(i) == i > 0 /\ i <= NFixed
Idle == pend = NoPend

(**************************** get: the probes ****************************)
MatchingWays(o) == {w \in 1..Ways : ways[w].shape = NightObjectShape(o)}
FirstWay(w, o) == \A v \in MatchingWays(o) : w <= v
\* The holder tail: the receiver or the cached holder, re-checked by its shape.
RowBase(r, o) == IF r.holder = Null THEN o ELSE r.holder
ic_hit_tail(r, o) == NightObjectShape(RowBase(r, o)) = r.holderShape
RowLoad(r, o) == Load(RowBase(r, o), r.slot)
\* The own fixed-slot way loads with no second check.
WayServes(w, o) ==
    \/ ways[w].holder = Null /\ Fixed(ways[w].slot)
    \/ ic_hit_tail(ways[w], o)

\* The inline way chain of a read.
GetWay(o) ==
    /\ fam = "get"
    /\ \E w \in MatchingWays(o) :
       /\ FirstWay(w, o) /\ WayServes(w, o)
       /\ Seen("way", RowLoad(ways[w], o), EngineGet(o))
    /\ UNCHANGED <<fam, heapVars, getRows, setRows, cell, pend>>

MegaHit(o, key) == mega.shape = NightObjectShape(o) /\ mega.key = key
MegaServes(o, key) == MegaHit(o, key) /\ ic_hit_tail(mega, o)
\* night_ic_get behind the ways: only a site whose ways are full probes the table.
PastWays(o) == MatchingWays(o) = {} /\ ways[Ways].shape # 0
GetMega(o) ==
    /\ fam = "get"
    /\ PastWays(o)
    /\ MegaServes(o, "id")
    /\ Seen("mega", RowLoad(mega, o), EngineGet(o))
    /\ UNCHANGED <<fam, heapVars, getRows, setRows, cell, pend>>

\* night_elem_mega_get: the same table under the element key.
ElemMegaGet(o) ==
    /\ fam = "get"
    /\ MegaServes(o, "ptr")
    /\ Seen("elem_mega", RowLoad(mega, o), EngineGet(o))
    /\ UNCHANGED <<fam, heapVars, getRows, setRows, cell, pend>>

\* The read is not served inline, so the miss helper runs.
GetMisses(o) ==
    /\ fam \in {"get", "accessor"}
    /\ \A w \in MatchingWays(o) : FirstWay(w, o) => ~WayServes(w, o)
    /\ ~(PastWays(o) /\ MegaServes(o, "id"))

NoteGetWay(r) ==
    LET same == {w \in 1..Ways : ways[w].shape = r.shape}
        open == {w \in 1..Ways : ways[w].shape = 0}
    IN  IF same # {} THEN [ways EXCEPT ![Min(same)] = r]
        ELSE IF open # {} THEN [ways EXCEPT ![Min(open)] = r]
        ELSE ways

\* A probe of the tables that allocates nothing and runs no user code.
LeafMega(o) ==
    /\ GetMisses(o)
    /\ MegaServes(o, "id")
    /\ ways' = NoteGetWay(mega)
    /\ Seen("leaf_mega", RowLoad(mega, o), EngineGet(o))
    /\ UNCHANGED <<fam, heapVars, mega, gchain, accessor, setRows, cell, pend>>

ChainHolds(o) ==
    /\ gchain.shape = NightObjectShape(o)
    /\ \A h \in DOMAIN gchain.ptrs : NightObjectShape(gchain.ptrs[h]) = gchain.shapes[h]
ChainServes(o) == IF gchain.slot = 0 THEN Nothing ELSE Load(Last(gchain.ptrs), gchain.slot)
LeafChain(o) ==
    /\ GetMisses(o)
    /\ ~MegaServes(o, "id")
    /\ ChainHolds(o)
    /\ Seen("leaf_chain", ChainServes(o), EngineGet(o))
    /\ UNCHANGED <<fam, heapVars, getRows, setRows, cell, pend>>

(************************ get: the miss and its fills ************************)
\* The generic get: a getter is user code; the engine may collect.
GetMiss(o) ==
    /\ GetMisses(o)
    /\ ~MegaServes(o, "id")
    /\ ~ChainHolds(o)
    /\ pend' = [NoPend EXCEPT !.op = "get", !.o = o, !.user = EngineGet(o).do = "call", !.want = EngineGet(o)]
    /\ UNCHANGED amiss
    /\ cell' = NoCell
    /\ UNCHANGED <<fam, heapVars, getRows, setRows>>

\* The element read of a string key that misses its table row.
ElemMiss(o) ==
    /\ fam = "get"
    /\ ~MegaServes(o, "ptr")
    /\ pend' = [NoPend EXCEPT !.op = "get", !.o = o, !.key = "ptr", !.user = EngineGet(o).do = "call", !.want = EngineGet(o)]
    /\ UNCHANGED amiss
    /\ cell' = NoCell
    /\ UNCHANGED <<fam, heapVars, getRows, setRows>>

GetRow(o, h) ==
    [shape |-> NightObjectShape(o), key |-> pend.key, holder |-> IF h = o THEN Null ELSE h,
     holderShape |-> NightObjectShape(h), slot |-> SlotOf(form[h], X)]

\* The prototypes up to the holder, or all of them.
Hops(o) ==
    LET up == Above(form, o)
    IN  IF up # <<>> /\ HolderOf(o) = up[1] THEN <<up[1]>> ELSE up

\* The chain up to the holder, teleporting valid on every hop: the row's
\* receiver and holder words then notice a shadowing add on any hop between.
NightPopulateInlineGetIC(o) ==
    LET h == HolderOf(o) IN
    /\ h # Null
    /\ KindAt(h) \notin Accessors
    /\ h # o => h \notin young /\ \A i \in DOMAIN Hops(o) : ~form[Hops(o)[i]].inv

\* The hops whose live shapes the guarded chain records.
NightPopulateGuardedChain(o) ==
    LET h == HolderOf(o) IN
    /\ h # o
    /\ h # Null => KindAt(h) \notin Accessors
    /\ Hops(o) # <<>>
    /\ Len(Hops(o)) <= RowHops
    /\ \A i \in DOMAIN Hops(o) : Hops(o)[i] \notin young
ChainRow(o) ==
    [shape |-> NightObjectShape(o), ptrs |-> Hops(o),
     shapes |-> [i \in DOMAIN Hops(o) |-> NightObjectShape(Hops(o)[i])],
     slot |-> IF HolderOf(o) = Null THEN 0 ELSE SlotOf(form[HolderOf(o)], X)]

\* A scripted accessor on the chain, with no nursery cell to cache.
NightPrimeAccessor(o) ==
    LET h == HolderOf(o) IN
    /\ h # Null
    /\ KindAt(h) \in Accessors
    /\ h \notin young
AccessorRow(o, kind) ==
    [shape |-> NightObjectShape(o), kind |-> kind, holder |-> HolderOf(o),
     holderShape |-> NightObjectShape(HolderOf(o)), callee |-> KindAt(HolderOf(o))]

\* No collection since the helper was entered (MissQuiet).
Quiet == ~pend.gc

\* The tail of the get miss: fill the way and the table, or the guarded
\* chain, or the accessor row, from the heap as the engine left it.
GetFill ==
    /\ pend.op = "get"
    /\ LET o == pend.o
           slotRow == NightPopulateInlineGetIC(o)
           chainRow == ~slotRow /\ NightPopulateGuardedChain(o) /\ pend.key = "id"
       IN
       /\ ways' = IF slotRow /\ pend.key = "id" THEN NoteGetWay(GetRow(o, HolderOf(o))) ELSE ways
       /\ mega' = IF slotRow THEN GetRow(o, HolderOf(o)) ELSE mega
       /\ gchain' = IF chainRow THEN ChainRow(o) ELSE gchain
       /\ accessor' = IF ~slotRow /\ ~chainRow /\ pend.key = "id" /\ NightPrimeAccessor(o)
                      THEN AccessorRow(o, "get") ELSE accessor
       /\ Answered((slotRow \/ chainRow) /\ pend.key = "id" /\ Quiet)
    /\ pend' = NoPend
    /\ UNCHANGED <<fam, heapVars, setRows, cell>>

(************************* the accessor arm *************************)

AccessorHit(o, kind) ==
    /\ accessor.shape = NightObjectShape(o)
    /\ accessor.kind = kind
    /\ NightObjectShape(accessor.holder) = accessor.holderShape
\* A matched row calls the cached function.
AccessorCall(o, kind) ==
    /\ fam = "accessor"
    /\ AccessorHit(o, kind)
    /\ Seen("accessor", Call(accessor.callee), IF kind = "get" THEN EngineGet(o) ELSE EngineSet(o))
    /\ cell' = NoCell
    /\ UNCHANGED <<fam, heapVars, getRows, setRows, pend>>

(*************************** set: the probes ***************************)
TransMatches(o) == trans.old = NightObjectShape(o)
\* The first hops against their live shape words, the deeper ones empty.
TransGuards ==
    /\ Fixed(trans.slot)
    /\ \A h \in DOMAIN trans.ptrs : h <= InlineHops => ShapeAt(trans.ptrs[h]) = trans.shapes[h]
    /\ Len(trans.ptrs) <= InlineHops
\* The words of the row that the proof cell remembers.
TransWords(r) == [h \in 1..InlineHops |-> IF h \in DOMAIN r.shapes THEN r.shapes[h] ELSE 0]
CellProves(o) == o = This /\ cell.recv = o /\ cell.words = TransWords(trans) /\ Fixed(trans.slot)

\* Installing a row's new shape: what is described there, and the slot written.
Replayed(r, o) == IF place[r.new] = AddTo(form[o], X, "data") THEN Adds(o, r.slot) ELSE Adds(Null, r.slot)
Install(r, o) == Reform([form EXCEPT ![o] = place[r.new]], o)

\* The add-transition replay, by the cell's proof or by the guards; `first` is
\* a predicted add of a constructor, which tests the row ahead of the way.
SetTransition(o, first) ==
    /\ fam = "set"
    /\ first => o = This
    /\ ~first => setWay.shape \notin {NightObjectShape(o), Poly}
    /\ TransMatches(o)
    /\ CellProves(o) \/ TransGuards
    /\ Seen(IF CellProves(o) THEN "proven" ELSE "transition", Replayed(trans, o), EngineSet(o))
    /\ Install(trans, o)
    /\ cell' = IF o # This THEN NoCell
               ELSE IF CellProves(o) THEN cell
               ELSE [recv |-> o, words |-> TransWords(trans)]
    /\ UNCHANGED <<fam, young, ghost, heapOps, getRows, setRows, pend>>

\* The replay of another name's add on `this`, at its own site: guards alike,
\* so it leaves the same proof.
SetOther ==
    /\ fam = "set"
    /\ form[This].props = <<>>
    /\ Fixed(Len(form[This].props) + 1)
    /\ Len(Above(form, This)) <= InlineHops
    /\ Reform([form EXCEPT ![This] = AddTo(@, OtherName, "data")], This)
    /\ cell' = [recv |-> This, words |-> TransWords([shapes |-> [h \in DOMAIN Above(form, This) |-> NightObjectShape(Above(form, This)[h])]])]
    /\ UNCHANGED <<fam, young, ghost, heapOps, getRows, setRows, pend, amiss>>

\* Way 0: a barriered store into the receiver's own slot.
SetWayHit(o, first) ==
    /\ fam = "set"
    /\ first => ~TransMatches(o)
    /\ setWay.shape = NightObjectShape(o)
    /\ Seen("set_way", Store(o, setWay.slot), EngineSet(o))
    /\ UNCHANGED <<fam, heapVars, getRows, setRows, cell, pend>>

\* night_ic_set_cold on a poly site, night_elem_mega_set_probe.
SetMega(o, key) ==
    /\ fam = "set"
    /\ key = "id" => setWay.shape = Poly
    /\ megaSet.shape = NightObjectShape(o)
    /\ megaSet.key = key
    /\ Seen("set_mega", Store(o, megaSet.slot), EngineSet(o))
    /\ UNCHANGED <<fam, heapVars, getRows, setRows, cell, pend>>

\* Nothing inline served the store.
SetMisses(o) ==
    /\ setWay.shape # NightObjectShape(o)
    /\ setWay.shape = Poly => ~(megaSet.shape = NightObjectShape(o) /\ megaSet.key = "id")
    /\ (setWay.shape # Poly /\ TransMatches(o)) => ~TransGuards

(**************************** set: the miss ****************************)
\* The replay in the helper: every recorded hop, the chain no longer than them.
NightTryAddPropTransition(r, o) ==
    LET up == Above(form, o) IN
    /\ r.old = NightObjectShape(o)
    /\ Len(up) = Len(r.ptrs)
    /\ \A h \in DOMAIN up : r.ptrs[h] = PtrTo(up[h]) /\ NightObjectShape(up[h]) = r.shapes[h]

noteSetShape(r) ==
    IF setWay.shape \in {0, r.shape} THEN r
    ELSE [NoSet EXCEPT !.shape = Poly]

HelperTransition(o) ==
    /\ fam = "set"
    /\ SetMisses(o)
    /\ trans.old # 0
    /\ NightTryAddPropTransition(trans, o)
    /\ Seen("helper_row", Replayed(trans, o), EngineSet(o))
    /\ Install(trans, o)
    /\ cell' = NoCell
    /\ UNCHANGED <<fam, young, ghost, heapOps, getRows, setRows, pend>>

\* The global table replays and seeds the site's row.
HelperSetAdd(o) ==
    /\ fam = "set"
    /\ SetMisses(o)
    /\ ~(trans.old # 0 /\ NightTryAddPropTransition(trans, o))
    /\ setAdd.current
    /\ NightTryAddPropTransition(setAdd, o)
    /\ Seen("set_add", Replayed(setAdd, o), EngineSet(o))
    /\ Install(setAdd, o)
    /\ trans' = Marked(setAdd, FALSE)
    /\ cell' = NoCell
    /\ UNCHANGED <<fam, young, ghost, heapOps, getRows, setWay, megaSet, initRow, setAdd, initAdd, rowsHoldNursery, pend>>

HelperReplays(o) ==
    \/ trans.old # 0 /\ NightTryAddPropTransition(trans, o)
    \/ setAdd.current /\ NightTryAddPropTransition(setAdd, o)

HelperMegaSet(o) ==
    /\ fam = "set"
    /\ SetMisses(o)
    /\ ~HelperReplays(o)
    /\ megaSet.shape = NightObjectShape(o)
    /\ megaSet.key = "id"
    /\ Seen("helper_mega", Store(o, megaSet.slot), EngineSet(o))
    /\ setWay' = noteSetShape(megaSet)
    /\ UNCHANGED <<fam, heapVars, getRows, megaSet, trans, initRow, setAdd, initAdd, rowsHoldNursery, cell, pend>>

\* The generic set begins: the shape word and slot span are read before it.
SetMiss(o) ==
    /\ fam \in {"set", "accessor"}
    /\ SetMisses(o)
    /\ ~HelperReplays(o)
    /\ ~(megaSet.shape = NightObjectShape(o) /\ megaSet.key = "id")
    /\ pend' = [NoPend EXCEPT !.op = "set", !.o = o, !.user = EngineSet(o).do = "call", !.want = EngineSet(o),
                              !.before = NightObjectShape(o), !.span = Len(form[o].props)]
    /\ UNCHANGED amiss
    /\ cell' = NoCell
    /\ UNCHANGED <<fam, heapVars, getRows, setRows>>

(* Whether the add can be replayed, F being the heap after it: exactly one   *)
(* slot was appended, it is X, a plain one, and the receiver is not watched. *)
NightPopulateAddTransition(F, o, span) ==
    /\ o \notin Protos
    /\ Len(F[o].props) = span + 1
    /\ Last(F[o].props) = [n |-> X, k |-> "data"]
    /\ Len(Above(F, o)) <= RowHops
TransRow(pl, F, o, before) ==
    LET up == Above(F, o)
        Addr(f) == CHOOSE a \in Addrs : pl[a] = f
    IN  [old |-> before, new |-> Addr(F[o]), slot |-> Len(F[o].props), ptrs |-> [h \in DOMAIN up |-> PtrTo(up[h])],
         shapes |-> [h \in DOMAIN up |-> Addr(F[up[h]])], current |-> FALSE]

\* The rows left by a set after which the heap is F and o's shape word w: an
\* add leaves its transition, a store its slot, a setter on the chain its row.
FillSet(F, o, w, row) ==
    LET reshaped == w # pend.before
        adds == reshaped /\ NightPopulateAddTransition(F, o, pend.span)
        own == SlotOf(F[o], X)
        stores == ~reshaped /\ own # 0 /\ F[o].props[own].k = "data"
        srow == [shape |-> pend.before, key |-> "id", slot |-> own]
    IN
    /\ trans' = IF adds THEN row ELSE trans
    /\ setAdd' = IF adds THEN Marked(row, TRUE) ELSE setAdd
    /\ rowsHoldNursery' = (rowsHoldNursery \/ (adds /\ \E h \in DOMAIN row.ptrs : row.ptrs[h].young))
    /\ setWay' = IF stores THEN noteSetShape(srow) ELSE setWay
    /\ megaSet' = IF stores THEN srow ELSE megaSet
    /\ accessor' = IF ~reshaped /\ own = 0 /\ NightPrimeAccessor(o) THEN AccessorRow(o, "set") ELSE accessor
    /\ Answered((adds \/ stores) /\ Quiet)

\* The generic set ends.
SetFill ==
    /\ pend.op = "set"
    /\ LET o == pend.o
           F == IF pend.want.do = "add" THEN [form EXCEPT ![o] = AddTo(@, X, "data")] ELSE form
       IN
       /\ Reform(F, o)
       /\ FillSet(F, o, CHOOSE a \in Addrs : place'[a] = F[o], TransRow(place', F, o, pend.before))
    /\ pend' = NoPend
    /\ UNCHANGED <<fam, young, ghost, heapOps, ways, mega, gchain, initRow, initAdd, cell>>

(********************** definitions on literals **********************)
InitReplays(o) == initRow.old = NightObjectShape(o) /\ Fixed(initRow.slot)
\* The inline replay of a literal's definition: no prototype is consulted.
InitInline(o) ==
    /\ fam = "init"
    /\ InitReplays(o)
    /\ Seen("init", Replayed(initRow, o), EngineDefine(o))
    /\ Install(initRow, o)
    /\ UNCHANGED <<fam, young, ghost, heapOps, getRows, setRows, cell, pend>>

InitTableHit(o) == initAdd.current /\ initAdd.old = NightObjectShape(o)
InitHelperReplay(o) ==
    /\ fam = "init"
    /\ ~InitReplays(o)
    /\ InitTableHit(o)
    /\ Seen("init_add", Replayed(initAdd, o), EngineDefine(o))
    /\ Install(initAdd, o)
    /\ initRow' = Marked(initAdd, FALSE)
    /\ cell' = NoCell
    /\ UNCHANGED <<fam, young, ghost, heapOps, getRows, setWay, megaSet, trans, setAdd, initAdd, rowsHoldNursery, pend>>

\* The generic define, and its rows: proto guards left empty.
InitMiss(o) ==
    /\ fam = "init"
    /\ ~InitReplays(o)
    /\ ~InitTableHit(o)
    /\ LET F == IF EngineDefine(o).do = "add" THEN [form EXCEPT ![o] = AddTo(@, X, "data")] ELSE form IN
       /\ Reform(F, o)
       /\ LET row == [TransRow(place', F, o, NightObjectShape(o)) EXCEPT !.ptrs = <<>>, !.shapes = <<>>]
              adds == F # form /\ NightPopulateAddTransition(F, o, Len(form[o].props))
          IN
          /\ initRow' = IF adds THEN row ELSE initRow
          /\ initAdd' = IF adds THEN Marked(row, TRUE) ELSE initAdd
    /\ UNCHANGED amiss
    /\ cell' = NoCell
    /\ UNCHANGED <<fam, young, ghost, heapOps, getRows, setWay, megaSet, trans, setAdd, rowsHoldNursery, pend>>

(******************** the program and the collector ********************)
\* Mutations between accesses, or by the accessor a helper is running.
Mutates == (Idle \/ pend.user) /\ heapOps < MaxHeapOps
Kept == UNCHANGED <<fam, young, ghost, getRows, setRows>>

\* An accessor that keeps serving the property it was called for.
StillServes(F) ==
    pend.user => \/ SelfRedefine
                 \/ LET h == HolderIn(F, pend.o, X) IN h # Null /\ KindIn(F[h]) \in Accessors

Mutate(F, o) ==
    /\ Mutates
    /\ StillServes(F)
    /\ Reform(F, o)
    /\ heapOps' = heapOps + 1
    /\ cell' = NoCell
    /\ pend' = [pend EXCEPT !.ran = pend.user]
    /\ UNCHANGED amiss
    /\ Kept

(* The engine reshapes the nearest holder above a prototype that gains a     *)
(* name, once: the flag it leaves makes later shadowing adds silent.         *)
Shadowed(F, o, n) ==
    LET h == HolderIn(F, Up(F, o), n)
    IN  IF o \in Protos /\ h # Null THEN [F EXCEPT ![h].inv = TRUE] ELSE F

ChainSettled == (fam = "accessor" /\ ~Reshadow) => \A q \in Protos : ~form[q].inv

\* A dictionary object has a new shape after every change.
Renewed(F, o) == IF F[o].uid = 0 THEN F ELSE [F EXCEPT ![o].uid = heapOps + 1]

AddProp(o, n, k) ==
    /\ SlotOf(form[o], n) = 0
    /\ o \in Protos => ChainSettled
    /\ Mutate(Renewed([Shadowed(form, o, n) EXCEPT ![o] = AddTo(@, n, k)], o), o)

ChangeProp(o, k) ==
    /\ SlotOf(form[o], X) # 0
    /\ KindAt(o) # k
    /\ Mutate(Renewed([form EXCEPT ![o].props = [i \in DOMAIN @ |-> IF @[i].n = X THEN [n |-> X, k |-> k] ELSE @[i]]], o), o)

RemoveProp(o) ==
    /\ SlotOf(form[o], X) # 0
    /\ Mutate([form EXCEPT ![o].props = RemoveAt(@, SlotOf(form[o], X)), ![o].uid = heapOps + 1], o)

\* P leaves its chain: what was above it is reshaped.
MutateProto ==
    /\ form[P].proto = Q
    /\ ChainSettled
    /\ Mutate([form EXCEPT ![P].proto = Null, ![Q].inv = TRUE], P)

\* A receiver replaced by a new, empty object.
NewObject(o) ==
    /\ form[o].props # <<>>
    /\ Mutate([form EXCEPT ![o].props = <<>>], o)

\* Another (shape, atom) pair takes the direct-mapped entries.
Displace ==
    /\ Idle
    /\ mega' = NoGet /\ gchain' = NoChain /\ accessor' = NoAccessor
    /\ megaSet' = NoSet /\ setAdd' = NoTrans /\ initAdd' = NoTrans
    /\ UNCHANGED amiss
    /\ UNCHANGED <<fam, heapVars, ways, setWay, trans, initRow, rowsHoldNursery, cell, pend>>

\* NightPurgeMovableCaches: every row that holds an address; the tables with a
\* generation lose it.
NightPurgeMovableCaches ==
    /\ ways' = [w \in 1..Ways |-> NoGet]
    /\ mega' = NoGet /\ gchain' = NoChain /\ accessor' = NoAccessor
    /\ setWay' = NoSet /\ megaSet' = NoSet /\ trans' = NoTrans /\ initRow' = NoTrans
    /\ setAdd' = Marked(setAdd, FALSE)
    /\ initAdd' = Marked(initAdd, FALSE)
    /\ cell' = NoCell
    /\ rowsHoldNursery' = rowsHoldNursery

Collects == pend.op = "set" => GcInSet
LiveAddrs == {a \in Addrs : \E o \in Objs : place[a] = form[o]}
\* The live shapes slide to the lowest addresses.
Rank(a) == Cardinality({b \in LiveAddrs : b <= a})
Compacted ==
    [a \in Addrs |-> IF \E b \in LiveAddrs : Rank(b) = a
                      THEN place[CHOOSE b \in LiveAddrs : Rank(b) = a] ELSE Free]
Swept == [a \in Addrs |-> IF a \in gc.doomed THEN Free ELSE place[a]]

\* An incremental major collection: the shapes dead at its start are swept in
\* a slice; only a shrinking one moves the live ones, purging at the slice end.
GcBegin(shrink) ==
    /\ Collects
    /\ ~gc.on
    /\ gc.cycles < MaxCycles
    /\ gc' = [on |-> TRUE, shrink |-> shrink, cycles |-> gc.cycles + 1, doomed |-> {a \in Addrs : place[a] # Free} \ LiveAddrs]
    /\ NightPurgeMovableCaches
    /\ pend' = [pend EXCEPT !.gc = pend # NoPend]
    /\ UNCHANGED amiss
    /\ UNCHANGED <<fam, form, place, young, ghost, heapOps>>

GcSlice ==
    /\ Collects
    /\ gc.on
    /\ place' = IF gc.shrink THEN Compacted ELSE Swept
    /\ gc' = [gc EXCEPT !.doomed = {}]
    /\ pend' = [pend EXCEPT !.gc = pend # NoPend]
    /\ UNCHANGED amiss
    /\ IF gc.shrink THEN NightPurgeMovableCaches ELSE UNCHANGED <<getRows, setRows>> /\ cell' = NoCell
    /\ UNCHANGED <<fam, form, young, ghost, heapOps>>

GcEnd ==
    /\ Collects
    /\ gc.on
    /\ place' = IF gc.shrink THEN Compacted ELSE Swept
    /\ gc' = [gc EXCEPT !.on = FALSE, !.shrink = FALSE, !.doomed = {}]
    /\ NightPurgeMovableCaches
    /\ pend' = [pend EXCEPT !.gc = pend # NoPend]
    /\ UNCHANGED amiss
    /\ UNCHANGED <<fam, form, young, ghost, heapOps>>

\* Mutant: the rows outlive the nursery addresses they hold.
TenureShapesKeepsRows ==
    /\ young # {}
    /\ young' = {}
    /\ ghost' = [o \in Protos |-> IF o \in young THEN NightObjectShape(o) ELSE ghost[o]]
    /\ cell' = NoCell
    /\ pend' = [pend EXCEPT !.gc = pend # NoPend]
    /\ UNCHANGED <<fam, form, place, gc, heapOps, getRows, setRows, amiss>>

\* A minor collection tenures the prototypes; the rows that hold a nursery
\* prototype are dropped with it.
TenureShapes ==
    /\ young # {}
    /\ young' = {}
    /\ ghost' = [o \in Protos |-> IF o \in young THEN NightObjectShape(o) ELSE ghost[o]]
    /\ trans' = IF rowsHoldNursery THEN NoTrans ELSE trans
    /\ initRow' = IF rowsHoldNursery THEN NoTrans ELSE initRow
    /\ setAdd' = IF rowsHoldNursery THEN NoTrans ELSE setAdd
    /\ rowsHoldNursery' = FALSE
    /\ cell' = NoCell
    /\ pend' = [pend EXCEPT !.gc = pend # NoPend]
    /\ UNCHANGED amiss
    /\ UNCHANGED <<fam, form, place, gc, heapOps, getRows, setWay, megaSet, initAdd>>

(****************************** the system ******************************)
\* Q may hold the name already, and have been shadowed before; P may have no
\* prototype.
StartForm(qk, inv, cut) ==
    [o \in Objs |-> [proto |-> IF o = Q \/ (o = P /\ cut) THEN Null ELSE IF o = P THEN Q ELSE P,
                    props |-> IF o = Q /\ qk # "none" THEN <<[n |-> X, k |-> qk]>> ELSE <<>>,
                    inv |-> o = Q /\ inv, uid |-> 0]]

PropInit ==
    /\ fam \in Families
    /\ \E qk \in StartKinds[fam], inv, cut \in BOOLEAN :
         /\ inv => qk # "none"
         /\ cut => fam = "set"
         /\ form = StartForm(qk, inv, cut)
    /\ \E p1 \in Homes([a \in Addrs |-> Free], form[P]) :
       \E p2 \in Homes(p1, form[Q]) : place \in Homes(p2, form[This])
    /\ young \in {{}, Protos}
    /\ ghost = [o \in Protos |-> 0]
    /\ gc = [on |-> FALSE, shrink |-> FALSE, doomed |-> {}, cycles |-> 0]
    /\ heapOps = 0
    /\ ways = [w \in 1..Ways |-> NoGet] /\ mega = NoGet /\ gchain = NoChain /\ accessor = NoAccessor
    /\ setWay = NoSet /\ megaSet = NoSet
    /\ trans = NoTrans /\ initRow = NoTrans /\ setAdd = NoTrans /\ initAdd = NoTrans
    /\ rowsHoldNursery = FALSE
    /\ cell = NoCell
    /\ pend = NoPend
    /\ amiss = {}

\* One access at a time; what an accessor's own accesses fill is what they
\* would fill between two accesses.
Accesses ==
    \/ Idle /\ \E o \in Recv :
                       \/ GetWay(o) \/ GetMega(o) \/ ElemMegaGet(o) \/ LeafMega(o) \/ LeafChain(o)
                       \/ GetMiss(o) \/ ElemMiss(o)
                       \/ \E kind \in {"get", "set"} : AccessorCall(o, kind)
                       \/ \E first \in BOOLEAN : SetTransition(o, first) \/ SetWayHit(o, first)
                       \/ \E key \in Keys : SetMega(o, key)
                       \/ HelperTransition(o) \/ HelperSetAdd(o) \/ HelperMegaSet(o) \/ SetMiss(o)
                       \/ InitInline(o) \/ InitHelperReplay(o) \/ InitMiss(o)
    \/ Idle /\ SetOther
    \/ GetFill \/ SetFill
Program ==
    \/ \E o \in Recv, n \in OwnNames[fam] : AddProp(o, n, "data")
    \/ \E o \in Protos, k \in ProtoKinds[fam] : AddProp(o, X, k) \/ ChangeProp(o, k)
    \/ \E o \in Protos : RemoveProp(o)
    \/ \E o \in Recv : NewObject(o)
    \/ MutateProto
    \/ Displace
Collector ==
    \/ \E shrink \in BOOLEAN : GcBegin(shrink)
    \/ GcSlice \/ GcEnd \/ TenureShapes
PropNext == Accesses \/ Program \/ Collector
PropSpec == PropInit /\ [][PropNext]_propVars

(***************************** properties *****************************)

\* Nothing that `servers` served went amiss.
NoneAmiss(servers) == \A r \in amiss : r.by \notin servers

(* A read served by a way, the table, an element row or the guarded chain    *)
(* yields the slot the engine's lookup would find on the heap of that        *)
(* moment, whatever was shadowed, removed, swept or moved since the fill.    *)
GetAgrees == NoneAmiss({"way", "mega", "elem_mega", "leaf_mega", "leaf_chain"})

(* A write served by a way, the table or an add-transition replay does what  *)
(* the generic set would: no setter or read-only property of the chain is    *)
(* passed over, and the new slot is the one the shape describes.             *)
SetAgrees ==
    NoneAmiss({"set_way", "set_mega", "helper_mega", "transition", "proven", "helper_row", "set_add"})

(* A literal's definition replayed from its row or from the define table     *)
(* adds the property the engine's define would, the chain notwithstanding.   *)
InitAgrees == NoneAmiss({"init", "init_add"})

(* The accessor arm calls the function the engine would call.                *)
AccessorAgrees == NoneAmiss({"accessor"})

(* A miss answered clean ran no user code and met no collection, so the      *)
(* facts the body held before the call still hold.                           *)
CleanIsQuiet == NoneAmiss({"clean"})

(* Every inline row does what the engine would do at that moment.            *)
PropAgrees == GetAgrees /\ SetAgrees /\ InitAgrees /\ AccessorAgrees /\ CleanIsQuiet
=============================================================================
