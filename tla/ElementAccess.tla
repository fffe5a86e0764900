---------------------------- MODULE ElementAccess ----------------------------
(* Compiled element reads and writes: the inline dense, typed-array,          *)
(* arguments and string arms of `o[i]`, the call-free append behind the       *)
(* append-row cache, the Array push, pop and `length` arms, the literal fill, *)
(* and the runtime helpers behind them.                                       *)
(*                                                                            *)
(* Two objects are followed through one local variable (the slot), with two   *)
(* prototypes above every plain receiver.  A shape is its description; a row  *)
(* holds its address, which the compacting collector may give to another      *)
(* shape.  Numbers are counted in halves, a machine word has W bits and a     *)
(* byte element B bits.  Every arm is compared with what the engine's own     *)
(* element semantics does on the same heap.                                   *)
EXTENDS Integers, Sequences, FiniteSets, TLC

CONSTANTS
    Sites,        \* the compiled access sites
    Pairs,        \* the classes of the two objects, chosen at the start
    W, B,         \* bits of an int32 word and of a byte element
    StoreNumbers, \* the numbers stored
    MaxEls,       \* bound on the dense elements of an object
    MaxElemOps,   \* bound on the program's heap mutations
    StaticStores  \* whether a store predicted to hit a typed array may have
                  \* a value whose representation is known when compiling

\* An int32 holds 1; the powers are positive, which provers do not know of a variable exponent.
ASSUME WidthsAssumption == /\ W \in Nat \ {0, 1} /\ B \in 1..W /\ MaxEls \in Nat
                           /\ 2^(W - 1) > 1 /\ 2^W > 0 /\ 2^B > 0

VARIABLES
    things,    \* the two objects
    chain,     \* the two prototypes, nearest first
    appendRow, \* the append row every shape hashes to
    noExtra,   \* the runtime's record of a clean prototype chain
    moved,     \* whether the first proto's shapes have swapped addresses
    buffered,  \* the (object, index) edges in the nursery store buffer
    slot,      \* the object in the local variable
    fact,      \* the typed-array kind the compiled lineage has proven of it
    elemOps,   \* mutations so far
    wrong      \* the arms that did not do what the engine would have done

elemVars == <<things, chain, appendRow, noExtra, moved, buffered, slot, fact, elemOps, wrong>>

Names == {"A", "B"}
ByteKinds == {"Int8", "Uint8", "Uint8Clamped"}
TaKinds == ByteKinds \cup {"Uint32", "Float64"}
Dense == {"Array", "Object"}
Classes == Dense \cup TaKinds \cup {"Arguments", "String", "Proxy"}
NONE == "none"

ASSUME SitesAssumption == Sites \subseteq [pred : TaKinds \cup {NONE}, poly : BOOLEAN, args : BOOLEAN]
ASSUME PairsAssumption == Pairs \subseteq Classes \X Classes

(****************************** values ******************************)
Value(k, h) == [k |-> k, h |-> h]
Dbl(h) == Value("double", h)   \* h halves
NotANumber == Value("nan", 0)
Young == Value("young", 0)     \* an object in the nursery
Old == Value("old", 0)         \* a tenured object
Hole == Value("magic", 0)      \* a hole, or an argument forwarded to the frame
Undef == Value("undefined", 0)
Elsewhere(p) == Value("proto", p) \* the property another object holds
Miss == Value("miss", 0)

IntMin == -(2^(W - 1))
IntMax == 2^(W - 1) - 1
Fits(h) == h % 2 = 0 /\ h \div 2 \in IntMin..IntMax
I32(n) == Value("int32", 2 * n)
IsNum(v) == v.k \in {"int32", "double", "nan"}
IsStored(v) == IsNum(v) /\ v = Value(v.k, v.h) /\ v.h \in Int /\ (v.k = "int32" => Fits(v.h)) /\ (v.k = "nan" => v.h = 0)
ASSUME NumbersAssumption == \A v \in StoreNumbers : IsStored(v)
\* A number is boxed as an int32 when it is one.
NumberV(h) == IF Fits(h) THEN Value("int32", h) ELSE Dbl(h)

Towards0(h) == IF h >= 0 THEN h \div 2 ELSE -((-h) \div 2)
Clamp(n, lo, hi) == IF n < lo THEN lo ELSE IF n > hi THEN hi ELSE n
Wrap(n, bits, signed) ==
    LET m == n % 2^bits IN IF signed /\ m >= 2^(bits - 1) THEN m - 2^bits ELSE m
HalfEven(h) == IF h % 2 = 0 THEN h \div 2
               ELSE LET n == h \div 2 IN IF n % 2 = 0 THEN n ELSE n + 1

\* What the language stores in an element of the kind for a value (a value
\* that is not a number converts to NaN here).
EngineConvert(kind, v) ==
    LET h == IF v.k \in {"int32", "double"} THEN v.h ELSE 0
    IN CASE kind = "Float64" -> IF v.k \in {"int32", "double"} THEN NumberV(h) ELSE NotANumber
         [] kind = "Int8" -> I32(Wrap(Towards0(h), B, TRUE))
         [] kind = "Uint8" -> I32(Wrap(Towards0(h), B, FALSE))
         [] kind = "Uint32" -> NumberV(2 * Wrap(Towards0(h), W, FALSE))
         [] kind = "Uint8Clamped" -> I32(Clamp(HalfEven(h), 0, 2^B - 1))

(****************************** objects ******************************)
Thing(cls, els, cap, len) ==
    [cls |-> cls, els |-> els, cap |-> cap, len |-> len, flags |-> {}, own |-> {},
     ext |-> TRUE, tenured |-> FALSE, lit |-> FALSE]
Native(o) == o.cls # "Proxy"
InitLen(o) == IF o.cls \in Dense THEN Len(o.els) ELSE 0
At(o, i) == o.els[i + 1]
InBounds(i, n) == i >= 0 /\ i < n   \* the unsigned comparison
Frozen(o) == "frozen" \in o.flags
PushBail(o) == o.flags \cap {"lengthReadonly", "notExtensible", "sealed", "frozen"} # {}

\* A shape pins class, extensibility, sparse elements and freezing; a proto's
\* dense elements are not in it.
ShapeOf(o) == [what |-> o.cls, sparse |-> o.own # {}, ext |-> o.ext]
ProtoShape(p) == [what |-> p, sparse |-> chain[p].sparse # {}, ext |-> ~chain[p].frozen]
ShapeWord(o) == ShapeOf(o)
ProtoWord(p) == IF moved /\ p = 1 THEN [ProtoShape(p) EXCEPT !.sparse = ~@] ELSE ProtoShape(p)

\* The nearest prototype that answers for an index, 0 if none.
ProtoHas(p, i) == i \in chain[p].sparse \/ (chain[p].dense /\ i = 0)
HolderProto(i) == IF ProtoHas(1, i) THEN 1 ELSE IF ProtoHas(2, i) THEN 2 ELSE 0
Blocks(i) == LET p == HolderProto(i) IN p # 0 /\ (i \in chain[p].sparse \/ chain[p].frozen)

HasOwn(o, i) ==
    \/ o.cls \in Dense /\ (i \in o.own \/ (InBounds(i, Len(o.els)) /\ At(o, i) # Hole))
    \/ o.cls \in TaKinds \cup {"String", "Arguments"} /\ InBounds(i, Len(o.els))

EngineGetElement(o, i) ==
    CASE o.cls = "Proxy" -> Elsewhere(0)
      [] o.cls \in TaKinds -> IF HasOwn(o, i) THEN At(o, i) ELSE Undef
      [] o.cls = "Arguments" /\ HasOwn(o, i) ->
           IF "overridden" \in o.flags \/ At(o, i) = Hole THEN Elsewhere(0) ELSE At(o, i)
      [] o.cls = "String" /\ HasOwn(o, i) -> At(o, i)
      [] o.cls \in Dense /\ HasOwn(o, i) -> IF i \in o.own THEN Elsewhere(0) ELSE At(o, i)
      [] o.cls \notin TaKinds \cup {"Proxy"} /\ ~HasOwn(o, i) ->
           IF HolderProto(i) = 0 THEN Undef ELSE Elsewhere(HolderProto(i))

Filled(n) == [j \in 1..n |-> Hole]
Longer(o, i) == IF o.cls = "Array" /\ i >= o.len THEN i + 1 ELSE o.len
\* An element added or overwritten: capacity grows to fit, a gap is holes.
PutAt(o, i, v) ==
    LET n == Len(o.els)
        els == IF i < n THEN [o.els EXCEPT ![i + 1] = v]
               ELSE o.els \o Filled(i - n) \o <<v>>
    IN [o EXCEPT !.els = els, !.len = Longer(o, i),
                 !.cap = IF Len(els) > @ THEN Len(els) ELSE @,
                 !.flags = IF i > n THEN @ \cup {"nonPacked"} ELSE @]

EngineSetElement(o, i, v) ==
    CASE o.cls \in TaKinds -> IF HasOwn(o, i) THEN [o EXCEPT !.els[i + 1] = EngineConvert(o.cls, v)] ELSE o
      [] o.cls = "Arguments" ->
           IF HasOwn(o, i) /\ At(o, i) # Hole /\ "overridden" \notin o.flags
           THEN [o EXCEPT !.els[i + 1] = v] ELSE o
      [] o.cls \in {"Proxy", "String"} \/ (o.cls \in Dense /\ i < 0) -> o
      [] o.cls \in Dense /\ i >= 0 ->
           IF HasOwn(o, i) THEN IF i \in o.own \/ Frozen(o) THEN o ELSE PutAt(o, i, v)
           ELSE IF Blocks(i) \/ ~o.ext \/ ("lengthReadonly" \in o.flags /\ i >= o.len)
                THEN o ELSE PutAt(o, i, v)

EngineLength(o) ==
    CASE o.cls = "Array" -> NumberV(2 * o.len)
      [] o.cls = "String" -> I32(Len(o.els))
      [] o.cls = "Arguments" -> IF "lengthOverridden" \in o.flags THEN Elsewhere(0) ELSE I32(o.len)
      [] OTHER -> Elsewhere(1)

(****************************** the read arms ******************************)
\* A site: the kind the analysis predicts, whether it probes every kind, and
\* whether the script has an arguments object.

ta_clasp_eq(o, kind) == o.cls = kind

\* The typed-array arm is entered: on the proven fact with no test.
ta_arm_guard(site, o) ==
    site.pred # NONE /\ (fact = site.pred \/ ta_clasp_eq(o, site.pred))

\* A load through a typed array's length and data words; of any other object
\* they are unrelated memory.
TaLoad(o, kind, i) ==
    IF o.cls # kind THEN Elsewhere(9)
    ELSE IF InBounds(i, Len(o.els)) THEN At(o, i) ELSE Miss

emit_ta_get_arm(site, o, i) == TaLoad(o, site.pred, i)

ta_get_poly(o, i) == IF o.cls \in TaKinds THEN TaLoad(o, o.cls, i) ELSE Miss

ArgumentsArm(o, i) ==
    IF /\ o.cls = "Arguments" /\ "overridden" \notin o.flags
       /\ InBounds(i, o.len) /\ At(o, i) # Hole
    THEN At(o, i) ELSE Miss

emit_string_elem_arm(o, i) ==
    IF {"linear", "latin1"} \subseteq o.flags /\ InBounds(i, Len(o.els)) THEN At(o, i) ELSE Miss

DenseLoadThroughHole(o, i) == IF At(o, i) = Hole THEN Undef ELSE At(o, i)
DenseLoad(o, i) == IF At(o, i) = Hole THEN Miss ELSE At(o, i)

\* Out of the dense bounds: every kind, then arguments.
OutOfDense(site, o, i) ==
    LET ta == IF site.poly THEN ta_get_poly(o, i) ELSE Miss
    IN IF ta # Miss THEN ta ELSE IF site.args THEN ArgumentsArm(o, i) ELSE Miss

emit_get_element(site, o, i) ==
    CASE o.cls = "String" -> emit_string_elem_arm(o, i)
      [] o.cls # "String" /\ ta_arm_guard(site, o) -> emit_ta_get_arm(site, o, i)
      [] o.cls # "String" /\ ~ta_arm_guard(site, o) ->
           IF ~Native(o) THEN Miss
           ELSE IF InBounds(i, InitLen(o)) THEN DenseLoad(o, i) ELSE OutOfDense(site, o, i)

emit_length(o) ==
    CASE o.cls = "String" -> I32(Len(o.els))
      [] o.cls = "Array" -> IF o.len <= IntMax THEN I32(o.len) ELSE Miss
      [] o.cls = "Arguments" -> IF "lengthOverridden" \in o.flags THEN Miss ELSE I32(o.len)
      [] OTHER -> Miss

(****************************** the write arms ******************************)
NotStored == [cls |-> "miss"]

emit_ta_store_int(kind, n) ==
    CASE kind = "Int8" -> I32(Wrap(n, B, TRUE))
      [] kind = "Uint8" -> I32(Wrap(n, B, FALSE))
      [] kind = "Uint8Clamped" -> I32(Clamp(n, 0, 2^B - 1))
      [] kind = "Uint32" -> NumberV(2 * Wrap(n, W, FALSE))
      [] kind = "Float64" -> I32(n)

TruncSat(v) == IF v.k = "nan" THEN 0 ELSE Clamp(Towards0(v.h), IntMin, IntMax)

\* A double goes to an integer kind only when an int32 holds it exactly.
emit_ta_store_f64(kind, v) ==
    CASE kind = "Float64" -> IF v.k = "nan" THEN v ELSE NumberV(v.h)
      [] kind = "Uint8Clamped" -> I32(IF v.k = "nan" THEN 0 ELSE HalfEven(Clamp(v.h, 0, 2 * (2^B - 1))))
      [] OTHER -> IF v.k # "nan" /\ 2 * TruncSat(v) = v.h
                  THEN emit_ta_store_int(kind, TruncSat(v)) ELSE Miss

TaStore(o, kind, i, v) ==
    LET stored == CASE v.k = "int32" -> emit_ta_store_int(kind, v.h \div 2)
                    [] v.k \in {"double", "nan"} -> emit_ta_store_f64(kind, v)
                    [] OTHER -> Miss
    IN IF o.cls # kind THEN [o EXCEPT !.cls = "corrupt"]
       ELSE IF InBounds(i, Len(o.els)) /\ stored # Miss
            THEN [o EXCEPT !.els[i + 1] = stored] ELSE NotStored

emit_ta_set_arm(site, o, i, v) == TaStore(o, site.pred, i, v)

ta_set_poly(o, i, v) == IF o.cls \in TaKinds THEN TaStore(o, o.cls, i, v) ELSE NotStored

\* The append row: keyed by the receiver's shape word; the two prototypes'
\* live shape words are compared, an empty pair passes.
NoRow == [shape |-> "empty"]
RowProves(o) ==
    /\ appendRow # NoRow /\ appendRow.shape = ShapeWord(o)
    /\ appendRow.s0 = ProtoWord(1) /\ appendRow.s1 = ProtoWord(2)

elem_append_check(o, i) ==
    /\ \/ i = InitLen(o) /\ InitLen(o) < o.cap
       \/ InBounds(i, InitLen(o)) /\ At(o, i) = Hole
    /\ ~PushBail(o)
    /\ RowProves(o)

emit_elem_append_arm(o, i, v) ==
    IF ~elem_append_check(o, i) THEN NotStored
    ELSE IF i = InitLen(o)
         THEN [o EXCEPT !.els = Append(@, v),
                        !.len = IF i >= @ /\ appendRow.isArray THEN i + 1 ELSE @]
         ELSE [o EXCEPT !.els[i + 1] = v]

\* In bounds: a packed, unfrozen array takes the raw store.
DenseStore(o, i, v) ==
    CASE Frozen(o) -> NotStored
      [] ~Frozen(o) /\ "nonPacked" \in o.flags /\ At(o, i) = Hole -> emit_elem_append_arm(o, i, v)
      [] OTHER -> [o EXCEPT !.els[i + 1] = v]

OrElse(first, second) == IF first # NotStored THEN first ELSE second

emit_set_element(site, o, i, v) ==
    CASE o.cls = "String" -> NotStored
      [] o.cls # "String" /\ ta_arm_guard(site, o) -> emit_ta_set_arm(site, o, i, v)
      [] o.cls # "String" /\ ~ta_arm_guard(site, o) ->
           IF ~Native(o) THEN NotStored
           ELSE IF InBounds(i, InitLen(o)) THEN DenseStore(o, i, v)
           ELSE OrElse(emit_elem_append_arm(o, i, v),
                       IF site.poly THEN ta_set_poly(o, i, v) ELSE NotStored)

\* Array.prototype.push and pop inlined at the call.
push_arm(o, v) ==
    IF /\ o.cls # "String" /\ ~PushBail(o) /\ o.len = InitLen(o) /\ InitLen(o) < o.cap
       /\ o.len < IntMax /\ RowProves(o) /\ appendRow.isArray
    THEN [o EXCEPT !.els = Append(@, v), !.len = @ + 1] ELSE NotStored

pop_arm(o) ==
    IF /\ o.cls = "Array" /\ ~PushBail(o) /\ o.len = InitLen(o) /\ o.len # 0
       /\ At(o, o.len - 1) # Hole
    THEN [o EXCEPT !.els = SubSeq(@, 1, Len(@) - 1), !.len = @ - 1] ELSE NotStored

\* The literal fill `[a, b]`: next index, room, no flag, no GC thing.
emit_init_elem_array(o, i, v) ==
    IF v.k \notin {"magic", "young", "old"} /\ o.flags = {} /\ InitLen(o) = i /\ o.cap > i /\ o.len > i
    THEN [o EXCEPT !.els = Append(@, v)] ELSE NotStored

(****************************** the helpers ******************************)
PrototypeMayHaveIndexedProperties ==
    \E p \in {1, 2} : chain[p].sparse # {} \/ chain[p].dense

\* Shape words, and no dense element: those are not pinned by the shape.
NoExtraHit == /\ noExtra = [s0 |-> ProtoWord(1), s1 |-> ProtoWord(2)]
              /\ ~chain[1].dense /\ ~chain[2].dense
NoExtraIndexedFast(o) == o.own = {} /\ (NoExtraHit \/ ~PrototypeMayHaveIndexedProperties)
NoteChain == [s0 |-> ProtoWord(1), s1 |-> ProtoWord(2)]

PrimeAppendRow(o) == [shape |-> ShapeWord(o), s0 |-> ProtoWord(1), s1 |-> ProtoWord(2),
                      isArray |-> o.cls = "Array"]

\* setOrExtendDenseElements: refuses what is not a plain dense store.
SetOrExtend(o, i, v) ==
    IF PushBail(o) \/ (i >= InitLen(o) /\ ~o.ext) THEN NotStored ELSE PutAt(o, i, v)

\* The helper's dense path takes the store itself and primes the row.
HelperDense(o, i) ==
    /\ o.cls \in Dense /\ i >= 0 /\ i <= InitLen(o) /\ NoExtraIndexedFast(o)

(****************************** one access ******************************)
Judge(arm, got, want) == wrong' = IF got = want THEN wrong ELSE wrong \cup {arm}
Put(o) == things' = [things EXCEPT ![slot] = o]

\* The generational barrier of a store: an edge from a tenured object.
barrier_elem_skipped(o, i, v) == UNCHANGED buffered
emit_post_write_barrier_elem(o, i, v) ==
    buffered' = IF o.tenured /\ v.k = "young" THEN buffered \cup {<<slot, i>>} ELSE buffered

Elems == <<things, buffered, chain, moved, elemOps>>

get_element(site, i) ==
    LET o == things[slot] IN
    \E got \in {emit_get_element(site, o, i)} :
      /\ Judge("get", IF got = Miss THEN EngineGetElement(o, i) ELSE got, EngineGetElement(o, i))
      \* the typed-array arm leaves with the kind proven; the helper
      \* flattens a string it is asked to index
      /\ fact' = IF o.cls # "String" /\ ta_arm_guard(site, o) /\ got # Miss THEN site.pred ELSE fact
      /\ things' = IF got = Miss /\ o.cls = "String" /\ InBounds(i, Len(o.els))
                   THEN [things EXCEPT ![slot].flags = @ \cup {"linear"}] ELSE things
      /\ UNCHANGED <<chain, appendRow, noExtra, moved, buffered, slot, elemOps>>

\* Where a store predicted to hit a typed array goes on: with the facts it
\* came with, or (a representation known when compiling) with the kind.
FactAfterStore(site, o, static) ==
    IF site.pred # NONE /\ static /\ o.cls # "String" THEN site.pred ELSE fact

set_element(site, i, v, static) ==
    LET o == things[slot] IN
    /\ static => StaticStores /\ IsNum(v)
    /\ i < MaxEls
    /\ \E got \in {emit_set_element(site, o, i, v)} :
         IF got # NotStored
         THEN /\ Judge("set", got, EngineSetElement(o, i, v))
              /\ Put(got) /\ emit_post_write_barrier_elem(o, i, v)
              /\ UNCHANGED <<appendRow, noExtra>>
         ELSE \E dense \in {IF HelperDense(o, i) THEN SetOrExtend(o, i, v) ELSE NotStored} :
                /\ Judge("helper", OrElse(dense, EngineSetElement(o, i, v)), EngineSetElement(o, i, v))
                /\ Put(OrElse(dense, EngineSetElement(o, i, v)))
                /\ noExtra' = IF HelperDense(o, i) THEN NoteChain ELSE noExtra
                /\ appendRow' = IF dense # NotStored THEN PrimeAppendRow(dense) ELSE appendRow
                /\ buffered' = IF o.tenured /\ v.k = "young" /\ o.cls \notin TaKinds
                                  /\ OrElse(dense, EngineSetElement(o, i, v)) # o
                               THEN buffered \cup {<<slot, i>>} ELSE buffered
    /\ fact' = FactAfterStore(site, o, static)
    /\ UNCHANGED <<chain, moved, slot, elemOps>>

get_length ==
    LET o == things[slot] IN
    /\ o.cls \in {"Array", "String", "Arguments"}
    /\ \E got \in {emit_length(o)} :
         Judge("length", IF got = Miss THEN EngineLength(o) ELSE got, EngineLength(o))
    /\ UNCHANGED <<Elems, appendRow, noExtra, slot, fact>>

push(v) ==
    LET o == things[slot]
        engine == IF o.len <= InitLen(o) THEN EngineSetElement(o, o.len, v) ELSE o
        quick == o.len = InitLen(o) /\ ~PushBail(o) /\ NoExtraIndexedFast(o) /\ o.len < IntMax
    IN
    /\ o.cls = "Array" /\ o.len < MaxEls /\ o.len = InitLen(o)
    /\ \E got \in {push_arm(o, v)} :
         IF got # NotStored
         THEN /\ Judge("push", got, engine) /\ Put(got)
              /\ emit_post_write_barrier_elem(o, o.len, v)
              /\ UNCHANGED <<appendRow, noExtra>>
         ELSE /\ Put(engine) /\ UNCHANGED wrong
              /\ noExtra' = IF quick THEN NoteChain ELSE noExtra
              /\ appendRow' = IF quick THEN PrimeAppendRow(o) ELSE appendRow
              /\ buffered' = IF o.tenured /\ v.k = "young" /\ engine # o
                             THEN buffered \cup {<<slot, o.len>>} ELSE buffered
    /\ UNCHANGED <<chain, moved, slot, fact, elemOps>>

\* The engine's pop: the last element, unless the array is frozen, sealed or
\* its length fixed.
EnginePop(o) == IF o.flags \cap {"frozen", "sealed", "lengthReadonly"} # {} THEN o
                ELSE [o EXCEPT !.els = SubSeq(@, 1, Len(@) - 1), !.len = @ - 1]
pop ==
    LET o == things[slot] IN
    /\ o.cls = "Array" /\ o.len = InitLen(o) /\ o.len > 0
    /\ \E got \in {pop_arm(o)} :
         /\ Judge("pop", OrElse(got, EnginePop(o)), EnginePop(o))
         /\ Put(OrElse(got, EnginePop(o)))
    /\ UNCHANGED <<chain, appendRow, noExtra, moved, buffered, slot, fact, elemOps>>

\* A literal: a fresh array of known length, filled in order.
NewArray == /\ things[slot].cls = "Array" /\ elemOps < MaxElemOps
            /\ Put([Thing("Array", <<>>, 1, 2) EXCEPT !.lit = TRUE])
            /\ buffered' = {e \in buffered : e[1] # slot}
            /\ fact' = NONE /\ elemOps' = elemOps + 1
            /\ UNCHANGED <<chain, appendRow, noExtra, moved, slot, wrong>>

init_elem_array(v) ==
    LET o == things[slot]
        i == InitLen(o)
        engine == [PutAt(o, i, v) EXCEPT !.lit = i + 1 < o.len,
                      !.flags = IF v = Hole THEN @ \cup {"nonPacked"} ELSE @]
    IN
    /\ o.lit
    /\ \E got \in {emit_init_elem_array(o, i, v)} :
         /\ Judge("init", IF got = NotStored THEN engine ELSE [got EXCEPT !.lit = engine.lit], engine)
         /\ Put(engine)
         /\ buffered' = IF got = NotStored /\ o.tenured /\ v.k = "young"
                        THEN buffered \cup {<<slot, i>>} ELSE buffered
    /\ UNCHANGED <<chain, appendRow, noExtra, moved, slot, fact, elemOps>>

(****************************** program and collector ******************************)
Assign(n) == /\ n # slot /\ ~things[slot].lit
             /\ slot' = n /\ fact' = NONE
             /\ UNCHANGED <<Elems, appendRow, noExtra, wrong>>

Changes == /\ elemOps < MaxElemOps /\ elemOps' = elemOps + 1 /\ ~things[slot].lit
           /\ UNCHANGED <<appendRow, noExtra, moved, slot, fact, wrong>>

\* What the program may do to the object.
Fasten(how) ==
    LET o == things[slot] IN
    /\ Changes /\ o.cls \in Dense /\ how \notin o.flags
    /\ how = "lengthReadonly" => o.cls = "Array"
    /\ Put([o EXCEPT !.flags = @ \cup {how}, !.ext = @ /\ how = "lengthReadonly"])
    /\ UNCHANGED <<chain, buffered>>
Delete(i) ==
    LET o == things[slot] IN
    /\ Changes /\ o.cls \in Dense /\ o.flags \cap {"frozen", "sealed"} = {}
    /\ InBounds(i, Len(o.els))
    /\ Put([o EXCEPT !.els[i + 1] = Hole, !.flags = @ \cup {"nonPacked"}])
    /\ UNCHANGED <<chain, buffered>>
SetLength(n) ==
    LET o == things[slot] IN
    /\ Changes /\ o.cls = "Array" /\ o.ext /\ o.own = {} /\ ~Frozen(o) /\ "lengthReadonly" \notin o.flags
    /\ Put([o EXCEPT !.len = n, !.els = IF n < Len(@) THEN SubSeq(@, 1, n) ELSE @])
    /\ UNCHANGED <<chain, buffered>>
DefineSparse(i) ==
    LET o == things[slot] IN
    /\ Changes /\ o.cls \in Dense /\ o.ext /\ i \in Len(o.els)..(MaxEls - 1)
    /\ Put([o EXCEPT !.own = @ \cup {i}, !.len = Longer(o, i)])
    /\ UNCHANGED <<chain, buffered>>
Override(how) ==
    LET o == things[slot] IN
    /\ Changes /\ o.cls = "Arguments" /\ how \notin o.flags
    /\ Put([o EXCEPT !.flags = @ \cup {how}])
    /\ UNCHANGED <<chain, buffered>>
Detach ==
    /\ Changes /\ things[slot].cls \in TaKinds /\ things[slot].els # <<>>
    /\ Put([things[slot] EXCEPT !.els = <<>>])
    /\ UNCHANGED <<chain, buffered>>
\* What it may do to a prototype: an accessor or read-only index (sparse), a
\* plain element, freezing.
ChangeProto(p, q) ==
    /\ Changes /\ q # chain[p] /\ ~chain[p].frozen
    /\ chain' = [chain EXCEPT ![p] = q]
    /\ UNCHANGED <<things, buffered>>

MinorGC ==
    LET Kept(n, v, i) == IF v = Young /\ (~things[n].tenured \/ <<n, i - 1>> \in buffered) THEN Old ELSE v
    IN /\ \E n \in Names : ~things[n].tenured \/ \E i \in DOMAIN things[n].els : things[n].els[i] = Young
       /\ things' = [n \in Names |-> [things[n] EXCEPT !.tenured = TRUE,
                        !.els = [i \in DOMAIN @ |-> Kept(n, @[i], i)]]]
       /\ buffered' = {}
       /\ UNCHANGED <<chain, appendRow, noExtra, moved, slot, fact, elemOps, wrong>>

\* A major collection moves shapes; the callback zeroes the append rows and
\* the generation it advances retires the chain record.
MajorGC == /\ elemOps < MaxElemOps /\ elemOps' = elemOps + 1
           /\ moved' = ~moved /\ appendRow' = NoRow /\ noExtra' = NoRow
           /\ UNCHANGED <<things, chain, buffered, slot, fact, wrong>>

(****************************** the specification ******************************)
Indices == -1..MaxEls
Start(cls, flags) ==
    [Thing(cls, CASE cls \in Dense -> <<I32(1)>>
                  [] cls \in TaKinds -> <<I32(0)>>
                  [] cls = "Arguments" -> <<I32(1), Hole>>
                  [] cls = "String" -> <<I32(1)>>
                  [] OTHER -> <<>>,
           2, CASE cls = "Array" -> 1 [] cls = "Arguments" -> 2 [] OTHER -> 0)
     EXCEPT !.flags = flags]
StartFlags(cls) == IF cls = "String" THEN {{}, {"latin1"}, {"linear"}, {"linear", "latin1"}} ELSE {{}}
\* A read-only or accessor index, a plain element, a frozen one.
ProtoStates == {[sparse |-> {1}, dense |-> FALSE, frozen |-> FALSE],
                [sparse |-> {}, dense |-> TRUE, frozen |-> FALSE],
                [sparse |-> {}, dense |-> TRUE, frozen |-> TRUE]}

ElemInit ==
    /\ \E pair \in Pairs : \E fa \in StartFlags(pair[1]), fb \in StartFlags(pair[2]) :
         things = [A |-> Start(pair[1], fa), B |-> Start(pair[2], fb)]
    /\ chain = <<[sparse |-> {}, dense |-> FALSE, frozen |-> FALSE],
                 [sparse |-> {}, dense |-> FALSE, frozen |-> FALSE]>>
    /\ appendRow = NoRow /\ noExtra = NoRow /\ moved = FALSE
    /\ buffered = {} /\ slot = "A" /\ fact = NONE /\ elemOps = 0 /\ wrong = {}

StoredAt(o) == CASE o.cls \in TaKinds -> StoreNumbers \cup {Young}
                 [] o.cls = "Object" -> {I32(1)}
                 [] OTHER -> {I32(1), Young}

ElemAccess ==
    /\ ~things[slot].lit
    /\ \/ \E site \in Sites, i \in Indices : get_element(site, i)
       \/ \E site \in Sites, i \in Indices, v \in StoredAt(things[slot]), static \in BOOLEAN :
            set_element(site, i, v, static)
       \/ get_length
       \/ \E v \in {I32(1), Young} : push(v)
       \/ pop
ElemProgram ==
    \/ \E v \in {I32(1), Young, Hole} : init_elem_array(v)
    \/ NewArray
    \/ \E n \in Names : Assign(n)
    \/ \E how \in {"frozen", "sealed", "notExtensible", "lengthReadonly"} : Fasten(how)
    \/ \E i \in Indices : Delete(i) \/ DefineSparse(i)
    \/ \E n \in {0, 1, IntMax + 1} : SetLength(n)
    \/ \E how \in {"overridden", "lengthOverridden"} : Override(how)
    \/ Detach
    \/ \E p \in {1, 2}, q \in ProtoStates : ChangeProto(p, q)
ElemNext == ElemAccess \/ ElemProgram \/ MinorGC \/ MajorGC
ElemSpec == ElemInit /\ [][ElemNext]_elemVars

(****************************** properties ******************************)

\* Every element and length read an arm answers itself is the engine's answer
\* (emit_get_element, emit_ta_get_arm, emit_string_elem_arm, the `length` arms).
ElemReadsAgree == wrong \cap {"get", "length"} = {}

\* Every store an arm or the helper's dense path performs leaves the object
\* as the engine's own store would (emit_set_element, night_elem_append_check,
\* emit_ta_store_*, push, pop, literal fill): no shadowing setter or read-only
\* prototype element is bypassed, no length or hole is lost.
ElemWritesAgree == wrong \cap {"set", "helper", "push", "pop", "init"} = {}

\* The typed-array kind a lineage relies on without testing is the kind of
\* the object in the variable (ta_arm_guard, refine_ta_src).
TaFactHolds == fact # NONE => things[slot].cls = fact

\* A tenured object's element that points into the nursery is in the store
\* buffer (emit_post_write_barrier_elem), so a minor collection finds it.
NurseryEdgesRemembered ==
    \A n \in Names : \A i \in DOMAIN things[n].els :
        things[n].tenured /\ things[n].els[i] = Young => <<n, i - 1>> \in buffered

\* Every inline element arm does what the engine would do at that moment.
ElemAgrees == ElemReadsAgree /\ ElemWritesAgree /\ TaFactHolds
=============================================================================
