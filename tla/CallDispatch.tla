---------------------------- MODULE CallDispatch ----------------------------
(***************************************************************************)
(* Call, construct and apply-forward dispatch (bbv/call.rs): which body a  *)
(* compiled call site enters, with which arguments and which `this`.       *)
(*                                                                         *)
(* A site remembers the last callee in a cell of raw words (the callee's   *)
(* bits, its table index, its script), a construct site the allocation of  *)
(* `this` as well, and the pristine builtins sit in cells of their own.    *)
(* The collectors move, free and reuse addresses under those words.  Every *)
(* dispatch is compared with what the engine does with the same callee on  *)
(* the same heap; only the disagreements are recorded.                     *)
(***************************************************************************)
EXTENDS Integers, Sequences, FiniteSets

CONSTANTS
    Ids,          \* objects: functions and the objects used as prototypes
    Kind,         \* "normal", "arrow", "class", "native", "plain" of each
    ScriptOf,     \* the script of each scripted function
    Script,       \* [idx, nargs, observes, odd]: table index (0 uncompiled), formals,
                  \* sees actuals past them, class constructor or generator
    FunApply, FunCall, HasOwn, ArrayCtor,   \* the pristine builtins
    ObjectProto,  \* Object.prototype
    NurseryAddrs, TenuredAddrs,
    Sites,        \* sites: [fam, super, likely, fwd, known, seg], the op and the facts the analysis
                  \* gives the compiler; [ids, ops], the objects the program makes and a bound
    Numbers,      \* callees that are numbers: "zero" has bits 0, "min" bits 1
    MaxActuals,   \* bound on the actuals a wrapper forwards
    MaxCollections,
    YoungProtos,  \* TRUE: a prototype may still be in the nursery
    Retarget,     \* TRUE: a site with one forward target may meet another
    SuperArray    \* TRUE: the parent class a super() calls may be Array

Builtins == {FunApply, FunCall, HasOwn, ArrayCtor}
Roots == Builtins \cup {ObjectProto}

\* Addresses are words past the two the cells use as marks.
ASSUME AddressAssumption ==
    /\ NurseryAddrs \subseteq Nat \ {0, 1} /\ IsFiniteSet(NurseryAddrs)
    /\ TenuredAddrs \subseteq Nat \ {0, 1} /\ IsFiniteSet(TenuredAddrs)
    /\ NurseryAddrs \cap TenuredAddrs = {}

\* The objects, the numbers and the marks are told apart; the builtins are
\* five different objects, and two compiled scripts never share an index.
ASSUME DispatchAssumption ==
    /\ IsFiniteSet(Ids) /\ Ids \cap {"zero", "min", "prim", "lazy", "none"} = {}
    /\ Numbers \subseteq {"zero", "min"}
    /\ Roots \subseteq Ids
    /\ \A i, j \in 1..5 : i # j => <<FunApply, FunCall, HasOwn, ArrayCtor, ObjectProto>>[i]
                                   # <<FunApply, FunCall, HasOwn, ArrayCtor, ObjectProto>>[j]
    /\ Kind \in [Ids -> {"normal", "arrow", "class", "native", "plain"}]
    /\ (\A b \in Builtins : Kind[b] = "native") /\ Kind[ObjectProto] = "plain"
    /\ "none" \notin DOMAIN Script
    /\ Script \in [DOMAIN Script -> [idx : Nat, nargs : Nat, observes : BOOLEAN, odd : BOOLEAN]]
    /\ \A s, t \in DOMAIN Script : Script[s].idx = Script[t].idx /\ Script[s].idx # 0 => s = t
    /\ \A i \in Ids : Kind[i] \in {"normal", "arrow", "class"} => ScriptOf[i] \in DOMAIN Script
    /\ \A s \in Sites : /\ s.ids \subseteq Ids /\ s.seg \in Int
                       /\ s.known \subseteq DOMAIN Script
                       /\ {s.likely, s.fwd} \subseteq DOMAIN Script \cup {"none"}

VARIABLES
    site,         \* the site
    at,           \* id -> its address, 0 when it is not allocated
    proto,        \* function -> its `.prototype`: an id, "prim", or "lazy"
    cell,         \* the callee cell: [bits, idx, script]
    ccell,        \* the construct cell: [shape (the prototype it allocates with), ctorShape, gen, protoPtr]
    making,       \* the construct helper between making `this` and filling the cell: [bits, callee, proto]
    builtin,      \* the builtin cells: the address of each pristine builtin
    igen,         \* the cache generation
    dops, collections,
    wrong         \* the dispatches the engine would have done otherwise

dispVars == <<site, at, proto, cell, ccell, making, builtin, igen, dops, collections, wrong>>

NoScript == "none"
Live == {i \in Ids : at[i] # 0}
Young(i) == at[i] \in NurseryAddrs
Functions == {i \in Ids : Kind[i] # "plain"}
Bits(v) == CASE v = "zero" -> 0 [] v = "min" -> 1 [] OTHER -> at[v]
Scripted(v) == v \in Ids /\ Kind[v] \in {"normal", "arrow", "class"}
Idx(s) == IF s = NoScript THEN 0 ELSE Script[s].idx
Body(idx) == CHOOSE s \in DOMAIN Script : Script[s].idx = idx

EmptyCell == [bits |-> 0, idx |-> 0, script |-> NoScript]
EmptyCcell == [shape |-> NoScript, ctorShape |-> NoScript, gen |-> 0, protoPtr |-> 0]
NotMaking == [bits |-> 0, callee |-> NoScript, proto |-> NoScript]

--------------------------------------------------------------------------
(* The classify: [idx, script, native, cell].                               *)
NotDispatchable(c) == [idx |-> 0, script |-> NoScript, native |-> FALSE, cell |-> c]

\* An empty row learns a tenured callee, a row that missed is poisoned: its
\* bits become 1 and its other words stay.
FillCell(c, v, s) ==
    IF c.bits # 0 THEN [c EXCEPT !.bits = 1]
    ELSE IF Young(v) THEN c
    ELSE [bits |-> Bits(v), idx |-> Idx(s), script |-> s]
call_classify(c, v) ==
    IF v \notin Ids \/ Kind[v] \in {"plain", "class"} THEN NotDispatchable(c)
    ELSE IF Kind[v] = "native" THEN [NotDispatchable(c) EXCEPT !.native = TRUE]
    ELSE [idx |-> Idx(ScriptOf[v]), script |-> ScriptOf[v], native |-> FALSE,
          cell |-> FillCell(c, v, ScriptOf[v])]

\* The probe in line: the callee's bits against the row's.
emit_inline_classify(c, v) ==
    IF c.bits = Bits(v) THEN [idx |-> c.idx, script |-> c.script, native |-> FALSE, cell |-> c]
    ELSE call_classify(c, v)

--------------------------------------------------------------------------
(* What a dispatch does, and what the engine does.  An outcome is           *)
(*   [t |-> "enter", body, script, argc, sel]  a compiled body entered      *)
(*   [t |-> "engine"]                          the engine's own dispatch    *)
(* and sel says that the entry that trusts its arguments was taken.         *)
Enter(body, script, argc, sel) == [t |-> "enter", body |-> body, script |-> script, argc |-> argc, sel |-> sel]
Engine == [t |-> "engine", body |-> NoScript, script |-> NoScript, argc |-> 0, sel |-> FALSE]

likely_call_target(s) == IF s.likely # NoScript /\ ~Script[s.likely].odd THEN s.likely ELSE NoScript

\* proven: the operands prove the claims of the likely callee's typed entry.
emit_call_trusting(k, likely, argc, proven, fits) ==
    IF k.idx = 0 \/ ~fits THEN Engine
    ELSE Enter(Body(k.idx), k.script, argc, proven /\ likely # NoScript)
emit_call_generic_to(k, likely, argc, proven, fits) ==
    IF k.idx = 0 \/ ~fits THEN Engine
    ELSE IF likely # NoScript /\ Idx(likely) # 0 /\ k.idx = Idx(likely)
    THEN Enter(likely, k.script, argc, proven)
    ELSE Enter(Body(k.idx), k.script, argc, FALSE)
\* A call agrees if it is left to the engine, or enters the callee's own
\* compiled body, which must have a [[Call]], and trusts only what was proven.
CallSame(v, out, likely) ==
    \/ out = Engine
    \/ /\ Scripted(v) /\ Kind[v] # "class"
       /\ out.body = ScriptOf[v] /\ out.script = ScriptOf[v]
       /\ out.sel => likely = ScriptOf[v]

--------------------------------------------------------------------------
(* Apply-forward: T.apply(this, arguments) with the wrapper's n actuals.    *)
(* What a body sees of them when it is passed argc, the ones past n filled  *)
(* with undefined: its formals, and the count as well if it observes.       *)
Smaller(a, b) == IF a < b THEN a ELSE b
Seen(s, argc, n) == [formals |-> Smaller(Smaller(argc, n), Script[s].nargs),
                     count |-> IF Script[s].observes THEN argc ELSE 0]

observes_actuals(s) == Script[s].observes
apply_fwd_target_ok(s) == ~Script[s].odd /\ ~observes_actuals(s)
apply_fwd_direct_target(s) == IF s.fwd # NoScript /\ apply_fwd_target_ok(s.fwd) THEN s.fwd ELSE NoScript
apply_fwd_known_targets(s) == {t \in s.known : apply_fwd_target_ok(t)}

\* How T is called, and with how many arguments.
Forward(out, n) == [out |-> out, argc |-> n]
ByEngine(n) == Forward(Engine, n)

\* The site's actuals: the root frame's own count, or the splice's constant.
ActualCounts(s) == IF s.seg >= 0 THEN {s.seg} ELSE 0..MaxActuals

emit_apply_fwd_known_arm(t, k) == Forward(Enter(t, k.script, Script[t].nargs, FALSE), Script[t].nargs)

emit_apply_forward(s, isApply, k, n, fits) ==
    LET t == apply_fwd_direct_target(s)
        known == {x \in apply_fwd_known_targets(s) : Idx(x) # 0 /\ Idx(x) = k.idx}
    IN IF ~isApply THEN ByEngine(n)
       ELSE IF t # NoScript
       THEN Forward(emit_call_generic_to(k, t, Script[t].nargs, FALSE, fits), Script[t].nargs)
       ELSE IF known # {} /\ fits THEN emit_apply_fwd_known_arm(CHOOSE x \in known : TRUE, k)
       ELSE IF k.idx # 0 /\ fits THEN Forward(Enter(Body(k.idx), k.script, n, FALSE), n)
       ELSE ByEngine(n)

\* The engine forwards every actual.  Passing fewer is the same call only
\* if the callee cannot tell, and a native can.
ForwardSame(v, f, n) ==
    /\ CallSame(v, f.out, v)
    /\ Scripted(v) => Seen(ScriptOf[v], f.argc, n) = Seen(ScriptOf[v], n, n) \/ Kind[v] = "class"
    /\ v \in Functions => Scripted(v) \/ f.argc = n

--------------------------------------------------------------------------
(* Construct.                                                               *)
\* Functions share their shapes: one before `.prototype` is resolved, one
\* after.
CtorShape(p) == IF p = "lazy" THEN "S0" ELSE "S1"
GetPrototypeFromConstructor(p) == IF p = "prim" THEN ObjectProto ELSE p

\* Whether the site's cell can allocate `this` for v, and with which proto.
ConstructCellHit(v) ==
    /\ ccell.shape # NoScript
    /\ ccell.ctorShape = CtorShape(proto[v]) /\ ccell.gen = igen
    /\ proto[v] \in Ids /\ at[proto[v]] = ccell.protoPtr
\* The class constructors, arrows, other new.targets and a full stack go to
\* the engine.
ConstructGuards(v, nt, fits) == Kind[v] = "normal" /\ nt = v /\ fits
\* The helper fills the cell from the new `this` and from what it finds at the callee's bits, which
\* it read before it allocated: only a function's `.prototype` that is an own slot sets the guards.
FilledFrom(c, i, q) ==
    IF i \notin Functions THEN c
    ELSE IF Kind[i] = "normal" /\ proto[i] # "lazy"
    THEN [shape |-> q, ctorShape |-> CtorShape(proto[i]), gen |-> igen, protoPtr |-> at[q]]
    ELSE [c EXCEPT !.shape = q]
create_this ==
    /\ making # NotMaking
    /\ LET there == {i \in Ids : at[i] = making.bits}
       IN ccell' = IF there = {} THEN ccell ELSE FilledFrom(ccell, CHOOSE i \in there : TRUE, making.proto)
    /\ making' = NotMaking
    /\ UNCHANGED <<at, proto, cell, builtin, igen, wrong>>

\* What `new v` gives: the prototype of `this`, and the body run over it.
Constructed(t, thisProto, body) == [t |-> t, thisProto |-> thisProto, body |-> body]
ByConstruct == Constructed("engine", NoScript, NoScript)

emit_construct_classify(v, nt, k, argc, fits, p) ==
    IF k.idx = 0
    THEN IF argc = 0 /\ likely_call_target(site) = NoScript /\ Bits(v) = builtin[ArrayCtor]
         THEN Constructed("array", NoScript, NoScript)
         ELSE ByConstruct
    ELSE IF ~ConstructGuards(v, nt, fits) THEN ByConstruct
    ELSE Constructed("this", IF ConstructCellHit(v) THEN ccell.shape ELSE GetPrototypeFromConstructor(p),
                     ScriptOf[v])

ConstructSame(v, nt, out, p) ==
    \/ out.t = "engine"
    \/ out.t = "array" /\ v = ArrayCtor /\ nt = v
    \/ out.t = "this" /\ Kind[v] = "normal" /\ nt = v /\ out.body = ScriptOf[v]
         /\ out.thisProto = GetPrototypeFromConstructor(p)

--------------------------------------------------------------------------
(* The program and the collectors.                                          *)
FreeIn(addrs) == addrs \ {at[i] : i \in Ids}
\* The n-th address of a set, if it has so many.
Nth(addrs, n) == {a \in addrs : Cardinality({b \in addrs : b <= a}) = n}

ProtoAddrs == IF YoungProtos THEN NurseryAddrs ELSE TenuredAddrs

Allocate(i) ==
    /\ at[i] = 0
    /\ \E a \in Nth(FreeIn(IF Kind[i] = "plain" THEN ProtoAddrs ELSE NurseryAddrs), 1) :
        at' = [at EXCEPT ![i] = a]
    /\ proto' = [proto EXCEPT ![i] = "lazy"]
    /\ UNCHANGED <<cell, ccell, making, builtin, igen, wrong>>

\* f.prototype = q.  Until then it is made when first asked for.
Reassign(f, q) ==
    /\ Kind[f] = "normal" /\ at[f] # 0
    /\ proto' = [proto EXCEPT ![f] = q]
    /\ UNCHANGED <<at, cell, ccell, making, builtin, igen, wrong>>

\* What lives on: any set that holds the roots, what the helper has rooted and its own prototypes.
Held == IF making = NotMaking THEN {} ELSE {making.callee, making.proto}
Survivors == {S \in SUBSET Live : /\ Roots \cup Held \subseteq S
                                  /\ \A i \in S : proto[i] \in Ids => proto[i] \in S}
\* What moves slides into the free addresses in the order of its old ones,
\* if there is room; rest says where the others are.
Rank(S, i) == Cardinality({j \in S : at[j] <= at[i]})
Slide(S, free, rest) ==
    /\ \A i \in S : Nth(free, Rank(S, i)) # {}
    /\ at' = [i \in Ids |-> IF i \in S THEN CHOOSE a \in Nth(free, Rank(S, i)) : TRUE ELSE rest[i]]
Buried == [x \in Ids |-> 0]

\* A minor collection moves what lives of the nursery and re-arms the
\* builtin cells; the other rows hold tenured addresses only, and stay.
RearmBuiltinCells == builtin' = [b \in Builtins |-> at'[b]]

Tenure(S) == Slide({i \in S : Young(i)}, FreeIn(TenuredAddrs), [i \in Ids |-> IF i \in S THEN at[i] ELSE 0])

MinorGC ==
    /\ \E S \in Survivors :
        /\ \A i \in Live \ S : Young(i)
        /\ Tenure(S)
    /\ RearmBuiltinCells
    /\ UNCHANGED <<proto, cell, ccell, making, igen, wrong>>

\* A major collection empties the nursery, frees, may compact, and drops
\* every row that holds an address; the construct cells by their generation.
NightPurgeMovableCaches ==
    /\ cell' = EmptyCell
    /\ igen' = igen + 1
    /\ RearmBuiltinCells
MajorGC ==
    /\ \E S \in Survivors :
        \/ Tenure(S)
        \/ Slide(S, TenuredAddrs \ {at[FunApply]}, Buried)
    /\ NightPurgeMovableCaches
    /\ UNCHANGED <<proto, ccell, making, wrong>>

--------------------------------------------------------------------------
Callees == (site.ids \cap Live) \cup Numbers
Note(ok, what) == wrong' = IF ok THEN wrong ELSE wrong \cup {what}

Call(v, proven, fits) ==
    \E k \in {emit_inline_classify(cell, v)} :
    \E out \in {emit_call_generic_to(k, likely_call_target(site), 1, proven, fits)} :
        /\ cell' = k.cell
        /\ Note(CallSame(v, out, likely_call_target(site)), "call")
        /\ UNCHANGED <<at, proto, ccell, making, builtin, igen>>

\* fn.apply-forward of T; the site was analysed to reach one target, a few,
\* or nothing known.
Apply(fn, v, n, fits) ==
    /\ ~Retarget /\ apply_fwd_direct_target(site) # NoScript =>
           Scripted(v) /\ ScriptOf[v] = apply_fwd_direct_target(site)
    /\ \E k \in {emit_inline_classify(cell, v)} :
       \E f \in {emit_apply_forward(site, Bits(fn) = builtin[FunApply], k, n, fits)} :
        /\ cell' = k.cell
        /\ Note(ForwardSame(v, f, n) /\ (fn = FunApply \/ f = ByEngine(n)), "apply")
    /\ UNCHANGED <<at, proto, ccell, making, builtin, igen>>

\* hasOwnProperty.call(o, k): both builtins are tested by identity.
emit_hasown_call(c, t) == Bits(c) = builtin[FunCall] /\ Bits(t) = builtin[HasOwn]
HasOwnCall(c, t) ==
    /\ Note(emit_hasown_call(c, t) => c = FunCall /\ t = HasOwn, "apply")
    /\ UNCHANGED <<at, proto, cell, ccell, making, builtin, igen>>

\* new v(...), or super(...) into v; the prototype is made on the way if
\* nobody asked for it before.  young: `this` is allocated in the nursery,
\* and will fill the cell.
Construct(v, nt, argc, fits, young, fresh) ==
    /\ ~SuperArray /\ site.super => v # ArrayCtor
    /\ v \in Ids /\ (fresh # NoScript <=> proto[v] = "lazy" /\ Kind[v] = "normal")
    /\ \E a \in IF fresh = NoScript THEN {at} ELSE {[at EXCEPT ![fresh] = x] : x \in Nth(FreeIn(ProtoAddrs), 1)} :
       \E p \in {IF fresh = NoScript THEN proto[v] ELSE fresh} :
       \E k \in {emit_inline_classify(cell, v)} :
       \E out \in {emit_construct_classify(v, nt, k, argc, fits, p)} :
        /\ cell' = k.cell
        /\ at' = a
        /\ proto' = [proto EXCEPT ![v] = p]
        /\ making' = IF out.t = "this" /\ ~ConstructCellHit(v) /\ young
                     THEN [bits |-> Bits(v), callee |-> v, proto |-> GetPrototypeFromConstructor(p)] ELSE NotMaking
        /\ Note(ConstructSame(v, nt, out, p), "construct")
    /\ UNCHANGED <<ccell, builtin, igen>>

DispInit ==
    /\ site \in Sites
    /\ \E a \in Nth(TenuredAddrs, 1), b \in Nth(TenuredAddrs, 2), c \in Nth(TenuredAddrs, 3),
          d \in Nth(TenuredAddrs, 4), e \in Nth(TenuredAddrs, 5) :
        at = [Buried EXCEPT ![FunApply] = a, ![FunCall] = b, ![HasOwn] = c, ![ArrayCtor] = d, ![ObjectProto] = e]
    /\ proto = [i \in Ids |-> "lazy"]
    /\ cell = EmptyCell /\ ccell = EmptyCcell /\ making = NotMaking
    /\ builtin = [b \in Builtins |-> at[b]]
    /\ igen = 0 /\ dops = 0 /\ collections = 0 /\ wrong = {}

Dispatch ==
    \E v \in Callees, fits \in BOOLEAN :
        \/ site.fam = "call" /\ \E proven \in BOOLEAN : Call(v, proven, fits)
        \/ site.fam = "apply" /\ \E fn \in Callees \cap Functions, n \in ActualCounts(site) : Apply(fn, v, n, fits)
        \/ site.fam = "hasown" /\ fits /\ \E t \in Callees \cap Functions : HasOwnCall(v, t)
        \/ site.fam = "construct" /\
             \E nt \in (IF site.super THEN Callees ELSE {v}), argc \in {0, 1}, young \in BOOLEAN,
                fresh \in {NoScript} \cup {i \in site.ids : Kind[i] = "plain" /\ at[i] = 0} :
                Construct(v, nt, argc, fits, young, fresh)

Program ==
    \/ \E i \in site.ids : Allocate(i)
    \/ \E f \in site.ids \cap Live, q \in {"prim"} \cup ((site.ids \cap Live) \ Functions) :
           site.fam = "construct" /\ Reassign(f, q)

DispNext ==
    \/ (Program \/ Dispatch) /\ making = NotMaking /\ dops < site.ops /\ dops' = dops + 1 /\ UNCHANGED <<site, collections>>
    \/ create_this /\ UNCHANGED <<site, dops, collections>>
    \/ (MinorGC \/ MajorGC) /\ collections < MaxCollections /\ collections' = collections + 1
       /\ UNCHANGED <<site, dops>>

DispSpec == DispInit /\ [][DispNext]_dispVars

\* A compiled call enters the callee's own compiled body, with its own
\* script and a typed entry only when that entry's claims were proven for
\* it; what has no body, or no [[Call]], goes to the engine
\* (emit_inline_classify, emit_call_generic_to).
DispatchAgrees == "call" \notin wrong

\* A forward lets the target see the arguments it would have seen, and a
\* builtin taken for pristine is that builtin (emit_apply_forward,
\* emit_hasown_call).
ForwardAgrees == "apply" \notin wrong

\* `new` gives an object with the constructor's current prototype and runs
\* its body over it (emit_construct_classify, emit_construct_this).
ConstructAgrees == "construct" \notin wrong

\* A compiled call, forward or `new` does what the engine's own would, whatever was
\* stored, swept or moved since its site's cell was filled.
CallsAgree == DispatchAgrees /\ ForwardAgrees /\ ConstructAgrees
=============================================================================
