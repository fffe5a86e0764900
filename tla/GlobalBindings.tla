--------------------------- MODULE GlobalBindings ---------------------------
(***************************************************************************)
(* Global names in compiled code (runtime/NightRuntime.cpp, NightOps.cpp,  *)
(* NightHooks.cpp, compiler/src/wasm/bbv/gname.rs).                         *)
(*                                                                         *)
(* A compiled read of a global name tries, in this order, three caches in  *)
(* linear memory before it asks the engine:                                *)
(*   gfuse  the literal fuse (0 unarmed, 1 armed, 2 blown): armed, the     *)
(*          read IS a literal baked into the code;                         *)
(*   cell   the value-fuse cell [bits, word]: armed, the read is the bits; *)
(*   row    the gGlobalSlots row [entry, shape]: the shape matching the    *)
(*          global's, the read is a load of the cached slot.               *)
(* None of the three is traced by the GC and none is checked against the   *)
(* name's real binding, so every path that changes a global binding (the   *)
(* compiled store, the runtime helpers, the interpreter through the        *)
(* engine's hooks, a new global lexical, a moving GC) owes them a          *)
(* maintenance step.  This module has one action per such path.            *)
(*                                                                         *)
(* Abstractions.  A value is a primitive or a GC thing; what a bit pattern *)
(* means after its GC thing has moved is Dangling.  A cell's bits are      *)
(* dropped when it is not armed (no arm reads them then).  The global's    *)
(* shape is an address: two layouts alive at once never share one, a       *)
(* freed one may be reused.                                                *)
(***************************************************************************)
EXTENDS Integers, Sequences

CONSTANTS
    Names,       \* the names in both the binding and the fuse tables
    Prims,       \* primitive values
    Objs,        \* GC things (functions, objects, strings)
    Bodies,      \* compiled function bodies
    Shapes,      \* addresses the global's shape can have
    Literal,     \* [Names -> Prims \cup {NoLiteral}], the fuse table
    Expected,    \* [Names -> Bodies \cup {NoBody}], bindingExpectedIndex
    Target,      \* [Objs -> Bodies \cup {NoBody}], NightCalleeNightTarget
    FlipLimit,   \* kBindingFlipLimit
    EpochMod,    \* bindEpoch is compared modulo this (2^32 in the code)
    MaxFrames    \* bound: setters in progress under a set handshake

CONSTANTS NoLiteral, NoBody, NoValue, NoShape, Accessor, Dangling

Values == Prims \cup Objs

ASSUME ValuesAssumption ==
    /\ Prims \cap Objs = {}
    /\ NoLiteral \notin Prims
    /\ NoBody \notin Bodies
    /\ {NoValue, Accessor, Dangling} \cap Values = {}
    /\ NoValue # Accessor /\ NoValue # Dangling /\ Accessor # Dangling
    /\ NoShape \notin Shapes

ASSUME TablesAssumption ==
    /\ Literal \in [Names -> Prims \cup {NoLiteral}]
    /\ Expected \in [Names -> Bodies \cup {NoBody}]
    /\ Target \in [Objs -> Bodies \cup {NoBody}]

ASSUME BoundsAssumption ==
    /\ FlipLimit \in Nat
    /\ EpochMod \in Nat /\ EpochMod > 3
    /\ MaxFrames \in Nat

VARIABLES
    slot,       \* the global object's own property: value, Accessor or NoValue
    writable,   \* the names whose own data property is writable
    lex,        \* the global lexical of that name, or NoValue
    shape,      \* address of the global object's shape
    heapShapes, \* shape addresses the allocator may not hand out
    white,      \* of those, the ones the running major GC will free
    gc,         \* a major GC cycle is in progress
    young,      \* the GC things in the nursery
    row, cell, gfuse,
    nurseryArmed,   \* gState.nurseryArmedBindings
    flips,          \* gState.bindingFlips
    armingAllowed,  \* gState.bindingFuseArmingAllowed
    bindEpoch,      \* gBindEpoch
    active,         \* the runtime environment is installed
    shadowedAtInit, \* history: the names shadowed when it was installed
    frames          \* set handshakes whose setter is running, innermost last

heapVars == <<slot, writable, lex, shape, heapShapes, white, gc, young>>
layoutVars == <<writable, shape, heapShapes, white, gc>>
fuseVars == <<cell, gfuse, nurseryArmed, flips, armingAllowed, bindEpoch>>
modeVars == <<active, shadowedAtInit>>
vars == <<heapVars, row, fuseVars, modeVars, frames>>

Unarmed == [word |-> 0, bits |-> NoValue]
Blown == [word |-> 2, bits |-> NoValue]
Armed(v) == [word |-> 1, bits |-> v]
NoRow == [entry |-> "none", shape |-> NoShape]

IsData(n) == slot[n] \in Values

(***************************************************************************)
(* The fuse operations, on one cell.                                       *)
(***************************************************************************)

\* Mutant: the value change is not noticed.
MaybeBlowBindingFuseSkipped(c, v) == c

\* MaybeBlowBindingFuseId: a value change unarms, a same-bits rewrite does not.
MaybeBlowBindingFuse(c, v) == IF c.word = 1 /\ c.bits # v THEN Unarmed ELSE c

\* BlowBindingFuseId: an armed cell is retired; an unarmed one stays unarmed.
BlowBindingFuse(c) == IF c.word = 1 THEN Blown ELSE c

BodyOf(v) == IF v \in Objs THEN Target[v] ELSE NoBody

\* Mutants: armed although distrusted; armed with any callee.
MaybeArmBindingFuseDistrusted(n, c, s) ==
    IF c.word = 0 /\ s \in Values /\ (Expected[n] # NoBody => BodyOf(s) = Expected[n])
    THEN Armed(s) ELSE c

MaybeArmBindingFuseAnyCallee(n, c, s) ==
    IF armingAllowed /\ c.word = 0 /\ s \in Values THEN Armed(s) ELSE c

\* MaybeArmBindingFuse with NightTryBindingValue: s is the content of the
\* global OBJECT's own property, whatever the global lexicals are.
MaybeArmBindingFuse(n, c, s) ==
    IF /\ armingAllowed
       /\ c.word = 0
       /\ s \in Values
       /\ Expected[n] # NoBody => BodyOf(s) = Expected[n]
    THEN Armed(s) ELSE c

\* The names MaybeArmBindingFuse pushes on nurseryArmedBindings when it turns
\* the cell c of n into d.
NurseryPush(n, c, d, y) == IF c.word = 0 /\ d.word = 1 /\ d.bits \in y
                           THEN {n} ELSE {}

\* MaybeGnameFuseBlow, BlowGnameFuse(Key).  The fuse table is filled by
\* night_runtime_install_env, so before it they find nothing to blow.
MaybeGnameFuseBlow(n, g, v) ==
    IF active /\ Literal[n] # NoLiteral /\ v # Literal[n] THEN 2 ELSE g

BlowGnameFuse(n, g) == IF active /\ Literal[n] # NoLiteral THEN 2 ELSE g

\* Mutants: no read-back of the slot; a blown fuse is armed again.
MaybeGnameFuseArmNoReadBack(n, g, v, s) ==
    IF g = 0 /\ Literal[n] # NoLiteral /\ v = Literal[n] THEN 1 ELSE g

MaybeGnameFuseArmBlown(n, g, v, s) ==
    IF Literal[n] # NoLiteral /\ v = Literal[n] /\ s = Literal[n] THEN 1 ELSE g

\* MaybeGnameFuseArmAfterStore: v was written, s is the global's own slot after the store.
MaybeGnameFuseArmAfterStore(n, g, v, s) ==
    IF g = 0 /\ Literal[n] # NoLiteral /\ v = Literal[n] /\ s = Literal[n]
    THEN 1 ELSE g

\* NightResolveGlobalSlotGuarded: the row, NoRow when not cacheable.
NightResolveGlobalSlotGuarded(n) ==
    IF lex[n] = NoValue /\ IsData(n)
    THEN [entry |-> IF n \in writable THEN "rw" ELSE "ro", shape |-> shape]
    ELSE NoRow

\* Mutant: the epoch is not moved.
BumpForgotten(k) == bindEpoch

Bump(k) == (bindEpoch + k) % EpochMod

(***************************************************************************)
(* What compiled code does with the caches.                                *)
(***************************************************************************)

\* emit_gname_slot_prologue
RowHit(n) == row[n].entry # "none" /\ row[n].shape = shape

\* The name's value by the language: the lexical, else the own property.
BindingValue(n) == IF lex[n] # NoValue THEN lex[n] ELSE slot[n]

\* emit_get_gname_inline_guarded: the armed cell, then the row, then the helper.
\* A row hit loads the slot the row names.
GuardedRead(n) ==
    IF cell[n].word = 1 THEN cell[n].bits
    ELSE IF RowHit(n) THEN (IF IsData(n) THEN slot[n] ELSE Dangling)
    ELSE BindingValue(n)

\* emit_get_gname: the armed literal fuse, then the guarded arms.
CompiledRead(n) ==
    IF Literal[n] # NoLiteral /\ gfuse[n] = 1 THEN Literal[n] ELSE GuardedRead(n)

\* The fuse-guarded call arm: the callee's bits are the armed cell's, so the
\* predicted body is called with no further check.
FuseCallHits(n) == Expected[n] # NoBody /\ cell[n].word = 1

(***************************************************************************)
(* The engine's operations on the global, with the hooks they run.         *)
(***************************************************************************)

\* A layout change gives the global a shape at an address not in use.
Reshape ==
    \E s \in Shapes \ heapShapes :
        /\ shape' = s
        /\ heapShapes' = heapShapes \cup {s}
        /\ UNCHANGED <<white, gc>>

\* The last half of a store to n, of v, after which the global's own property
\* holds s: with rearm, MaybeGnameFuseArmAfterStore and MaybeRearmBindingFuseAtom.
Settle(n, c, g, s, v, rearm) ==
    LET d == IF rearm THEN MaybeArmBindingFuse(n, c, s) ELSE c IN
    /\ cell' = [cell EXCEPT ![n] = d]
    /\ nurseryArmed' = nurseryArmed \cup NurseryPush(n, c, d, young)
    /\ gfuse' = [gfuse EXCEPT ![n] =
                   IF rearm THEN MaybeGnameFuseArmAfterStore(n, g, v, s)
                            ELSE g]

\* NativeSetProperty on an existing writable data property; the engine calls
\* globalDataStored (NightGlobalDataStore).
SetExisting(n, v, c, g, k, rearm) ==
    /\ IsData(n) /\ n \in writable
    /\ slot' = [slot EXCEPT ![n] = v]
    /\ Settle(n, MaybeBlowBindingFuse(c, v), MaybeGnameFuseBlow(n, g, v), v, v, rearm)
    /\ bindEpoch' = Bump(k + 1)
    /\ UNCHANGED layoutVars

\* NativeSetProperty of a name the global does not have: an add, which may or
\* may not pass the globalKeyChanged hook (NightGlobalKeyBlow).
SetAbsent(n, v, c, g, k, rearm) ==
    /\ slot[n] = NoValue
    /\ slot' = [slot EXCEPT ![n] = v]
    /\ writable' = writable \cup {n}
    /\ Reshape
    /\ \/ /\ Settle(n, c, g, v, v, rearm)
          /\ bindEpoch' = Bump(k)
       \/ /\ Settle(n, BlowBindingFuse(c), BlowGnameFuse(n, g), v, v, rearm)
          /\ bindEpoch' = Bump(k + 1)

\* Sloppy-mode store to a read-only property: reports success, stores nothing.
SetIgnored(n, v, c, g, k, rearm) ==
    /\ IsData(n) /\ n \notin writable
    /\ Settle(n, c, g, slot[n], v, rearm)
    /\ bindEpoch' = Bump(k)
    /\ UNCHANGED <<slot, layoutVars>>

\* A store that throws: strict mode on a read-only or (by name) absent property.
SetRefused(n, v, c, g, k) ==
    /\ slot[n] = NoValue \/ (IsData(n) /\ n \notin writable)
    /\ Settle(n, c, g, slot[n], v, FALSE)
    /\ bindEpoch' = Bump(k)
    /\ UNCHANGED <<slot, layoutVars>>

GlobalSet(n, v, c, g, k, rearm) ==
    /\ \/ SetExisting(n, v, c, g, k, rearm)
       \/ SetAbsent(n, v, c, g, k, rearm)
       \/ SetIgnored(n, v, c, g, k, rearm)
       \/ SetRefused(n, v, c, g, k)
    /\ UNCHANGED <<lex, young, row, flips, armingAllowed, modeVars, frames>>

\* Interpreted code stores to n: no helper runs, only the engine's hooks.
InterpretedSet(n, v) == GlobalSet(n, v, cell[n], gfuse[n], 0, FALSE)

\* NativeDefineProperty: n becomes a data property holding s, or an accessor.
DefineProperty(n, s, w) ==
    LET sameLayout == IsData(n) /\ s \in Values /\ (n \in writable) = w IN
    /\ s = Accessor => ~w
    /\ slot' = [slot EXCEPT ![n] = s]
    /\ writable' = IF w THEN writable \cup {n} ELSE writable \ {n}
    /\ IF sameLayout THEN UNCHANGED <<shape, heapShapes, white, gc>> ELSE Reshape
    /\ cell' = [cell EXCEPT ![n] = BlowBindingFuse(@)]
    /\ gfuse' = [gfuse EXCEPT ![n] = BlowGnameFuse(n, @)]
    /\ bindEpoch' = Bump(1)
    /\ UNCHANGED <<lex, young, row, nurseryArmed, flips, armingAllowed, modeVars, frames>>

\* The own property n is deleted (NativeDeleteProperty, NightGlobalKeyBlow), by
\* interpreted code or by night_runtime_del_prop, _del_name and _del_elem, whose
\* own blows add nothing to the hook's when the property goes.
DeleteProperty(n) ==
    /\ slot[n] # NoValue
    /\ slot' = [slot EXCEPT ![n] = NoValue]
    /\ writable' = writable \ {n}
    /\ Reshape
    /\ cell' = [cell EXCEPT ![n] = BlowBindingFuse(@)]
    /\ gfuse' = [gfuse EXCEPT ![n] = BlowGnameFuse(n, @)]
    /\ bindEpoch' = Bump(1)
    /\ UNCHANGED <<lex, young, row, nurseryArmed, flips, armingAllowed, modeVars, frames>>

\* Some other property of the global is added, changed or removed.
ReshapeOther ==
    /\ Reshape
    /\ UNCHANGED <<slot, writable, lex, young, row, fuseVars, modeVars, frames>>

\* InitGlobalOrEvalDeclarations adds a global lexical n
\* (night_runtime_global_lexical_shadow_added).
AddLexical(n, v) ==
    /\ lex[n] = NoValue
    /\ lex' = [lex EXCEPT ![n] = v]
    /\ row' = IF active THEN [row EXCEPT ![n] = NoRow] ELSE row
    /\ cell' = [cell EXCEPT ![n] = BlowBindingFuse(@)]
    /\ gfuse' = [gfuse EXCEPT ![n] = BlowGnameFuse(n, @)]
    /\ bindEpoch' = Bump(1)
    /\ UNCHANGED <<slot, layoutVars, young, nurseryArmed, flips, armingAllowed,
                   modeVars, frames>>

\* Interpreted code assigns the global lexical n: no hook is told.
InterpretedSetLexical(n, v) ==
    /\ lex[n] # NoValue
    /\ lex' = [lex EXCEPT ![n] = v]
    /\ UNCHANGED <<slot, layoutVars, young, row, fuseVars, modeVars, frames>>

(***************************************************************************)
(* Compiled code and the runtime helpers it calls.                         *)
(***************************************************************************)

\* night_runtime_resolve_global_slot_guarded: refill the row and, when the name
\* is cacheable, try to arm the cell.
ResolveGlobalSlot(n) ==
    LET r == NightResolveGlobalSlotGuarded(n)
        d == IF r # NoRow THEN MaybeArmBindingFuse(n, cell[n], slot[n]) ELSE cell[n]
    IN
    /\ row' = [row EXCEPT ![n] = r]
    /\ cell' = [cell EXCEPT ![n] = d]
    /\ nurseryArmed' = nurseryArmed \cup NurseryPush(n, cell[n], d, young)
    /\ UNCHANGED <<heapVars, gfuse, flips, armingAllowed, bindEpoch, modeVars, frames>>

\* A compiled read every arm of which misses resolves the name again.
GetGName(n) ==
    /\ active
    /\ ~(Literal[n] # NoLiteral /\ gfuse[n] = 1) /\ cell[n].word # 1 /\ ~RowHit(n)
    /\ ResolveGlobalSlot(n)

\* emit_bind_gname_inline looks at the row only.
BindGName(n) ==
    /\ active
    /\ ~RowHit(n)
    /\ ResolveGlobalSlot(n)

\* night_runtime_binding_value, from the re-check of a carried value fact: it
\* resolves whenever the cell is not armed.
BindingValueHelper(n) ==
    /\ active
    /\ cell[n].word # 1
    /\ ResolveGlobalSlot(n)

\* Mutant: a primitive leaves the armed cell as it is.
WriteThroughMissed(n, c, v) ==
    IF c.word # 1 \/ c.bits = v \/ v \in Prims THEN c
    ELSE IF flips[n] >= FlipLimit THEN Blown
    ELSE MaybeArmBindingFuse(n, Unarmed, v)

\* emit_blow_binding_value_fuse and night_runtime_binding_written: a changed
\* primitive writes through an armed cell; a GC thing unarms it and the runtime
\* re-arms it, until the binding has flipped too often.
WriteThrough(n, c, v) ==
    IF c.word # 1 \/ c.bits = v THEN c
    ELSE IF v \in Prims THEN Armed(v)
    ELSE IF flips[n] >= FlipLimit THEN Blown
    ELSE MaybeArmBindingFuse(n, Unarmed, v)

\* emit_set_name_inline_guarded, on a row that hits and is writable or after the
\* re-resolve that makes it so.  The store is raw: no engine hook sees it.
SetGNameInline(n, v) ==
    LET hit == RowHit(n) /\ row[n].entry = "rw"
        r == IF hit THEN row[n] ELSE NightResolveGlobalSlotGuarded(n)
        c == IF hit THEN cell[n] ELSE MaybeArmBindingFuse(n, cell[n], slot[n])
        d == WriteThrough(n, c, v)
    IN
    /\ active
    /\ r.entry = "rw"
    /\ slot' = [slot EXCEPT ![n] = v]
    /\ row' = [row EXCEPT ![n] = r]
    /\ cell' = [cell EXCEPT ![n] = d]
    /\ nurseryArmed' = nurseryArmed \cup NurseryPush(n, cell[n], c, young)
                       \cup (IF v \in Objs /\ d # c THEN NurseryPush(n, Unarmed, d, young) ELSE {})
    /\ flips' = IF c.word = 1 /\ c.bits # v /\ v \in Objs /\ flips[n] <= FlipLimit
                THEN [flips EXCEPT ![n] = @ + 1] ELSE flips
    /\ gfuse' = IF Literal[n] = NoLiteral THEN gfuse
                ELSE [gfuse EXCEPT ![n] = IF v # Literal[n] THEN 2
                                          ELSE IF @ = 0 THEN 1 ELSE @]
    /\ bindEpoch' = Bump(1)
    /\ UNCHANGED <<layoutVars, lex, young, armingAllowed, modeVars, frames>>

\* night_runtime_set_name on the global, night_runtime_set_property and (for a
\* name with a literal fuse) night_runtime_set_prop_ic_miss on globalThis: blow,
\* store, and only after a successful store arm.
SetHandshake(n, v) ==
    /\ active
    /\ GlobalSet(n, v, MaybeBlowBindingFuse(cell[n], v),
                 MaybeGnameFuseBlow(n, gfuse[n], v), 1, TRUE)

\* The same on an accessor: the blow half, then the setter runs.
SetCallsSetter(n, v) ==
    /\ active
    /\ slot[n] = Accessor
    /\ Len(frames) < MaxFrames
    /\ frames' = Append(frames, [name |-> n, val |-> v])
    /\ cell' = [cell EXCEPT ![n] = MaybeBlowBindingFuse(@, v)]
    /\ gfuse' = [gfuse EXCEPT ![n] = MaybeGnameFuseBlow(n, @, v)]
    /\ bindEpoch' = Bump(1)
    /\ UNCHANGED <<heapVars, row, nurseryArmed, flips, armingAllowed, modeVars>>

\* The innermost setter returns: the arm half, on whatever the setter left.
SetterReturns ==
    /\ frames # <<>>
    /\ LET top == frames[Len(frames)] IN
       Settle(top.name, cell[top.name], gfuse[top.name], slot[top.name], top.val, TRUE)
    /\ frames' = SubSeq(frames, 1, Len(frames) - 1)
    /\ UNCHANGED <<heapVars, row, flips, armingAllowed, bindEpoch, modeVars>>

\* The innermost setter throws: the helper returns before the arm half.
SetterThrows ==
    /\ frames # <<>>
    /\ frames' = SubSeq(frames, 1, Len(frames) - 1)
    /\ UNCHANGED <<heapVars, row, fuseVars, modeVars>>

\* night_runtime_set_name whose bound environment is the global lexical one.
\* The store may throw (a const, the temporal dead zone).
SetNameLexical(n, v) ==
    LET c == MaybeBlowBindingFuse(cell[n], v)
        g == MaybeGnameFuseBlow(n, gfuse[n], v)
    IN
    /\ active
    /\ lex[n] # NoValue
    /\ \/ /\ lex' = [lex EXCEPT ![n] = v]
          /\ Settle(n, c, g, slot[n], v, TRUE)
       \/ /\ Settle(n, c, g, slot[n], v, FALSE)
          /\ UNCHANGED lex
    /\ bindEpoch' = Bump(1)
    /\ UNCHANGED <<slot, layoutVars, young, row, flips, armingAllowed, modeVars, frames>>

\* night_runtime_set_prop_ic_miss on globalThis, for a name with no literal fuse:
\* the blow, then the generic set, which does not re-arm.
SetPropIcMiss(n, v) ==
    /\ active
    /\ Literal[n] = NoLiteral
    /\ GlobalSet(n, v, MaybeBlowBindingFuse(cell[n], v), gfuse[n], 1, FALSE)

\* night_runtime_set_element on globalThis with a computed key.
SetElement(n, v) ==
    /\ active
    /\ GlobalSet(n, v, BlowBindingFuse(cell[n]), BlowGnameFuse(n, gfuse[n]), 1, FALSE)

\* night_runtime_del_prop and _del_name of a property that stays: both fuses are
\* blown by atom, which leaves the epoch alone.
DeleteRefused(n) ==
    /\ active
    /\ cell' = [cell EXCEPT ![n] = BlowBindingFuse(@)]
    /\ gfuse' = [gfuse EXCEPT ![n] = BlowGnameFuse(n, @)]
    /\ UNCHANGED <<heapVars, row, nurseryArmed, flips, armingAllowed, bindEpoch, modeVars,
                   frames>>

\* The blows by key that run ahead of an operation that may then fail or take any
\* course: the defineProperty intercept of night_runtime_call, a refused del_elem,
\* set_element on an accessor.
BlowKey(n) ==
    /\ active
    /\ cell' = [cell EXCEPT ![n] = BlowBindingFuse(@)]
    /\ gfuse' = [gfuse EXCEPT ![n] = BlowGnameFuse(n, @)]
    /\ bindEpoch' = Bump(1)
    /\ UNCHANGED <<heapVars, row, nurseryArmed, flips, armingAllowed, modeVars, frames>>

\* BlowAllBindingFuses, BlowAllGnameFuses: Object.defineProperties on the global,
\* and a key whose conversion throws.
BlowAll ==
    /\ active
    /\ cell' = [n \in Names |-> BlowBindingFuse(cell[n])]
    /\ gfuse' = [n \in Names |-> BlowGnameFuse(n, gfuse[n])]
    /\ bindEpoch' = Bump(1)
    /\ UNCHANGED <<heapVars, row, nurseryArmed, flips, armingAllowed, modeVars, frames>>

(***************************************************************************)
(* Garbage collection.                                                     *)
(***************************************************************************)

\* A new GC thing is born in the nursery.
Allocate(o) ==
    /\ o \notin young
    /\ \A n \in Names : slot[n] # o /\ lex[n] # o
    /\ young' = young \cup {o}
    /\ UNCHANGED <<slot, lex, layoutVars, row, fuseVars, modeVars, frames>>

\* What a cell's bits are once the things in moved have a new address.
Moved(c, moved) == IF c.word = 1 /\ c.bits \in moved THEN Armed(Dangling) ELSE c

\* NightNurseryEndCallback on n's cell, which the collection left as c: an armed
\* cell on the nursery list is armed again from the slot, then an unarmed cell of
\* a resolved row is armed.
NurseryEnd(n, c) ==
    LET listed == n \in nurseryArmed /\ c.word = 1
        d == IF listed THEN MaybeArmBindingFuse(n, Unarmed, slot[n]) ELSE c
    IN IF row[n].entry # "none" /\ d.word = 0
       THEN MaybeArmBindingFuse(n, d, slot[n]) ELSE d

\* A minor GC: everything in the nursery moves, keep stays in it.
MinorGC(keep) ==
    LET left(n) == Moved(cell[n], young)
        unlisted(n) == IF n \in nurseryArmed /\ left(n).word = 1 THEN Unarmed ELSE left(n)
    IN
    /\ young # {}
    /\ young' = keep
    /\ cell' = [n \in Names |-> NurseryEnd(n, left(n))]
    /\ nurseryArmed' = {n \in Names : NurseryPush(n, unlisted(n), NurseryEnd(n, left(n)), keep) # {}}
    /\ UNCHANGED <<slot, lex, layoutVars, row, gfuse, flips, armingAllowed, bindEpoch,
                   modeVars, frames>>

\* Mutant: the purge misses the rows.
PurgedRowKept(r) == r

\* NightPurgeMovableCaches zeroes the rows and the cells, not the literal fuses.
PurgedRow(r) == NoRow
PurgedCell(c) == Unarmed

PurgeMovableCaches(moved) ==
    /\ row' = [n \in Names |-> PurgedRow(row[n])]
    /\ cell' = [n \in Names |-> PurgedCell(Moved(cell[n], moved))]
    /\ UNCHANGED <<gfuse, nurseryArmed, flips, armingAllowed, bindEpoch, modeVars, frames>>

\* GC_CYCLE_BEGIN: every shape but the live one will be freed.
GCCycleBegin ==
    /\ ~gc
    /\ gc' = TRUE
    /\ white' = heapShapes \ {shape}
    /\ PurgeMovableCaches({})
    /\ UNCHANGED <<slot, writable, lex, shape, heapShapes, young>>

\* A sweep slice of a non-shrinking GC: no purge at its end.
GCSweepSlice ==
    /\ gc /\ white # {}
    /\ heapShapes' = heapShapes \ white
    /\ white' = {}
    /\ UNCHANGED <<slot, writable, lex, shape, gc, young, row, fuseVars, modeVars, frames>>

\* A compacting slice of a shrinking GC: tenured things and the shape move;
\* GC_SLICE_END purges.
GCCompactSlice ==
    /\ gc /\ white = {}
    /\ \E s \in Shapes \ heapShapes :
        /\ shape' = s
        /\ heapShapes' = (heapShapes \ {shape}) \cup {s}
    /\ PurgeMovableCaches(Objs \ young)
    /\ UNCHANGED <<slot, writable, lex, white, gc, young>>

\* GC_CYCLE_END
GCCycleEnd ==
    /\ gc /\ white = {}
    /\ gc' = FALSE
    /\ PurgeMovableCaches({})
    /\ UNCHANGED <<slot, writable, lex, shape, heapShapes, white, young>>

(***************************************************************************)
(* Activation.                                                             *)
(***************************************************************************)

\* JS::NightActivate; with NightFlagToplevelExecutedAtInit it runs
\* night_runtime_arm_gname_fuses_from_live.
Activate(executedAtInit) ==
    /\ ~active
    /\ active' = TRUE
    /\ shadowedAtInit' = {n \in Names : lex[n] # NoValue}
    /\ gfuse' = [n \in Names |->
                  IF executedAtInit
                  THEN MaybeGnameFuseArmAfterStore(n, gfuse[n], Literal[n], slot[n])
                  ELSE gfuse[n]]
    /\ UNCHANGED <<heapVars, row, cell, nurseryArmed, flips, armingAllowed, bindEpoch, frames>>

\* The in-process install: night_runtime_distrust_global_fuses.
ActivateInprocess ==
    /\ ~active
    /\ active' = TRUE
    /\ shadowedAtInit' = {n \in Names : lex[n] # NoValue}
    /\ armingAllowed' = FALSE
    /\ cell' = [n \in Names |-> BlowBindingFuse(cell[n])]
    /\ gfuse' = [n \in Names |-> IF Literal[n] # NoLiteral THEN 2 ELSE gfuse[n]]
    /\ bindEpoch' = Bump(1)
    /\ UNCHANGED <<heapVars, row, nurseryArmed, flips, frames>>

Init ==
    /\ slot = [n \in Names |-> NoValue]
    /\ writable = {}
    /\ lex = [n \in Names |-> NoValue]
    /\ shape \in Shapes
    /\ heapShapes = {shape}
    /\ white = {}
    /\ gc = FALSE
    /\ young = {}
    /\ row = [n \in Names |-> NoRow]
    /\ cell = [n \in Names |-> Unarmed]
    /\ gfuse = [n \in Names |-> 0]
    /\ nurseryArmed = {}
    /\ flips = [n \in Names |-> 0]
    /\ armingAllowed = TRUE
    /\ bindEpoch = 0
    /\ active = FALSE
    /\ shadowedAtInit = {}
    /\ frames = <<>>

NextInterpreted ==
    \/ \E n \in Names, v \in Values : InterpretedSet(n, v)
    \/ \E n \in Names, s \in Values \cup {Accessor}, w \in BOOLEAN : DefineProperty(n, s, w)
    \/ \E n \in Names : DeleteProperty(n)
    \/ ReshapeOther
    \/ \E n \in Names, v \in Values : AddLexical(n, v)
    \/ \E n \in Names, v \in Values : InterpretedSetLexical(n, v)

NextCompiled ==
    \/ \E n \in Names : GetGName(n) \/ BindGName(n) \/ BindingValueHelper(n)
    \/ \E n \in Names, v \in Values : SetGNameInline(n, v)
    \/ \E n \in Names, v \in Values : SetHandshake(n, v)
    \/ \E n \in Names, v \in Values : SetCallsSetter(n, v)
    \/ SetterReturns
    \/ SetterThrows
    \/ \E n \in Names, v \in Values : SetNameLexical(n, v)
    \/ \E n \in Names, v \in Values : SetPropIcMiss(n, v)
    \/ \E n \in Names, v \in Values : SetElement(n, v)
    \/ \E n \in Names : DeleteRefused(n)
    \/ \E n \in Names : BlowKey(n)
    \/ BlowAll

NextGC ==
    \/ \E o \in Objs : Allocate(o)
    \/ \E keep \in SUBSET young : MinorGC(keep)
    \/ GCCycleBegin
    \/ GCSweepSlice
    \/ GCCompactSlice
    \/ GCCycleEnd

NextActivate ==
    \/ \E executedAtInit \in BOOLEAN : Activate(executedAtInit)
    \/ ActivateInprocess

Next == NextInterpreted \/ NextCompiled \/ NextGC \/ NextActivate

Spec == Init /\ [][Next]_vars

-----------------------------------------------------------------------------
(***************************************************************************)
(* Properties.                                                             *)
(***************************************************************************)

\* The type invariant; the epoch stays in its width, the flip counter saturates.
TypeOK ==
    /\ slot \in [Names -> Values \cup {NoValue, Accessor}]
    /\ writable \subseteq Names
    /\ lex \in [Names -> Values \cup {NoValue}]
    /\ shape \in Shapes
    /\ heapShapes \subseteq Shapes
    /\ white \subseteq Shapes
    /\ gc \in BOOLEAN
    /\ young \subseteq Objs
    /\ row \in [Names -> [entry : {"none", "ro", "rw"}, shape : Shapes \cup {NoShape}]]
    /\ cell \in [Names -> [word : 0..2, bits : Values \cup {NoValue, Dangling}]]
    /\ gfuse \in [Names -> 0..2]
    /\ nurseryArmed \subseteq Names
    /\ flips \in [Names -> 0..(FlipLimit + 1)]
    /\ armingAllowed \in BOOLEAN
    /\ bindEpoch \in 0..(EpochMod - 1)
    /\ active \in BOOLEAN
    /\ shadowedAtInit \subseteq Names
    /\ frames \in Seq([name : Names, val : Values])

\* What a compiled read of a global name serves, whichever of its arms hits, is
\* the name's value, for a name no global lexical shadows.
ReadIsCurrent == \A n \in Names : lex[n] = NoValue => CompiledRead(n) = BindingValue(n)

\* A row that hits (its shape word is the live shape's address) names an own data
\* slot of an unshadowed binding and has its writability right, through reshapes,
\* shadowing and the reuse of a freed shape's address.
RowHitIsValid ==
    \A n \in Names : RowHit(n) =>
        lex[n] = NoValue /\ IsData(n) /\ (row[n].entry = "rw" <=> n \in writable)

\* An armed cell mirrors the global object's own data slot: no store, delete,
\* redefinition or moving GC leaves it armed with other bits.
ArmedCellMirrorsSlot == \A n \in Names : cell[n].word = 1 => cell[n].bits = slot[n]

\* A cell armed with a nursery address is on the list the next minor GC re-arms.
NurseryCellIsListed ==
    \A n \in Names : cell[n].word = 1 /\ cell[n].bits \in young => n \in nurseryArmed

\* What an armed cell holds is the slot's value, and stays so over the next minor GC.
ArmedCells == ArmedCellMirrorsSlot /\ NurseryCellIsListed

\* An armed literal fuse means the own slot holds the literal, and that no global
\* lexical was added since the environment was installed.
LiteralFuseIsSound ==
    \A n \in Names : gfuse[n] = 1 =>
        /\ Literal[n] # NoLiteral /\ slot[n] = Literal[n]
        /\ lex[n] # NoValue => n \in shadowedAtInit

\* A GC thing in the armed cell of a call-predicted binding has the predicted body.
ArmedObjectIsPredicted ==
    \A n \in Names : FuseCallHits(n) /\ cell[n].bits \in Objs =>
        BodyOf(cell[n].bits) = Expected[n]

\* In-process mode distrusts the fuses for good: nothing arms after the install.
DistrustIsFinal == ~armingAllowed => \A n \in Names : cell[n].word # 1 /\ gfuse[n] # 1

\* A blown literal fuse stays blown, whatever is stored and whatever the GC does.
StaysBlown == \A n \in Names : gfuse[n] = 2 => gfuse'[n] = 2
BlownLiteralIsSticky == [][StaysBlown]_vars

\* A step that changes what the global's own slot of a name holds moves the binding
\* epoch, which is all compiled code checks to keep a fact across a call.
MovesEpoch == active => \A n \in Names : slot'[n] # slot[n] /\ IsData(n) => bindEpoch' # bindEpoch
EpochCoversStores == [][MovesEpoch]_vars
=============================================================================
