# Verifying NightMonkey with TLA+

NightMonkey compiles JavaScript ahead of time to WebAssembly on top of
SpiderMonkey. A whole-program analysis predicts types, layouts, callees and
constants; the code generator emits optimistic code that trusts those
predictions behind cheap guards; and the runtime keeps, in linear memory, the
small words those guards read: fuses, cells, cache rows, class words, epochs.
The program is correct when a guard that passes implies the fact the code
behind it relies on. The words are written by three parties that do not know
of each other (compiled code, the runtime helpers it calls, and the engine's
interpreter and collector through hooks), so most of what can go wrong is a
sequence: a write on one path, a missed maintenance step, a read on another.
That is what this development models.

Source paths below are relative to the repository (`src/`).

Contents: 1 the system, 2 the runs, 3 the modules, 4 what is proved, 5 fairness
and liveness, 6 where code and comments part, 7 what is not modelled, 8 what is
left, 9 running.

## 1. The system

| Component | State | Operations | Hard part | Module |
|---|---|---|---|---|
| Global name caches and fuses (`NightRuntime.cpp`, `NightOps.cpp`, `NightHooks.cpp`, `bbv/gname.rs`) | literal fuse, value-fuse cell and slot row per name; flip counters; nursery list; binding epoch | compiled read, bind and store; set and delete helpers; engine hooks; GC callbacks; activation, distrust | three untraced caches, setters in the middle of a store, moving and incremental collection, lexical shadowing | `GlobalBindings` |
| Object class words (`NightObjectWord.h`, `bbv/facts.rs`, `frame.rs`, `property.rs`, `object.rs`) | one word per object: index, early key, sentinel, SLOTS/TYPES/RANGES bits; the stamp epoch | allocation, stamps and restamps at returns, adds and stores of every kind, structural change, guards, facts carried over calls | the word is published long after the stores it summarises; delegates advance it; facts outlive calls | `ObjectStamp` |
| Inline property caches (`NightInlineCaches.cpp`, `bbv/property.rs`, `object.rs`) | get and set ways, shared tables, guarded chains, transition and initialiser rows | probe, populate, replay, purge | publication order, shape addresses reused, prototypes that change | `PropertyCaches` |
| Element and length access (`bbv/element.rs`, `NightRuntime.cpp`) | append rows, chain cache, typed-array facts, store buffer | element get and set, push, pop, literals, length | holes and prototypes, detaching, conversions at the word's edge, barriers | `ElementAccess` |
| Calls, construct, forwarding (`bbv/call.rs`, `emit.rs`, `facts.rs`) | call, construct and builtin cells; the effect word; facts of waiting frames | dispatch, allocation of `this`, forwards, keep or merge after a call | cells hold raw addresses; a caller goes on with facts the callee may have broken | `CallDispatch`, `CallKeep` |
| Value stack, entry and re-entry (`NightStack.*`, `NightEntry.cpp`, `bbv/frame.rs`, `version.rs`) | the stack, the published top, frames, operands in registers | enter, resume, call, splice, spill, reload, return, throw, collect | the stack is compiled code's only root; frames overlap their callers' operands | `ValueStack` |
| Exceptional control flow, generators (`bbv/frame.rs`, `generator.rs`, `NightGenerator.cpp`) | try and scope notes, operand and environment depth, generator state | throw, close, land, yield, resume, forced return | the handler is computed from the pc alone | `Unwind` |
| Operator semantics (`opsem.rs`, `likelier/types.rs`, `bbv/arith.rs`) | prim classes, magnitudes, intervals | transfer functions, lowerings | overflow, -0, NaN, truncation demand | `OpSemantics`, `ArithClaims`, `ArithLowering` |
| Passes (`bbv/live.rs`, `cfg.rs`, `licm.rs`, `effects.rs`) | graph, dominators, loops, live sets, hoisted code | fixpoints, motion | loops with two entries, exceptional edges, helper effects | `BodyGraph`, `Licm` |
| Basic-block versioning (`bbv/version.rs`, `predict.rs`, `arms.rs`, `mod.rs`, `ctx.rs`) | versions, predictions, marks, carriers | request, join, prove, degrade, link | termination, loops, facts killed on some edge | `SlotContext`, `Versioning` |
| Likely-facts analysis (`likelier/engine.rs`, `effects.rs`) | cells, subscriptions, links, rows, effect summaries | read, raise, link, instantiate, join | termination, lost wake-ups, order | `Worklist`, `EffectSummary` |
| Regular expressions (`wasm/regex.rs`, `NightRegExp.cpp`) | backtrack buffer, registers, budget | translate, match | exhausted storage, unsigned bounds | `RegexMachine`, `RegexInterp` |

Registration, in-process injection, the snapshot reader, module assembly, the
parser and the tools have no module (section 7).

How they interact. Compiled code calls `night_runtime_*` helpers; helpers call
the engine, which may run user code (setters, getters, constructors) that is
again compiled code; the engine calls hooks (`NightHooks.cpp`) on stores to the
global and on shape changes; the collector calls the purge, slice and
nursery-end callbacks. The stack, the epochs and the words of linear memory are
shared by all of them. There is one thread: concurrency here is re-entrancy and
collection at a call. The analysis and the passes run before any of this, one
after the other; the facts they produce are the constants of the run-time
modules.

## 2. The runs

| Run | Instance | Shows |
|---|---|---|
| `literal_fuse` | `MCGlobalBindings`: one fused constant name, 2 primitives, 1 object, 3 shapes, 2 nested setters | `ReadIsCurrent`, `RowHitIsValid`, `LiteralFuseIsSound`, `DistrustIsFinal`, `BlownLiteralIsSticky`, `EpochCoversStores` |
| `predicted_callee` | `MCGlobalBindings`: one call-predicted name, 1 primitive, 2 functions with different bodies | `ArmedCells` (mirrors the slot, and nursery values are listed), `ArmedObjectIsPredicted` |
| `stamp` | `MCObjectStamp`: a class with two sibling subclasses that extend its layout differently, a class with an init delegate, and an unresolved construct site; claims and ranges, fixed and dynamic slots, 2 nested bodies | `SlotsHold`, `StampedValuesHold`, `FactHolds` |
| `analyses` | `MCAnalyses`: the worklist over two rows with a cycle through a link; effect summaries of all pairs of ops and of call rings; a 5-bit word, every pair of interval facts and of growing operand cells; whole patterns on all short subjects and single instructions at the subject's edges | `Solved`, `NoMissedWakeup`, `CellsGrow`, `Drains`; `SummariesExact`, `SummariesSettle`; `ClaimsSound`, `ClaimsMonotone`; `BufferSafe`, `Matches` (refinement), `MatchEnds` |
| `codegen` | `MCCodegen`: all flows over three ops and tangled, spliced ones; loops with every pairing of read and write, and a cache site whose row the calls refill; expressions over every carrier; slot facts of every kind; five scripts with loops, calls, throws and splices, compiled and run | `GraphHolds`, `LiveIsReadBeforeWrite`, `AnalysesEnd`; `MotionSound`; `LoweringSound`; `ContextSound`; `CodeSound`, `CompileEnds` |
| `inline_paths` | `MCInlinePaths`: property rows over 6 shape addresses and a two-step prototype chain; two element sites over five pairs of classes | `PropAgrees`, `ElemAgrees`, `NurseryEdgesRemembered` |
| `calls` | `MCCalls`: eleven call, construct and forward sites; three nested frames keeping facts; six bodies with handlers; up to three activations on a stack of 45 slots | `CallsAgree`, `KeptHolds`, `UnwindsAsWritten`, `Rooted`, `FrameAsCalled`, `TopIsBack`, `FramesFit` |
| `apply_forward` | `MCCalls` with a forward target that is not the predicted one | a counterexample to `ForwardAgrees` (section 6) |
| `splice_surplus` | `MCCalls` with a raw actual past the formals of a splice | a counterexample to `FrameAsCalled` (section 6) |
| `super_array` | `MCCalls` with a site that is a `super()` into Array | a counterexample to `ConstructAgrees` (section 6) |
| `row_words` | `MCCodegen` with calls that may run a major collection | a counterexample to `StaleRowsMiss`, a part of `MotionSound` (section 6) |
| `closes_pending` | `MCCodegen` with a script that calls in a for-in inside a try | a counterexample to `NothingLost`, a part of `CodeSound` (section 6) |

A run of several modules takes one of them per behaviour (`part`, `path`, `pass`,
`analysis`): they share no state in the code either, or share it through the
constants. `PROJECT.json` says for each property which change to the code would
break it.

Bounds.

- Global names: two names share only the global's shape, and `ReshapeOther` is
  what another name does to it, so one name is enough. Three shapes let a cached
  one be freed and its address reused while another is live. `FlipLimit` is 1
  (1024 in the code would only repeat the write-through). `EpochMod` is 4 in
  place of 2^32; it only has to exceed the three moves one step can make.
- Class words: two siblings are what makes an add toward one a misprediction of the
  other, and one of them claims more than the superclass; the fifth key is past
  `EarlyKeyMax` and one site is unresolved, so keyless births occur, and `PairCap` 2
  makes the degraded prediction list occur.
- Cache rows in loops: two receiver shapes are enough for a shape word and a slot word
  to belong to different fillings.
- Arithmetic: the rules only compare the word width, the exact domain and the
  rungs, so a 3- or 5-bit word with rungs in between exercises every branch.
- Calls: a call cell needs one collection to go stale and a second to have its
  address reused; a kept fact needs a frame, its callee and the callee's callee.
  On the value stack three activations give a helper-mediated entry inside a
  direct call inside an entry; 45 slots with a headroom of 29 let the limit be
  reached in the third (one body has 13 locals for that). The
  bodies satisfy `HeadroomSuffices(9)`, the hypothesis of `FitsCorrect` (TLC evaluates
  it as an `ASSUME`); `MaxSplices` is 2 (the depth cap of `inline.rs` is 4 or 8).
- Unwinding: bodies have no back edges, which bounds them; a second iteration
  would repeat the same static situations.
- Regex: capacities 1, 3 and 9 (nothing fits, some backtracking fits, all fits).

## 3. The modules

### Global names: `GlobalBindings`

Every path that reads, writes, re-resolves, blows, arms or moves the caches of a
global name.

| Model | Code |
|---|---|
| `slot`, `writable`, `lex` | the global object's own property, its writability, the global lexical of that name |
| `shape`, `heapShapes`, `white`, `gc`, `young` | the global's shape address, addresses in use, those the running major GC frees, the cycle, the nursery |
| `gfuse`, `cell`, `row` | the literal fuse table (0 unarmed, 1 armed, 2 blown), the value-fuse cells, `gGlobalSlots` |
| `nurseryArmed`, `flips`, `armingAllowed`, `bindEpoch` | `gState.nurseryArmedBindings`, `bindingFlips`, `bindingFuseArmingAllowed`, `gBindEpoch` |
| `frames` | set helpers whose setter is running |
| `CompiledRead`, `GuardedRead`, `RowHit`, `FuseCallHits` | `emit_get_gname`, `emit_get_gname_inline_guarded`, the slot prologue, the fuse-guarded call arm |
| `SetGNameInline`, `WriteThrough` | the inline store and its cell write-through, `night_runtime_binding_written` |
| `SetHandshake`, `SetCallsSetter`, `SetterReturns`, `SetterThrows`, `SetNameLexical`, `SetPropIcMiss`, `SetElement`, `DeleteRefused`, `BlowKey`, `BlowAll` | the runtime helpers; a store to an accessor is split where user code runs |
| `InterpretedSet`, `DefineProperty`, `DeleteProperty`, `ReshapeOther`, `AddLexical`, `InterpretedSetLexical` | the engine with the hooks of `NightHooks.cpp` |
| `Allocate`, `MinorGC`, `GCCycleBegin`, `GCSweepSlice`, `GCCompactSlice`, `GCCycleEnd` | allocation and collection with `NightNurseryEndCallback` and `NightPurgeMovableCaches` |
| `Activate`, `ActivateInprocess` | `JS::NightActivate` with `arm_gname_fuses_from_live`; the in-process install with `distrust_global_fuses` |

A value is a primitive or a GC thing; what untraced bits mean once their thing
has moved is the value `Dangling`; a shape is an address that may be reused once
freed. `Settle`, `SetExisting`, `SetAbsent`, `SetIgnored` and `SetRefused` are the
engine's store with its hooks, shared by the actions that reach it.

### Class words: `ObjectStamp`

One object and its class word, from birth to the last restamp.

| Model | Code |
|---|---|
| `word` (`sent`, `idx`, `key`, `bits`) | the external word: sentinel, stamped index, early key (bit 18 its lowest, reused as advance-ineligible), TYPES / SLOTS / RANGES |
| `props`, `vals`, `nfixed` | shape and slots: names in slot order, their values, how many slots are fixed |
| `born`, `running` | the layout the allocation site resolved; constructor and delegate activations with the object as `this` |
| `fact` | one class fact (identity, SLOTS, TYPES) of the frame at `fact.depth` |
| `EngineSet` | interpreter and helper stores, add-transition replay: `NightAddPropCheck` and the store masks |
| `CompiledSet`, `FactSetByName`, `OwnThisSet`, `FactSetSlot` | `emit_set_prop_ic_inline` without and under a fact; the same through `this` (`ctor_add_check`, `ctor_init_claim`); `emit_class_fact_set`'s slot form |
| `StructuralChange` | the engine resets the word and calls `ObjectDemoted` |
| `GuardIdentity`, `GuardBits` | the class guards that mint facts |
| `Enter`, `Return`, `Throw` | prologue guard, stamp or restamp at return, exception |
| `BornConstructing`, `BornLiteral` | `NightConstruct`, `NightCreateThis`, `emit_construct_this`; a literal's stamp |

A restamp of a formal or a local (`arg_restamps`, `local_restamps`) is a delegate
that stores nothing through `this`. Values are four kinds, all the word's
discipline tells apart; the range claims on one name are one interval. `known` is
what the compiler proves of a stored value, any of the true things, chosen per
store. `FactHolds` covers one object and one fact: two frames with facts about the
same object are two instances of it; it is checked under the epoch rule only, the
weakest of the call forks' conditions. `Runs` says which bodies run on an object
under construction, and `Functions` which may be called on a finished one: a class
constructor cannot. Nothing is assumed of how layouts are related. The instance has a
superclass with two different extensions, as ordinary class hierarchies do; the
hierarchies it leaves out, because the code does not keep the word honest in them, are
listed in section 6.

### Property and element paths: `PropertyCaches`, `ElementAccess`

`PropertyCaches` follows one name through every row kind: a shape is a
description and an address, rows hold addresses, and the collector frees and moves
them. Probes, populations and purges are the helpers' own; each access is
compared, when it happens, with what the engine's lookup, set or define would do
on the same heap, and only disagreements are recorded (`PropAgrees`).
`ElementAccess` does the same for the inline dense, typed-array, arguments and
string arms, the append behind its row, push, pop and `length`; numbers are counted
in halves and words have `W` bits, so conversions are modelled by what they do.
`NurseryEdgesRemembered` is about the post-write barrier: a tenured object with a
nursery element is in the store buffer whenever a minor collection can start.

### Calls: `CallDispatch`, `CallKeep`

`CallDispatch` is one call, construct or forward site over a heap whose addresses
are moved, freed and reused under the cell's raw words; a dispatch is compared with
what the engine does with the same callee (`CallsAgree`). A site is an op (`call`,
`new` or, with `super`, a super call, whose `newTarget` is any function). The helper
that makes `this` allocates and then fills the construct cell from what it finds at the
callee bits it was given: `making` is the helper between the two, and collections may
come there, so the bits may name an object that moved away, or another in its place.
`CallKeep` is what a frame
may go on believing after a call: the callee's effect word, the stamp epoch and the
callee's effect summary decide between the keep arm and the merge. A frame's facts
are objects whose stamp it tested, one fresh object and the claim on one global
binding; `born`, `written`, `demoted` and `bound` are history, and `KeptHolds`
says every belief a frame can still act on is true.

### The value stack: `ValueStack`

Activations over one memory. A view addresses one frame: the activation's own
(`RootView`) or its innermost splice's (`enter_frame_view`); `TopOff` is the end of
the operands. A collection forwards the slots under the published top and leaves
every other pointer (slots above, operands in registers) pointing at what moved:
such a value has kind `"s"`. A body has a `depth`, the operands its bytecode has at
most (its script's `nslots` less the locals); `Room` keeps every operation within it.

| Model | Code |
|---|---|
| `EnterNight`, `NightApplyOrCall`, `EnterNightResume`, `Leave` | `NightEntry.cpp` with `AutoNightReentry` |
| `emit_frame_prologue`, `Build`, `finalize_gen_dispatch` | padding, locals and frame slots, then the helpers that may collect; the generator's dispatch |
| `HelperCall`, `HelperReturn` | `spill_all`, the published top, `WriteNightOut`, `reload` |
| `DirectCall`, `DirectConstruct`, `emit_return_value`, `Throws` | calls between compiled bodies, with `emit_stack_fits` |
| `SpliceInto`, `emit_inline_call`, `emit_inline_construct`, `SpliceReturn` | seams: `store_seam_frame`, `init_child_frame`, actuals that ride the edge |
| `trace` | `NightStack::trace` |

`Rooted` says that what the collector reaches is valid and what live code still
uses was reached; `FrameAsCalled` that a body finds its arguments and nothing else
in its frame; `TopIsBack` that a helper goes on with the top it set; `FramesFit`
that frames are stacked apart and inside the stack.

### Exceptions and generators: `Unwind`

Whole bodies are executed: bytecode with try notes and scope notes, one action per
op group. When an op throws, the code's answer is computed as `frame.rs` does, from
the notes and the pc alone: `Walk` is `walk_try_notes_impl` with its
`ForOfIterClose` pairing and its stack-depth rule, `UnwindEnv` pops the difference
of two note counts, `Land` is the catch or finally landing or the error epilogue.
Beside it runs a reference that never looks at a note: each op says how many
handlers the source program has open after it, and `open` keeps the stack and
environment each was entered with. Generators suspend (`Yield`), are resumed with
any kind (`Resume`, `CheckResumeKind`) and unwind with the closing magic, which
splits catch edges at run time. The six bodies (`MCUnwindBodies`) contain every
nesting the walk distinguishes; their layout is the engine frontend's, which is not
in the repository.

### Operator semantics: `OpSemantics`, `JSNumber`, `ArithClaims`, `ArithLowering`

`OpSemantics` holds the pure rules of `opsem.rs` and of the interval half of
`likelier/types.rs`: prim classes, magnitudes, exact-integer intervals with their -0
flag, the quantization ladder of the analysis and the widening ladder of the
lowering. The word width `W`, the exact domain `Lim` and the rungs are constants (32,
53, 36, 48 in the code). `JSNumber` is the reference: what the language's operators
compute, over integers, halves, -0, "every other number", booleans, strings and
BigInts; it is not translated from the repository and is marked external.
`ArithClaims` applies the rules to growing operands and compares with the reference.
`ArithLowering` runs what `arith.rs` emits over straight-line expressions beside the
reference: a stack entry is a value with its carrier (int32, int64, f64, boxed with a
tag) and the claims the compiler holds about it; `LoweringSound` says every claim is
true and every value the one JavaScript computes, up to a multiple of 2^W for a value
whose every use truncates.

### Passes: `BodyGraph`, `Licm`

`BodyGraph` runs the worklists of `cfg.rs` and `live.rs` step by step and compares
their result with a search over executions, throws included (`GraphHolds`,
`LiveIsReadBeforeWrite`). `Licm` hoists over small functions and then runs the
original and the rewritten code over a memory that counts the writes to each kind of
location, so two reads agree exactly when no write that could matter lies between
them (`HoistedAgrees`). The words of an inline cache's row are not compared that way:
`licm.rs` lets a read of a row leave a loop over calls that may rewrite it, and
`effects.rs` says why that is harmless, the site tests the row it read against the live
object. So the row is kept as it is (`way`: its shape word, and the shape its slot word
is for), calls run the site's miss helper on it (`RowAfter`), `seen` is what each load
of it found, and `"hit"` is the site's test of the shape word with its use of the slot
word, which the code reads again. `StaleRowsMiss` says that a test that passes meets the
slot of that shape. `MotionSound` is the conjunction, with the placement of the moved
code. `PurgeInRun` lets a call empty the rows, as a major collection does; the
run `row_words` has it on.

### Versioning: `SlotContext`, `Versioning`

`SlotContext` is the algebra of facts about a slot (`SlotCtx`): order, meet, join,
representation, and the guards with which an edge proves a fact it does not have.
`Versioning` compiles scripts: the prediction rounds, the code pass and the ladder of
fallbacks, and then runs the emitted versions. `CodeSound` says the facts a version
was compiled under hold whenever it runs and that carriers, deferred stores and the
frame agree with the program. `OrThrow` is an op that can throw: the exceptional edge
flushes the deferred slots and empties `frame_stale` for everything the op emits
after it, as the code does; the stores are made on the way on too, unless iterators have
to be closed (`closes`), when they are in the closing block only. A script and its
splices share one list of slots; `outer` says which of them belong, at an op, to the
frames around it (`ClaimsOnCaller`, `TooLarge`).

### The analysis: `Worklist`, `EffectSummary`

`Worklist` is `likelier/engine.rs`: cells, subscriptions, standing links, live rows and
the worklist. What a constraint computes is a constant operator assumed monotone.
`read` subscribes, `raise` recurses through the links (the set `pending` is that
recursion), `link` and `instantiate` run inside an evaluation. Popping is in any order:
the code's is FIFO, and its own comment says the order must not matter. `EffectSummary`
is `likelier/effects.rs`: the walk over ops, the resolution of ranges and callees, and
the LIFO fixpoint, whose summaries are sequences.

### Regular expressions: `RegexInterp`, `RegexMachine`

`RegexInterp` is one match by the engine's bytecode interpreter (external; its
instruction set is what `regex.rs` decodes), with an unbounded backtrack stack of
labels. `RegexMachine` is what is compiled: `Translates` is the validation of
`translate`'s first pass, `Leaders`, `BtId` and `Emitted` its leaders, dense label ids
and dead code, and each disjunct of `Execute` one arm of the second pass, with the
fixed buffer (`bt_push`), the budget, the dispatcher (`PopBt`, `Select`) and the
unsigned bounds tests. `Matches` is a refinement: under the mapping that turns ids back
into labels and "retry" into "still running", every step of the matcher is the
interpreter's, so an answer the matcher returns is the interpreter's, with its captures.

## 4. What is proved

TLC explores an instance; the theorems hold for every value of the constants that
satisfies the named assumptions of the modules, without the modules' bounds being
fixed.

### `GlobalBindingsProofs`

Assumed: `ValuesAssumption`, `TablesAssumption`, `BoundsAssumption` (sentinels are
not values, the tables are functions, the epoch's modulus exceeds the three moves one
step can make).

| Theorem | Statement |
|---|---|
| `TypeCorrect` | `Spec => []TypeOK` |
| `ReadCorrect` | `Spec => []ReadIsCurrent` |
| `RowCorrect` | `Spec => []RowHitIsValid` |
| `CellCorrect` | `Spec => []ArmedCells` |
| `LiteralCorrect` | `Spec => []LiteralFuseIsSound` |
| `CalleeCorrect` | `Spec => []ArmedObjectIsPredicted` |
| `DistrustCorrect` | `Spec => []DistrustIsFinal` |
| `EpochCorrect` | `Spec => EpochCoversStores` |
| `BlownIsSticky` | `Spec => BlownLiteralIsSticky` |

The properties are not inductive one by one. `IInv` joins `TypeOK` with four parts:
`CellInv` (every cell is good for its slot, the nursery and the list: mirroring alone
is not preserved by a minor collection, it needs the list to be complete), `FuseInv`
(an armed fuse has its literal in the slot, and the name's shadow, if any, dates from
before the install), `RowInv` (a row's shape is one the allocator may not hand out,
and a row of the live shape is right: reuse of addresses is excluded by the first
half, which in turn needs the purge at the start of a cycle) and `ModeInv` (before the
install nothing is armed and no helper is running; after distrust nothing is armed).
`SettleGood` and `GlobalSetIInv` treat the engine's store once for all the actions
that end in it; `IInvStep` has one case per action. The two action properties are
proved from the same invariant.

### `WorklistProofs`

For any tasks, rows and monotone transfer functions: `WorkTypeCorrect`,
`WakeupCorrect` (`NoMissedWakeup`, which is inductive as it stands once types are
known), `SolvedCorrect` (`Solved`), `GrowthCorrect` (`CellsGrow`) and
`LeastCorrect`: nothing is ever raised beyond any solution of the constraints. With
`SolvedCorrect` the analysis ends with the least solution, in whatever order tasks
are taken.

### `CallKeepProofs`

`KeepTheKept` proves `KeptHolds` for any bodies, classes, rows, call sites and nesting
of calls, under three hypotheses, each the negation of a deviation in section 6:
`~ClassSurprise`, `~CtorSurprise` and `BindingForked`. `KeepClassFacts` proves the
part about class words, fresh objects and class facts without the third. The
invariant is `KeepInv`: the heap is typed, and the frames are stacked. Every frame is
well formed (`FrameOK`), every waiting frame is good *relative to its callee*
(`Suspended`: what it believes is true, or the callee's word, summary and epoch will
show at the return that it may not be), and the innermost believes only what is true
(`Running`). The middle part is why `KeptHolds` is not inductive: a waiting frame's
beliefs may already be false, provided the return will notice.

### `ObjectStampProofs`

| Theorem | Statement |
|---|---|
| `StampTypes` | `Spec => []TypeOK` |
| `CarriedSlots` | `Spec => [](SlotsHold => FactSlotsHold)` |
| `CarriedFacts` | `DelegatesClaim`, then `Spec => [](SlotsHold /\ TypesHold => FactHolds)` |

For any layouts, bodies, construct sites and interleaving of stores, structural changes,
nested constructors and restamps. Nothing relates the layouts: siblings, delegates,
foreign bodies and unresolved sites are all included. Whether the word itself is true
depends on the hierarchy (section 6) and is checked on instances. What a frame carries
over calls is another matter, and is what is proved: it is true whenever the word is. A
frame that skips a guard because of a carried fact therefore errs only where the guard
would have let it err. `DelegatesClaim` says that the layout a delegate restamps to
claims the fields its prefixes claim; without it a restamp drops the claim on a field and
the object may store anything there while the fact stands.

`FactHolds` says nothing about why a fact is true, so it is not inductive. `FactInv` adds
to the types `Backed`: the word has an index, its layout extends the fact's, and a slot
fact's bit is in the word. Whatever takes a bit from an indexed word moves the epoch or
is a store in the holder's own frame, which sweeps the fact (`AfterCall`, `AfterInline`);
and a stamp on an indexed word is a delegate's, which makes the layout longer
(`ReturnKeeps`). `TypesBacked` is the same for claims on values.

### `ValueStackProofs`

For any bodies, calls and limits, and any interleaving of entries from the engine,
direct calls, splices, helpers that collect or re-enter, generator resumptions and
errors:

| Theorem | Statement |
|---|---|
| `StackInvariant` | `VsSpec /\ []WithinLimit => []Inv` |
| `RootedCorrect` | `VsSpec /\ []WithinLimit => []Rooted` |
| `FrameCorrect` | `~RawSurplus`, then `VsSpec /\ []WithinLimit => []FrameAsCalled` |
| `TopCorrect` | `VsSpec /\ []WithinLimit => []TopIsBack` |
| `NestedCorrect` | `VsSpec /\ []WithinLimit => []Nested` |
| `FitsCorrect` | for every `s` with `HeadroomSuffices(s)`: `VsSpec => []FramesFit` |
| `StackSound` | for every `s` with `HeadroomSuffices(s)`: `VsSpec => [](Rooted /\ TopIsBack /\ (~RawSurplus => FrameAsCalled))` |

`[]WithinLimit` is the one thing the code takes on trust (section 6): a body is entered
when its incoming frame and `Headroom` slots fit, and nothing checks that its own
extent is smaller. The first five theorems assume it of the run. The last two assume
nothing of the run but a bound on the program: `HeadroomSuffices(s)` says that a splice
has at most `s` slots, and that a body's formals, locals, frame slots and operands with
those of `MaxSplices` splices are fewer than the headroom. It is a hypothesis and not an
assumption on the constants, because the compiler does not enforce it; `MCCalls` has TLC
evaluate `HeadroomSuffices(9)` for the bodies of the run. `~RawSurplus` excludes
the behaviour `splice_surplus` exhibits. The assumptions on the
constants are typing, that a generator has no arguments object, which
`bbv/mod.rs:622` rejects, and that its operand depth is at least 4: what a resumption
puts back, the one operand modelled as saved and the three resume values
(`finalize_gen_dispatch`), are operands of its script.

None of the properties is inductive. `Inv` gives every activation an `End`, the first
slot it does not need: the operands of a body that runs, the top a helper published,
the slots a call has not handed over, the arguments of a frame not yet laid out.
`Stacked` says that activations and the splices inside one lie in order over the
`End`s of those before, that each record is consistent with its mode (`ActShape`) and
that memory holds what the activation will look for (`ActMem`: its frames as called, the
arguments a construct staged while its allocation may collect, the arguments of an
entry). `Settled` says that all slots below the innermost `End` are live and that the
published top is that `End` while a helper runs. A step changes memory only from the
innermost activation's base upward, so `SwapStack`, `PushStack`, `PopStack` and
`MemStack` carry the rest of the stack over, and each action's lemma is about one
activation. The collection is the converse: it changes memory only from the published
top upward (`TraceStep`).

`FramesFit` needs one more conjunct, `Fits(s)`: how far each activation may still grow.
An activation starts with the headroom free over its incoming frame; its operands stay
within its body's depth; each splice starts at the operands of the frame around it and
reaches at most `s` past them, one operand of the outer frame being kept for its result;
and what a waiting activation published or handed over is within that extent
(`WaitFits`). `Inv /\ Fits(s)` is inductive: `FitStep` uses `Inv` for where frames lie,
`FitWithin` gives `WithinLimit` in both states, and `InvStep` then applies.

### `ElementAccessProofs`

For any access sites, pairs of classes, word and byte widths, stored numbers and
bounds, and any interleaving of accesses with changes of the object, of its
prototypes and of the heap by the collector:

| Theorem | Statement |
|---|---|
| `ElemInvariant` | `~StaticStores`, then `ElemSpec => []ElemInv` |
| `ElemCorrect` | `~StaticStores`, then `ElemSpec => []ElemAgrees` |
| `BarrierCorrect` | `~StaticStores`, then `ElemSpec => []NurseryEdgesRemembered` |

`~StaticStores` excludes the typed-array store of section 6. The named assumptions
give the constants their types, say that an int32 holds 1 and that a stored int32
fits, and state that the powers of two are positive, which the prover does not
derive of a variable exponent.

Neither property is inductive. `ElemInv` adds to them: `ThingsOK`, every object is well
formed (a hole only under the non-packed flag, which is what the raw store of a packed
array relies on; a sparse index is never also a dense element; an array's length is no
shorter than its elements, which fit the capacity; an object that is not extensible
carries a flag that stops the append); `ChainInv`, a frozen prototype has elements;
and `RowInv`, the two shape words held by the append row and by the runtime's chain
record are words of prototypes with no sparse index and not frozen, *at the addresses
shapes have now*. `WordsTell` is the reason the append may skip the walk of the
prototypes: words that match make the live prototypes `Clean`, and then nothing blocks
the store (`CleanOpen`), although a plain prototype element, which no shape pins, may
have come since. `IntStore`, `DoubleStore` and `ClampHalf` show the typed-array
conversions equal to the language's for every width. `SetAgrees`, `HelperAgrees`,
`PushAgrees`, `PopAgrees`, `ReadAgrees` and `LengthAgrees` compare each arm with the
engine on one object; `Stepped` is what every store has in common, and the lemma of
each action adds its barrier.

### `CallDispatchProofs`

For any objects, scripts, sites and addresses, and any interleaving of calls,
forwards, constructs, allocations, stores to `.prototype` and collections:

| Theorem | Statement |
|---|---|
| `CallsAgreeAlways` | `~YoungProtos`, `~Retarget`, `~SuperArray`, `"min" \notin Numbers`, then `DispSpec => []CallsAgree` |

The four hypotheses exclude the deviations of section 6: a `.prototype` still in the
nursery when `create_this` caches it, a guarded forward that meets another target than
the analysed one (what `apply_forward` exhibits), a `super()` into Array (what
`super_array` exhibits), and a callee that is the number whose bits are a poisoned
cell's. `AddressAssumption` and `DispatchAssumption` type the
constants and say that nursery and tenured addresses are apart, the builtins are
different objects and two compiled scripts never share an index.

`CallsAgree` speaks of dispatches, the cells hold raw addresses; `DispInv` says what the
words mean between dispatches. `HeapOK`: live objects have addresses of their own, builtins
and prototypes are tenured. `CellOK`: a callee cell is empty, poisoned, or `Learned`, the
address of a live *tenured* function with the script and index beside it. `CcellOK`: a
construct cell of the current generation has a live tenured prototype at its own pointer.
`BuiltinsOK`: the builtin cells are re-armed to where the builtins are. `MakingOK`: the helper
that makes `this` holds its callee and prototype as roots, and while the cell is of the
current generation nothing but the callee is at the bits it was given, so what it fills in
is the callee's or nothing. A minor collection
leaves tenured objects in place, so the cells stay true through it; a major collection moves
them and empties the cell and bumps the generation in the same step. Compaction keeps
addresses apart because it places objects by rank in memory order (`Nth`, `Rank` and the
lemmas on them, from the cardinality theorems of the library). Equal words are then the
same object, and equal non-zero indices the same body.

### `PropertyCachesProofs`

For any receivers, layouts, numbers of ways, inline and row hops, fixed slots and shape
addresses, and any interleaving of accesses, changes of receivers and prototypes, user
code inside a miss, and incremental, compacting and minor collections:

| Theorem | Statement |
|---|---|
| `PropAgreesAlways` | `~GcInSet`, `~SelfRedefine`, `~Reshadow`, then `PropSpec => []PropAgrees` |

The hypotheses exclude the three deviations section 6 names for the rows; `PropAssumption`
types the constants and tells the objects apart. `PropAgrees` is all five parts: reads,
writes, literal definitions, accessor calls, and misses answered clean.

`PropInv` ties each row to the shape tree:

- `HeapOK`: the tree is memoized, so a description has one address and a shape word that
  matches is a description that matches (`ShapeWord`, `OneWord`); every object's shape is
  at an address no sweep will free.
- `RowsOK`: a row is empty or its words are `Held` (in use and not doomed) and its slot,
  callee or new shape is the one the descriptions give. Rows are purged when a collection
  begins and when shapes move, so `Held` survives both ends of an incremental cycle.
- A row found at Q names the receiver's and Q's shapes and not P's. `Watched` is what
  makes that enough: whenever P comes to shadow the name or leaves the chain, the engine
  has given Q another shape or invalidated it. This is the part no shape word of the row
  says, and the part the first version of the invariant lacked.
- `HopsOK` and `PtrsOK`: a transition row's hops let the add through, and its pointers are
  live, because a row with a nursery pointer raises `rowsHoldNursery` and the next minor
  collection drops it.
- `CellOK`: the words of the proto-proof cell are those of the whole chain above `this`.
- `PendOK`: what a miss helper remembers over its engine call is still true of the heap
  when it fills the row, unless user code ran, and then it fills from what it reads anew.

Each lemma of an action is about one kind of row; `Stays` (held addresses keep their
descriptions) and `WatchStays` carry the others.

### Only model-checked

- Liveness: `Drains`, `SummariesSettle`, `MatchEnds`, `AnalysesEnd`, `CompileEnds`.
- What a recursion or an iteration over data computes, which needs induction over that
  data: `SummariesExact` and `UnwindsAsWritten` (recursive operators),
  `GraphHolds` and `LiveIsReadBeforeWrite` (fixpoints compared with reachability),
  `MotionSound` (chains of definitions), the table and the reducible graph of
  `CodeSound`.
- `ClaimsSound` and `LoweringSound` rest on `JSNumber`, whose bitwise operators the
  prover does not know.
- `BufferSafe`, `ContextSound` and the refinement `Matches` have not been proved;
  section 8 says what they would take.

## 5. Fairness and liveness

The run-time modules assume no fairness: every action is a request by user code or
the collector, which the runtime cannot force. Four loops of the compiler and one of
the generated code must end, and each is a loop of a sequential program that nothing
preempts, so weak fairness of its step is what the code has:

| Loop | Fairness | Property |
|---|---|---|
| `likelier/engine.rs`, the worklist | `WorkFairness` | `Drains` |
| `likelier/effects.rs`, the settling of summaries | `EffFairness` | `SummariesSettle` |
| `cfg.rs` and `live.rs`, walk and sweeps | `GraphFairness` | `AnalysesEnd` |
| `mod.rs`, prediction rounds and code pass | `Compiles` (weak fairness with its enabling condition written out) | `CompileEnds` |
| a call of a compiled matcher | `WF_vars` of the matcher's step | `MatchEnds` |

## 6. Where code and comments part

Five runs exhibit a counterexample to what a comment says:

- `apply_forward`. The guarded forward tests only that the method reached is
  `Function.prototype.apply` and then passes the predicted callee's number of formals
  to whatever target it is applied to (`bbv/call.rs:1949`, `1957`).
- `splice_surplus`. A splice stores raw actuals past the formals after the callee's
  locals were initialised (`bbv/version.rs:1121`), while `inline.rs:456` says the
  initialisation clobbers them.
- `super_array`. The comment on super calls says the classify's slow arm handles a
  `newTarget` that is not the callee (`bbv/call.rs:295`); with Array as the superclass the
  array arm is taken first (`call.rs:2635`), and it tests only the callee. The object gets
  `Array.prototype`. [`SuperArray`]
- `row_words`. `effects.rs:33` says a stale read of a cache row can only miss. The shape
  word of a row is hoisted out of a loop over calls and the slot word is not. If a major
  collection inside a call empties the row and a receiver with another shape fills it
  again, the old shape word accepts the first shape with the other shape's slot.
  [`PurgeInRun`]
- `closes_pending`. `frame.rs:1907` says the set of deferred slots is not cleared by a
  flush, because a sibling arm may not be dominated by the stores. `cont_stripped`
  clears it (`version.rs:2859`). With iterators to close (`exception_target`,
  `frame.rs:231`) the stores are in the closing block and the way on finds them
  neither made nor pending. [a call with `closes`]

The following were met while modelling. The constants named in brackets switch the
behaviour on in the module; the runs and theorems exclude it by name, and with the
constant set TLC finds the property named violated.

- Globals. The comment on the value-fuse cells says an armed cell's bits are the
  binding's current value; arming looks at the global object's own slot only, so once
  a lexical shadows the name a generic store arms the cell with the shadowed
  property. A lexical added before the install finds no fuse table to blow, and
  activation arms the literal fuse from the slot. The inline store writes a primitive
  through an armed cell and leaves it armed, while the fuse-guarded call arm takes an
  armed cell as proof of the predicted body. The properties state what does hold: for
  unshadowed names, since the install, and of GC things.
- Class words. An unpredicted add before the first stamp sets bit 18, which is also
  the early key's lowest (`facts.rs:1025`). The word can come to claim what is not so
  in these hierarchies, which the instance of `stamp` leaves out: sibling layouts
  together with an init delegate, where adds toward one sibling certify the other; a
  delegate called on an object of another class (it has no foreign-this guard); a
  function used as a constructor that stores before it calls its superclass's function,
  with different claims on the field, or that is called on a finished object of
  another class; and a check elided under a prefix's fact, where the object is then
  restamped with a layout that claims more. Nothing in the compiler excludes them.
- Kept facts. A summarised write is attributed to the predicted class
  (`emit.rs:826`) [`ClassSurprise`]; a construct merge marks the result fresh for the
  likely constructor although another may have run (`call.rs:3015`)
  [`CtorSurprise`]; a construct site without a keep fork keeps the merge on the
  optimised track and nothing clears the binding facts (`call.rs:3053`,
  `facts.rs:797`) [`BindingForked` false].
- Calls. A poisoned call cell has bits 1, which is also the number
  `Number.MIN_VALUE` (`call.rs:140`); `create_this` caches a prototype pointer without
  asking whether it is tenured (`NightRuntime.cpp:5550`) [`YoungProtos`] and writes
  the allocation words before the guard words.
- Property and element paths. A set row populated across a collection
  [`GcInSet`], a name shadowed again between two probes of an accessor row
  [`Reshadow`], a property redefined by its own setter [`SelfRedefine`], a typed-array
  store whose value's representation is known when compiling [`StaticStores`].
- Arithmetic. `iv_mul` forgets that (-0)·0 is -0; truncation demand passes through
  links whose other operand is not an integer, so `((x + y) + 0.5) | 0` can observe the
  wrap of `x + y`.
- Worklist. The fast path of `raise` ignores the unknown flag, and a link over
  interval-only evidence is not propagated. `EffectSummary` settles because the stack
  is LIFO; summaries are compared as sequences, and a FIFO order need not settle.
- Unwinding. The environment count at a jump that has already left a scope differs
  from what its comment says.
- Stack. Nothing checks that a body's own extent stays within the 64 KiB headroom
  (`kNightStackHeadroomSlots`); `FitsCorrect` says which bound on bodies and splices
  would be enough. The comment at `NightStack.cpp:14` says an overflow
  falls back to the interpreter, and `EnterNight` reports over-recursion.
- Passes. The `licm.rs` comment on cascading outward and the `effects.rs` comment that
  table writes never block motion do not describe what `licm_kind_ok` does.
- The binding and stamp epochs are compared in 32 bits (`facts.rs:340`); registering a
  second root re-arms the dynamic-code fuse (`NightRegistration.cpp:292`).

## 7. Not modelled

- Registration and activation order, in-process injection, the snapshot reader,
  module assembly, the bytecode parser and the tools: sequential I/O or layout with no
  state of their own (`PROJECT.json` has the reason for each). Their effect on the name
  fuses is in `GlobalBindings`.
- Which constraints the scanner makes of which op (`likelier/scan.rs`, `heap.rs`,
  `calls.rs`) and how the solution is written out (`emit.rs`).
- Non-global environments: by-name lookups through `with` and closures never touch the
  three caches. Several globals: the runtime binds its tables to one realm.
- Class facts over a span of layouts; the arms of single builtins; the comparison
  ladders; shared and resizable buffers; promise helpers of async functions.
- An epoch that moves a whole multiple of 2^32 times inside one call, and memory
  exhaustion inside the engine's own operations.


## 8. What is left

- Lemmas on the interval algebra of `OpSemantics` (join, widening and the transfer of
  `+`, `-` and the comparisons), which `ArithClaims` checks on edge values.
- `SlotContext.ContextSound`: what a context claims of each slot survives `theta`. It
  needs the lemmas on the interval algebra.
- `RegexMachine.BufferSafe` and `Matches`: the buffer's bounds need each opcode's effect
  on the stack pointer and on the labels in the buffer, over a program of any length.
- The coverage of `likelier` (`heap.rs`, `scan.rs`) and of the WebAssembly translation,
  listed in section 7.

## 9. Running

From this directory:

    tlc -workers 2 -config MCGlobalBindingsLiteral.cfg MCGlobalBindings
    tlc -workers 2 -config MCCalls.cfg MCCalls
    tlapm GlobalBindingsProofs.tla
    tlapm ValueStackProofs.tla
    tlapm ElementAccessProofs.tla
    tlapm PropertyCachesProofs.tla

`PROJECT.json` lists every run with its module and configuration, the theorems, the
mutants that show each property can fail, and the source lines each definition
translates. The longest run takes about three minutes, `ValueStackProofs` (6 600
obligations) about six.
