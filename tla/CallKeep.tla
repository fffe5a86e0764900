------------------------------ MODULE CallKeep ------------------------------
(***************************************************************************)
(* What a frame may still believe after a call (bbv/call.rs, emit.rs,      *)
(* facts.rs).  A compiled body returns a word of effect flags; the call    *)
(* site folds it into its own frame's view and, when the word, the stamp   *)
(* epoch or the callee's effect summary shows the facts it carries intact, *)
(* goes on with all of them (the keep arm).  Otherwise it merges: class    *)
(* facts gone and, at a site that had a keep arm, off the optimised track, *)
(* where no fact is carried.                                               *)
(*                                                                         *)
(* A fact of a frame is an object whose stamp it has tested, or the claim  *)
(* on one global binding.  Frames run on a shared heap; the innermost one  *)
(* acts.  An engine frame (a native, an interpreted or uncompiled callee)  *)
(* may do anything and returns no word.  born, written, demoted and bound  *)
(* are history.                                                            *)
(***************************************************************************)
EXTENDS Integers, Sequences, FiniteSets

CONSTANTS
    Old, New,        \* objects there from the start, objects to be allocated
    Class,           \* object -> its class
    Row,             \* class -> the names in its layout
    Names,
    Bodies,          \* compiled bodies: [top, writes, retThis, mapped, threaded, scanned, reads]
                     \*   writes: the summary's <<class or "any", name>> pairs
                     \*   reads: it reads the global binding
    Outermost,           \* the bodies and receivers of outermost frames, <<body, this>>
    CallSites,           \* what call sites run and expect, <<body, likely>>
    MaxFrames, MaxEvents,
    ClassSurprise,   \* TRUE: a summarised write may meet a receiver of another class
    CtorSurprise     \* TRUE: a site may construct with another body than the likely one

Objects == Old \cup New
FLAGS_ALL == {"this", "other", "stamps", "bind"}

VARIABLES
    frames,          \* the frames, innermost last
    stamped,         \* the objects whose stamp holds
    unborn,          \* the objects not allocated yet
    epoch, bepoch,   \* the stamp and the binding epoch
    binding,         \* TRUE: the binding's value is of its claimed type
    events

keepVars == <<frames, stamped, unborn, epoch, bepoch, binding, events>>

Engine_ == "engine"   \* the body of a frame that is not compiled
NoCall == [kind |-> "none", new |-> FALSE]

ASSUME KeepAssumption ==
    /\ Old \cap New = {}
    /\ Engine_ \notin DOMAIN Bodies
    /\ Outermost \subseteq (DOMAIN Bodies) \X Old
    /\ CallSites \subseteq (DOMAIN Bodies \cup {Engine_}) \X (DOMAIN Bodies \cup {Engine_})

Top_ == frames[Len(frames)]
Compiled(f) == f.body # Engine_
Alive == Objects \ unborn
SetTop(f) == [frames EXCEPT ![Len(frames)] = f]

Frame(body, this) ==
    [body |-> body, this |-> this, fresh |-> {}, word |-> {}, facts |-> {}, gfact |-> FALSE,
     opt |-> TRUE, call |-> NoCall, born |-> Alive, written |-> {}, demoted |-> {}, bound |-> FALSE]

--------------------------------------------------------------------------
(* The word.                                                                *)
\* A body that threads no accumulator records what it emits: a callee's
\* word, or any write not through `this`, makes its return word full.
or_flags_const(f, bits) ==
    [f EXCEPT !.word = @ \cup IF Bodies[f.body].threaded \/ "other" \notin bits THEN bits ELSE FLAGS_ALL]
or_flags_word(f, w) == [f EXCEPT !.word = @ \cup IF Bodies[f.body].threaded THEN w ELSE FLAGS_ALL]

\* How an operand holding o classifies: fresh, this, or other.
store_recv_bit(via) == IF via = "fresh" THEN {} ELSE {via}
Vias(f, o) == {"other"} \cup (IF o \in f.fresh THEN {"fresh"} ELSE {}) \cup (IF o = f.this THEN {"this"} ELSE {})

\* A callee's word seen from the caller: its `this` is the receiver.
Shifted(w) == UNION {CASE b = "this" -> {"other"} [] b = "other" -> {"stamps"}
                       [] b = "stamps" -> {"bind"} [] OTHER -> {"spilled"} : b \in w}
fold_callee_flags(f, w, via) ==
    IF via = "this" \/ ~Bodies[f.body].threaded THEN w
    ELSE (IF via = "fresh" THEN w ELSE w \cup Shifted(w)) \cap {"other", "stamps", "bind"}

--------------------------------------------------------------------------
(* Admission.                                                               *)
mapped_args_reachable(f) == Bodies[f.body].mapped

name_in_rows_any(c, n) == TRUE
name_in_rows(c, n) == n \in Row[c]
\* No write the callee's summary names can demote an object the frame has a
\* fact about.
summary_conflict_free(f, likely) ==
    /\ likely # Engine_ /\ ~Bodies[likely].top
    /\ \A w \in Bodies[likely].writes : \A o \in f.facts :
         w[1] \in {"any", Class[o]} => name_in_rows(Class[o], w[2])
summary_keep(f, likely) == f.opt /\ ~mapped_args_reachable(f) /\ summary_conflict_free(f, likely)

\* The stamps are intact: by the word, or by the epoch.
Intact(f, w, pre) ==
    IF mapped_args_reachable(f) THEN w = {}
    ELSE "stamps" \notin w \/ epoch = pre.epoch

\* The binding fact survives: no binding written below, or its type proven
\* again.
gcells_keep(w, pre) == "bind" \notin w \/ bepoch = pre.bepoch \/ binding

--------------------------------------------------------------------------
(* What a frame does.                                                       *)
\* Bodies below do what their summaries say of them and of their callees.
Covered(o, n) ==
    \A i \in 1..Len(frames) :
        Compiled(frames[i]) =>
             \/ Bodies[frames[i].body].top
             \/ \E w \in Bodies[frames[i].body].writes : w[2] = n /\ (ClassSurprise \/ w[1] \in {"any", Class[o]})
Unsummarised == \A i \in 1..Len(frames) : Compiled(frames[i]) => Bodies[frames[i].body].top

HeapKept == UNCHANGED <<stamped, unborn, epoch, bepoch, binding>>

\* Every frame records what happens while it is active.
Recorded(fs, o, demotes) ==
    [i \in 1..Len(fs) |-> [fs[i] EXCEPT !.written = @ \cup {o}, !.demoted = IF demotes THEN @ \cup {o} ELSE @]]

Guard(o) ==   \* a class test
    /\ Compiled(Top_) /\ Top_.opt /\ o \in stamped
    /\ frames' = SetTop([Top_ EXCEPT !.facts = @ \cup {o}])
    /\ HeapKept

\* A read whose tag test passes; with the fact held there is no test.
GetGName ==
    /\ Compiled(Top_) /\ Bodies[Top_.body].reads /\ Top_.opt /\ binding /\ ~Top_.gfact
    /\ frames' = SetTop([Top_ EXCEPT !.gfact = TRUE])
    /\ HeapKept

\* Back on the track, every fact the target wants proven again.
try_call_return_onramp ==
    /\ Compiled(Top_) /\ ~Top_.opt
    /\ frames' = SetTop([Top_ EXCEPT !.opt = TRUE])
    /\ HeapKept

\* o.n = v: in the layout's row an overwrite, else an add that ends the stamp.
Store(o, n, via) ==
    LET demotes == n \notin Row[Class[o]] /\ o \in stamped
        bits == store_recv_bit(via)
        f == IF ~Compiled(Top_) THEN Top_
             ELSE LET g == [or_flags_const(Top_, bits) EXCEPT !.facts = IF demotes THEN {} ELSE @]
                  IN IF demotes /\ bits # {} THEN or_flags_word(g, {"stamps"}) ELSE g
    IN /\ o \in Alive /\ Covered(o, n)
       /\ via \in IF Compiled(Top_) THEN Vias(Top_, o) ELSE {"other"}
       /\ frames' = Recorded(SetTop(f), o, demotes)
       /\ stamped' = IF demotes THEN stamped \ {o} ELSE stamped
       /\ epoch' = IF demotes THEN epoch + 1 ELSE epoch
       /\ UNCHANGED <<unborn, bepoch, binding>>

\* A write of the global binding, of its claimed type or not.
SetGName(claimed) ==
    LET f == IF Compiled(Top_) THEN [or_flags_const(Top_, {"other", "bind"}) EXCEPT !.gfact = FALSE] ELSE Top_
        fs == SetTop(f)
    IN /\ frames' = [i \in 1..Len(fs) |-> [fs[i] EXCEPT !.bound = TRUE]]
       /\ bepoch' = bepoch + 1
       /\ binding' = claimed
       /\ UNCHANGED <<stamped, unborn, epoch>>

\* A literal or an environment write: a quiet allocation, a leaf helper.
NewObject(o) ==
    /\ Compiled(Top_) /\ o \in unborn
    /\ frames' = SetTop([Top_ EXCEPT !.fresh = @ \cup {o}])
    /\ unborn' = unborn \ {o} /\ stamped' = stamped \cup {o}
    /\ UNCHANGED <<epoch, bepoch, binding>>
\* A constructor's exit stamps the completed `this`.
emit_class_idx_stamp ==
    /\ Compiled(Top_) /\ Top_.this \notin stamped \cup Top_.demoted
    /\ frames' = SetTop(or_flags_const(Top_, {"this"}))
    /\ stamped' = stamped \cup {Top_.this}
    /\ UNCHANGED <<unborn, epoch, bepoch, binding>>
or_flags_leaf_write ==
    /\ Compiled(Top_)
    /\ frames' = SetTop(or_flags_const(Top_, {"other"}))
    /\ HeapKept

\* The call at the site of the likely body: through the arm guarded by its
\* identity, through the table, or by the engine.
Pre(kind, via, likely, this) ==
    [kind |-> kind, new |-> FALSE, via |-> via, likely |-> likely, this |-> this, epoch |-> epoch, bepoch |-> bepoch]
Entered(body, this, pre) == Append(SetTop([Top_ EXCEPT !.call = pre]), Frame(body, this))
Arm(body, likely) == IF body = Engine_ THEN "engine" ELSE IF body = likely THEN "direct" ELSE "indirect"

EmitCall(body, likely, o, via) ==
    /\ Compiled(Top_) /\ Len(frames) < MaxFrames
    /\ o \in Alive /\ via \in Vias(Top_, o)
    /\ Unsummarised \/ (body # Engine_ /\ ~Bodies[body].top)
    /\ frames' = Entered(body, o, Pre(Arm(body, likely), via, likely, o))
    /\ HeapKept

\* new: `this` is allocated, by the bump (or not: moved) and the body runs.
EmitConstruct(body, likely, o) ==
    /\ Compiled(Top_) /\ Len(frames) < MaxFrames
    /\ o \in unborn
    /\ Unsummarised \/ (body # Engine_ /\ ~Bodies[body].top)
    /\ ~CtorSurprise /\ likely # Engine_ => body = likely
    /\ unborn' = unborn \ {o}
    /\ frames' = Append(SetTop([Top_ EXCEPT !.call = [Pre(Arm(body, likely), "fresh", likely, o) EXCEPT !.new = TRUE]]),
                        [Frame(body, o) EXCEPT !.born = @ \cup {o}])
    /\ UNCHANGED <<stamped, epoch, bepoch, binding>>

--------------------------------------------------------------------------
(* The return.                                                              *)
Caller == [frames[Len(frames) - 1] EXCEPT !.call = NoCall]
Under(f) == Append(SubSeq(frames, 1, Len(frames) - 2), f)

\* Past the keep arms: the class facts die; if there was one (fork) the
\* lineage leaves the track, and the binding fact with it.
Merged(f, fork) == [f EXCEPT !.facts = {}, !.gfact = @ /\ ~fork, !.opt = @ /\ ~fork]
Kept(f, w, pre) == IF f.gfact /\ ~gcells_keep(w, pre) THEN Merged(f, TRUE) ELSE f

\* emit_flag_fork: the word that is handed on is the folded one, without
\* the stamps flag if the stamps were shown intact.
emit_flag_fork(f, w, ok, pre) ==
    LET sum == pre.kind = "direct" /\ summary_keep(f, pre.likely)
        folded == fold_callee_flags(f, w, pre.via)
        handed == IF sum THEN folded ELSE folded \ {"stamps"}
    IN IF ok /\ f.opt /\ (sum \/ Intact(f, w, pre))
       THEN Kept(or_flags_word(f, handed), handed, pre)
       ELSE Merged(or_flags_word(f, folded), f.opt)

\* The native route and the engine's call return no word.
emit_epoch_keep(f, ok, pre) ==
    IF ok /\ f.opt /\ epoch = pre.epoch
    THEN Kept(or_flags_word(f, {"this", "other", "bind"}), FLAGS_ALL, pre)
    ELSE Merged(or_flags_word(f, FLAGS_ALL), f.opt)

ReturnFromCall(ok) ==
    LET pre == frames[Len(frames) - 1].call
    IN /\ Len(frames) > 1 /\ ~pre.new
       /\ frames' = Under(IF pre.kind = "engine" THEN emit_epoch_keep(Caller, ok, pre)
                          ELSE emit_flag_fork(Caller, Top_.word, ok, pre))
       /\ HeapKept

\* emit_construct_clean_fork.  The body's writes through `this` are dropped;
\* an empty word proves that result and `this` are one fresh object.
ret_clean_for(s) == Bodies[s].scanned   \* ReadOnly or StoreOnly, not Fail
ctor_returns_this(s) == s # Engine_ /\ Bodies[s].retThis
MarkFresh(f, res, likely) == IF ctor_returns_this(likely) THEN [f EXCEPT !.fresh = @ \cup {res}] ELSE f

emit_construct_clean_fork(f, w, ok, pre, res, site, fork, merge) ==
    IF fork /\ ok /\ w = {} THEN MarkFresh(f, res, pre.likely)
    ELSE IF fork /\ ok /\ ~mapped_args_reachable(f) /\ ("stamps" \notin w \/ epoch = pre.epoch)
    THEN Kept(or_flags_word(f, w \ {"stamps"}), w, pre)
    ELSE Merged(MarkFresh(or_flags_word(f, merge), res, pre.likely), site)

\* delta: the word of create_this, empty when the nursery bump was taken.
ReturnFromConstruct(ok, delta, res) ==
    LET pre == frames[Len(frames) - 1].call
        masked == Top_.word \ {"this"}
        unresolved == pre.likely = Engine_
        site == Caller.opt /\ IF unresolved THEN ~mapped_args_reachable(Caller) ELSE ret_clean_for(pre.likely)
        fork == site /\ (unresolved \/ pre.kind = "direct")
        word == IF unresolved THEN {"other", "stamps", "bind"} ELSE delta \cup masked
        merge == IF pre.kind = "engine" THEN FLAGS_ALL ELSE delta \cup masked
    IN /\ Len(frames) > 1 /\ pre.new
       /\ Compiled(Top_) /\ Bodies[Top_.body].retThis => res = pre.this
       /\ frames' = Under(emit_construct_clean_fork(Caller, word, ok, pre, res, site, fork, merge))
       /\ HeapKept

\* The programs in which every construct that can cost a binding fact forks: no likely
\* constructor's scan fails, and no body that reads the binding has mapped arguments.
\* Elsewhere the merge stays on the track with the fact (site above).
BindingForked ==
    /\ \A s \in CallSites : s[2] # Engine_ => ret_clean_for(s[2])
    /\ \A b \in DOMAIN Bodies : Bodies[b].reads => ~Bodies[b].mapped

--------------------------------------------------------------------------
KeepInit ==
    /\ \E r \in Outermost :
         frames = <<[body |-> r[1], this |-> r[2], fresh |-> {}, word |-> {}, facts |-> {}, gfact |-> FALSE,
                     opt |-> TRUE, call |-> NoCall, born |-> Old, written |-> {}, demoted |-> {}, bound |-> FALSE]>>
    /\ stamped = Old /\ unborn = New
    /\ epoch = 0 /\ bepoch = 0 /\ binding = TRUE /\ events = 0

KeepEvent ==
    \/ \E o \in Objects : Guard(o) \/ NewObject(o)
    \/ GetGName \/ or_flags_leaf_write \/ emit_class_idx_stamp \/ try_call_return_onramp
    \/ \E o \in Objects, n \in Names, via \in {"this", "other", "fresh"} : Store(o, n, via)
    \/ \E c \in BOOLEAN : SetGName(c)
    \/ \E s \in CallSites, o \in Objects :
         \/ \E via \in {"this", "other", "fresh"} : EmitCall(s[1], s[2], o, via)
         \/ EmitConstruct(s[1], s[2], o)

KeepReturn ==
    \/ \E ok \in BOOLEAN : ReturnFromCall(ok)
    \/ \E ok \in BOOLEAN, delta \in {{}, FLAGS_ALL}, res \in Alive : ReturnFromConstruct(ok, delta, res)

KeepNext ==
    \/ KeepEvent /\ events < MaxEvents /\ events' = events + 1
    \/ KeepReturn /\ UNCHANGED events

\* Whatever the calls in between did, a fact the running frame still carries
\* is true: the objects it takes for stamped are, and the binding has its
\* claimed type (emit_flag_fork, summary_conflict_free, gcells_keep).
KeptFactsHold == Compiled(Top_) => Top_.facts \subseteq stamped /\ (Top_.gfact => binding)

\* A frame's word owns up to everything done since the frame was entered,
\* by it or below it, to what was there before: an object written, a stamp
\* ended, a binding set (or_flags_word, fold_callee_flags).
WordIsHonest ==
    LET f == Top_
    IN Compiled(f) =>
         /\ (f.written \cap f.born) \ {f.this} # {} => "other" \in f.word
         /\ f.this \in f.written => f.word \cap {"this", "other"} # {}
         /\ f.demoted \cap f.born # {} => "stamps" \in f.word
         /\ f.bound => "bind" \in f.word

\* What a frame takes for fresh was allocated in that frame, so no fact of a
\* caller can be about it (store_recv_bit, emit_construct_clean_fork).
FreshIsOwn == \A i \in 1..Len(frames) : frames[i].fresh \cap frames[i].born = {}

\* What a frame keeps over a call is true, because every frame below it reported what
\* it did and took for its own only what it allocated.
KeptHolds == KeptFactsHold /\ WordIsHonest /\ FreshIsOwn
=============================================================================
