------------------------------ MODULE Versioning ------------------------------
(***************************************************************************)
(* Basic-block versioning (wasm/bbv/version.rs, predict.rs, arms.rs and    *)
(* the driver translate_script of mod.rs).  A script is compiled one op at *)
(* a time; a version of an op is identified by its pc, the marks of the    *)
(* loops around it and its track.  Every optimized version of a pc reads   *)
(* the one prediction of the pc, the join of all optimized arrivals.  The  *)
(* prediction pass walks the versions until nothing moves, the code pass   *)
(* walks them once more and emits; the emitted code then runs.             *)
(*                                                                         *)
(* A script is [ops, slots, loops, seg, sites, outer, live, formals,       *)
(* claims]: ops on the frame's slots, the loop intervals, the splice each  *)
(* pc belongs to, the call sites around it and the slots of the frames it  *)
(* is spliced into, the slots live at each pc, the slots that are formals, *)
(* and the entry claims.  The operand stack is empty between ops, and a    *)
(* splice's slots are slots of the one frame.                              *)
(* The live slots come from the pass that BodyGraph models.                *)
(***************************************************************************)
EXTENDS SlotContext, Sequences, SequencesExt, TLC

CONSTANTS
    Scripts,              \* the scripts compiled
    MaxRounds,            \* the values of CTXONLY_MAX_ROUNDS tried (48 in the code)
    VERSIONS_PER_ROUND, STRIP_MAX_ROUNDS, CLOSURE_MAX_TRIES,
    BYTES_PER_GUARD,      \* RET_ONRAMP_BYTES_PER_GUARD, in ops
    Sizes,                \* which rungs come out too large
    ArgVals,              \* what the formals hold on entry
    Steps                 \* the ops an execution runs

VARIABLES
    script, rung, large,  \* large: the rungs whose body exceeds MAX_BODY_VALUES
    stage,                 \* "context", "code", "run", "skipped"
    cs,                   \* the version table and the walk over it
    CTXONLY_MAX_ROUNDS, rounds, stripping, tries,
    code,                 \* per version, the arms emitted for it
    rt                    \* the running frame

compileVars == <<script, rung, large, CTXONLY_MAX_ROUNDS, stage, cs, rounds, stripping, tries, code>>
versionVars == <<compileVars, rt>>

Locals == script.slots
FreeFacts == [l \in Locals |-> TOP]
NoFacts == <<>>
gen_only == rung = "gen"
fanout_off == rung # "full"
EntryVersion == [pc |-> 0, toks |-> {}, track |-> "Opt"]

-----------------------------------------------------------------------------
(* Loop marks.  PEEL: inside the loop without having passed its header on  *)
(* this lineage's track; CYCLE: handed out by a header off the optimized   *)
(* track; OPT: by the optimized header.                                    *)

Loop(i) == script.loops[i]
seg_sites(pc) == IF fanout_off THEN {} ELSE script.sites[pc]
InLoop(pc, h, e) == \E p \in {pc} \cup (IF pc = 0 THEN {} ELSE seg_sites(pc)) : h <= p /\ p < e
IsHeader(pc) == \E i \in DOMAIN script.loops : Loop(i).h = pc

\* es is the state of an emission: [pc, ver, toks, track, facts, ssa, stale, ret].
out_tokens_for(es, succ) ==
    LET peel == es.track # "Opt"
        mark(i) ==
            LET held == {t[2] : t \in {u \in es.toks : u[1] = i}}
            IN CASE ~InLoop(es.pc, Loop(i).h, Loop(i).e) -> "PEEL"
                 [] InLoop(es.pc, Loop(i).h, Loop(i).e) /\ es.pc = Loop(i).h ->
                      IF es.ver.track # "Opt" THEN "CYCLE" ELSE "OPT"
                 [] OTHER -> IF held = {} \/ (peel /\ held # {"CYCLE"})
                             THEN (IF peel THEN "PEEL" ELSE "OPT")
                             ELSE CHOOSE t \in held : TRUE
    IN IF gen_only THEN {}
       ELSE {<<i, mark(i)>> : i \in {j \in DOMAIN script.loops : InLoop(succ, Loop(j).h + 1, Loop(j).e)}}

\* The tail of a proof copy goes back to the dirty cycle it was recovered out of.
edge_track(es, succ) ==
    IF es.track = "Opt" /\ \E i \in DOMAIN script.loops : Loop(i).h = succ /\ <<i, "CYCLE">> \in es.toks
    THEN "Dirty" ELSE es.track

leaves_loop(pc, succ) == \E i \in DOMAIN script.loops : InLoop(pc, Loop(i).h, Loop(i).e) /\ ~InLoop(succ, Loop(i).h, Loop(i).e)

-----------------------------------------------------------------------------
(* The version table: pred (per pc), carr (per pc and track, the first     *)
(* arrival's), ctx (per version), order of interning; and the walk: the    *)
(* blocks made, the LIFO queue, the versions processed, whether it moved.  *)

NewTable == [pred |-> [p \in DOMAIN script.ops |-> NoFacts], carr |-> <<>>, ctx |-> <<>>, order |-> <<>>,
             blocks |-> {}, queue |-> <<>>, processed |-> {}, changed |-> FALSE]
\* A new walk over the same table.
Rewalk(t) == [t EXCEPT !.blocks = {}, !.queue = <<>>, !.processed = {}, !.changed = FALSE]

strip_all(t) == [t EXCEPT
    !.ctx = [v \in DOMAIN t.ctx |-> [facts |-> FreeFacts, carried |-> {}]],
    !.pred = [p \in DOMAIN t.pred |-> IF t.pred[p] = NoFacts THEN NoFacts ELSE FreeFacts]]

CtxImplies(arr, cur) == \A l \in Locals : implies(arr[l], cur[l])
CtxImpliesSansIv(arr, cur) == \A l \in Locals : implies_sans_iv(arr[l], cur[l])
CtxJoin(arr, cur) == [l \in Locals |-> Join(arr[l], cur[l])]
CtxJoinIvOnly(cur, arr) == [l \in Locals |-> join_iv_only(cur[l], arr[l])]

\* The arrival weakens the stored prediction as little as it can.
join_arrival(cur, arr) ==
    IF cur = NoFacts THEN arr
    ELSE IF CtxImplies(arr, cur) THEN cur
    ELSE IF CtxImpliesSansIv(arr, cur) THEN CtxJoinIvOnly(cur, arr)
    ELSE CtxJoin(arr, cur)

rearm(t, v) ==
    IF stage = "context" /\ v \in t.blocks /\ v \in t.processed
    THEN [t EXCEPT !.processed = @ \ {v}, !.queue = Append(@, v)] ELSE t

rearm_pc(t, pc) ==
    LET opts == SelectSeq(t.order, LAMBDA v : v.pc = pc /\ v.track = "Opt" /\ v \in DOMAIN t.ctx)
        seen == [t EXCEPT !.ctx = [v \in DOMAIN t.ctx |->
                    IF v.pc = pc /\ v.track = "Opt" THEN [t.ctx[v] EXCEPT !.facts = t.pred[pc]] ELSE t.ctx[v]]]
    IN IF stage # "context" THEN t ELSE FoldLeft(rearm, seen, opts)

intern(t, v) == IF v \in Range(t.order) THEN t ELSE [t EXCEPT !.order = Append(@, v)]

\* An optimized arrival is joined into the prediction of the pc.
Arrived(t, v, facts) ==
    LET joined == join_arrival(t.pred[v.pc], facts)
    IN IF v.track = "Opt" /\ stage = "context" /\ joined # t.pred[v.pc]
       THEN rearm_pc([t EXCEPT !.pred[v.pc] = joined, !.changed = TRUE], v.pc) ELSE t

\* The first arrival decides what the versions of the pc and track carry.
CarryFirst(t, key, carried) ==
    IF key \in DOMAIN t.carr THEN t ELSE [t EXCEPT !.carr = @ @@ (key :> carried)]

\* The version's context is what its pc predicts now.
Landed(t, v) ==
    LET want == [facts |-> IF v.track = "Opt" /\ t.pred[v.pc] # NoFacts THEN t.pred[v.pc] ELSE FreeFacts,
                 carried |-> t.carr[<<v.pc, v.track>>]]
    IN [v |-> v, t |-> IF v \in DOMAIN t.ctx /\ t.ctx[v] = want THEN t
                       ELSE rearm([t EXCEPT !.ctx = (v :> want) @@ @, !.changed = TRUE], v)]

\* The version an arrival lands in, and what its landing moves.
theta(t, pc, arr) ==
    LET track == IF gen_only THEN "Opt" ELSE IF arr.track = "Side" THEN "Dirty" ELSE arr.track
        carried == IF gen_only \/ stripping THEN {} ELSE arr.carried
        facts == IF track = "Dirty" \/ (stripping /\ ~gen_only) THEN FreeFacts ELSE arr.facts
        v == [pc |-> pc, toks |-> arr.toks, track |-> track]
    IN Landed(CarryFirst(Arrived(intern(t, v), v, facts), <<pc, track>>, carried), v)

ensure_version_block(t, v) ==
    IF v \in t.blocks THEN t ELSE [t EXCEPT !.blocks = @ \cup {v}, !.queue = Append(@, v)]

-----------------------------------------------------------------------------
(* Carriers: a slot travels as a block parameter in the representation its *)
(* fact licenses.  A raw carrier may be ahead of its frame slot (stale).   *)

\* The slots an edge proposes to carry; out of and into a splice only raw ones.
carried_out(es, succ) ==
    LET crosses == es.pc = 0 \/ script.seg[succ] # 0 \/ script.seg[es.pc] # 0
        rides(l) == IF es.pc # 0 /\ crosses THEN es.ssa[l] \in Raw /\ slot_repr(es.facts[l]) \in Raw
                    ELSE es.ssa[l] # "none" \/ l \in script.formals
    IN {l \in Locals : rides(l) /\ l \in script.live[succ]}

kill_carriers(es) ==
    LET immune(l) == \/ es.ssa[l] \in Raw
                     \/ /\ es.ssa[l] = "Boxed" /\ l \notin script.formals
                        /\ ~es.facts[l].outside /\ "string" \notin es.facts[l].prims
    IN [es EXCEPT !.ssa = [l \in Locals |-> IF immune(l) THEN es.ssa[l] ELSE "none"]]

kill_cls_facts(es) ==
    [es EXCEPT !.facts = [l \in Locals |-> [es.facts[l] EXCEPT !.cls = NoRange, !.shallow = FALSE, !.slots = FALSE]]]

\* A raw result waits in its carrier; any other is stored at once.
write_local(es, l, fact, repr) ==
    [es EXCEPT !.facts = (l :> fact) @@ es.facts, !.ssa = (l :> repr) @@ es.ssa,
               !.stale = IF repr \in Raw /\ ~gen_only THEN es.stale \cup {l} ELSE es.stale \ {l}]

\* A read of a slot without a carrier loads the frame and keeps what it loaded.
read_local(es, l) == IF es.ssa[l] = "none" THEN [es EXCEPT !.ssa = (l :> "Boxed") @@ es.ssa] ELSE es

\* The representation each carried slot is converted to on the edge.
EdgeArgs(c) == [l \in c.carried |-> slot_repr(c.facts[l])]

\* The edge into version v: what is stored to the frame on the way, and the parameters.
cont_at(t, es, v) ==
    LET c == t.ctx[v]
        keep == {l \in c.carried : slot_repr(c.facts[l]) \in Raw}
        dead == {l \in es.stale : l \notin keep /\ l \notin script.live[v.pc]}
    IN [to |-> v,
        args |-> EdgeArgs(c),
        flush |-> es.stale \ (keep \cup dead),
        tramp |-> IF leaves_loop(es.pc, v.pc) THEN dead ELSE {}]

-----------------------------------------------------------------------------
(* Proof edges.  An edge off the optimized track re-proves the prediction  *)
(* of its target with guards; where they fail the normal edge is taken.    *)

NoProof == <<>>
OperandRepr(es, l) == IF es.ssa[l] = "none" THEN "Boxed" ELSE es.ssa[l]

\* The slots with a claim that the target may read, the callers' ones included.
Owed(c, succ) == {l \in Locals : c.facts[l] # TOP /\ l \in script.live[succ]}

\* The guards the slots owe and the intervals the edge delivers; ok is FALSE when some slot has no guard.
proof_gaps(es, c, succ) ==
    LET owed == Owed(c, succ)
        guard == [l \in owed |-> proof_gap(es.facts[l], OperandRepr(es, l), c.facts[l])]
        given == [l \in owed |-> proof_delivered_iv(es.facts[l], guard[l], c.facts[l])]
        bounds == {l \in owed : iv_gap_guardable(given[l], es.facts[l], OperandRepr(es, l), guard[l], c.facts[l])}
    IN [ok |-> "refuse" \notin Range(guard),
        tests |-> [l \in {m \in owed : guard[m] # "none"} \cup bounds |->
                     [guard |-> guard[l], iv |-> l \in bounds, tgt |-> c.facts[l]]],
        delivered |-> [l \in Locals |-> IF l \notin owed THEN NoRange
                                        ELSE IF l \in bounds THEN c.facts[l].iv ELSE given[l]]]

emit_proof(t, v, c, plan) ==
    [t |-> ensure_version_block(t, v),
     proof |-> [to |-> v, args |-> EdgeArgs(c), tests |-> plan.tests]]

\* The optimized version an on-ramp aims at, seeded in the context pass and only looked up in the code pass.
SeedOpt(t, v) ==
    LET c == [facts |-> t.pred[v.pc], carried |-> t.carr[<<v.pc, "Opt">>]]
        t1 == intern(t, v)
        known == v \in DOMAIN t1.ctx /\ t1.ctx[v] = c
    IN [c |-> c, ok |-> known \/ stage = "context",
        t |-> IF known \/ stage # "context" THEN t1 ELSE [t1 EXCEPT !.ctx = (v :> c) @@ @, !.changed = TRUE]]

HasOptHeader(t, pc) == t.pred[pc] # NoFacts /\ <<pc, "Opt">> \in DOMAIN t.carr

\* The intervals of the header joined with what the edge delivers, and their way into the prediction.
Delivered(c, plan) == CtxJoinIvOnly(c.facts, [l \in Locals |-> [TOP EXCEPT !.iv = plan.delivered[l]]])
FunnelWiden(t, succ, facts) == rearm_pc([t EXCEPT !.pred[succ] = facts, !.changed = TRUE], succ)

NoRamp(t) == [t |-> t, proof |-> NoProof]

\* An interval that would move is joined into the prediction from inside the loop, and declines the
\* edge from outside.
OnrampBy(seed, plan, v, es, funnel) ==
    LET moves == ~stripping /\ Delivered(seed.c, plan) # seed.c.facts
    IN IF ~seed.ok \/ script.seg[v.pc] # (IF es.pc = 0 THEN 0 ELSE script.seg[es.pc]) \/ ~plan.ok
          \/ (moves /\ (~funnel \/ stage # "context"))
       THEN NoRamp(seed.t)
       ELSE emit_proof(IF moves THEN FunnelWiden(seed.t, v.pc, Delivered(seed.c, plan)) ELSE seed.t, v, seed.c, plan)
OnrampTo(seed, v, es, funnel) == OnrampBy(seed, proof_gaps(es, seed.c, v.pc), v, es, funnel)

\* Off the optimized track, at a loop's header: from inside the loop only out of its peel, and only
\* where every loop around it is in its dirty cycle.
try_onramp(t, es, succ) ==
    LET i == CHOOSE j \in DOMAIN script.loops : Loop(j).h = succ
        funnel == InLoop(es.pc, Loop(i).h, Loop(i).e)
        v == [pc |-> succ, toks |-> out_tokens_for(es, succ), track |-> "Opt"]
    IN IF \/ ~IsHeader(succ) \/ gen_only \/ es.track = "Opt" \/ es.pc = succ
          \/ funnel /\ <<i, "PEEL">> \notin es.toks
          \/ \E tk \in v.toks : tk[2] # "CYCLE"
          \/ ~HasOptHeader(t, succ)
       THEN NoRamp(t) ELSE OnrampTo(SeedOpt(t, v), v, es, funnel)

\* A slot may owe two guards, one for its type and one for its bounds; the guards must be worth
\* the code left to run.
Guards(tests) == Cardinality({l \in DOMAIN tests : tests[l].guard # "none"}) + Cardinality({l \in DOMAIN tests : tests[l].iv})
ret_onramp_admits(succ, plan) ==
    LET ends == {Loop(i).e : i \in {j \in DOMAIN script.loops : Loop(j).h <= succ /\ succ < Loop(j).e}}
        end == IF ends = {} THEN Len(script.ops) + 1 ELSE Min(ends)
    IN (end - succ) \div BYTES_PER_GUARD >= Guards(plan.tests)

\* Inside a splice the return proves nothing about the caller's frame: a claim on it declines.
ClaimsOnCaller(facts, pc) == \E l \in script.outer[pc] : [facts[l] EXCEPT !.iv = NoRange] # TOP
ReturnBy(seed, plan, v) ==
    IF ~seed.ok \/ ~plan.ok \/ (plan.tests # <<>> /\ ~ret_onramp_admits(v.pc, plan))
    THEN NoRamp(seed.t) ELSE emit_proof(seed.t, v, seed.c, plan)
ReturnTo(seed, v, es) == ReturnBy(seed, proof_gaps(es, seed.c, v.pc), v)

\* Past a call whose callee did not keep the facts: straight back to the version the call would
\* have continued into.
try_call_return_onramp(t, es, succ) ==
    LET was == [es EXCEPT !.track = es.ver.track]
        v == [pc |-> succ, toks |-> out_tokens_for(was, succ), track |-> "Opt"]
    IN IF gen_only \/ es.ret # succ \/ edge_track(was, succ) # "Opt" \/ script.seg[succ] # script.seg[es.pc]
          \/ ~HasOptHeader(t, succ) \/ ClaimsOnCaller(t.pred[succ], succ)
       THEN NoRamp(t) ELSE ReturnTo(SeedOpt(t, v), v, es)

\* Every edge of every op: the normal continuation first, whether or not a proof precedes it.
OrReturn(on, es, succ) == IF on.proof # NoProof THEN on ELSE try_call_return_onramp(on.t, es, succ)
Continued(t, v, es) == ("edge" :> cont_at(t, es, v)) @@ OrReturn(try_onramp(t, es, v.pc), es, v.pc)
ContinueAt(th, es) == Continued(ensure_version_block(th.t, th.v), th.v, es)
cont(t, es, succ) ==
    ContinueAt(theta(t, succ, [facts |-> es.facts, toks |-> out_tokens_for(es, succ),
                               carried |-> carried_out(es, succ), track |-> edge_track(es, succ)]), es)

-----------------------------------------------------------------------------
(* The arms of an op, in the order they are emitted: what the arm tests,   *)
(* what it does, the emission state at its edge, and the edge's form.  An  *)
(* arm that called out is dirty, a throw drops every fact and carrier.     *)

NoWrite == [l |-> 0, f |-> "none", repr |-> "Boxed"]
Arm(test, gc, w, es, via, succ) ==
    [test |-> test, gc |-> gc, w |-> w, es |-> es, via |-> via, succ |-> succ, stored |-> {}]
Put(l, f, repr) == [l |-> l, f |-> f, repr |-> repr]
Main(es, succ) == Arm("any", "no", NoWrite, es, "cont", succ)

\* An op handed to its generic helper, which may run anything.
HelperCall(es, l, f, test, succ) ==
    LET after == kill_carriers(kill_cls_facts(es))
    IN Arm(test, "call", IF l = 0 THEN NoWrite ELSE Put(l, f, "Boxed"),
           IF l = 0 THEN after ELSE write_local(after, l, TOP, "Boxed"), "dirty", succ)
\* ... on a lineage that is generic already, or in a body with one version per pc.
Generic(es, l, f, succ) == [HelperCall(es, l, f, "any", succ) EXCEPT !.via = "cont"]

OnOpt(es) == es.track = "Opt" /\ ~gen_only
Side(es) == [es EXCEPT !.track = "Side"]
IncIv(iv) ==
    LET r == iv_add(Iv(iv.lo, iv.hi, FALSE), Iv(1, 1, FALSE))
    IN IF iv.ok THEN VRange(MaxOf(r.lo, I32_LO), MinOf(r.hi, I32_HI)) ELSE VRange(I32_LO, I32_HI)

\* Inc: int32 with its overflow as a double arm that keeps the track; a number in f64; anything else
\* guarded, with the generic helper on the side.
IncArms(es, l, succ) ==
    LET s == es.facts[l]
        fits == s.iv.ok /\ s.iv.hi < I32_HI
        int == Arm("int", "no", Put(l, "inc", "I32"), write_local(es, l, [INT32_SLOT EXCEPT !.iv = IncIv(s.iv)], "I32"), "cont", succ)
        over == Arm("over", "no", Put(l, "inc", "F64"), write_local(es, l, NUMERIC_SLOT, "F64"), "cont", succ)
    IN CASE ~OnOpt(es) -> <<Generic(es, l, "inc", succ)>>
         [] OnOpt(es) /\ ExactInt32(s) -> IF fits THEN <<[int EXCEPT !.test = "any"]>> ELSE <<over, int>>
         [] OnOpt(es) /\ ~ExactInt32(s) /\ slot_is_numeric(s) -> <<[over EXCEPT !.test = "any"]>>
         [] OTHER -> <<HelperCall(Side(es), l, "inc", "notint", succ), over, int>>

\* A property read with a claim on its value.
LoadArms(es, l, claim, succ) ==
    LET s == claim_slot_ctx(claim)
        r == IF slot_repr(s) \in Raw THEN slot_repr(s) ELSE "Boxed"
    IN IF ~OnOpt(es) THEN <<Generic(es, l, "load", succ)>>
       ELSE <<HelperCall(Side(es), l, "load", "any", succ),
              Arm("any", "no", Put(l, "claimed", r), write_local(es, l, s, r), "cont", succ)>>

\* A class guard on a slot: checkless where the class is a fact, else a test that makes it one.
GuardArms(es, l, succ) ==
    LET want == [OBJ_ONLY_SLOT EXCEPT !.cls = VRange(1, 1), !.shallow = TRUE]
        e == read_local(es, l)
    IN CASE ~OnOpt(es) -> <<Generic(e, 0, "none", succ)>>
         [] OnOpt(es) /\ implies(es.facts[l], want) -> <<Main(e, succ)>>
         [] OTHER -> <<HelperCall(Side(e), 0, "none", "miss", succ)>>
                     \o [i \in 1..Cardinality(Meet(es.facts[l], want)) |->
                           Arm("class", "no", NoWrite, [e EXCEPT !.facts = (l :> CHOOSE m \in Meet(es.facts[l], want) : TRUE) @@ e.facts],
                               "cont", succ)]

\* Mutant: the merge keeps the class facts the callee may have broken.
CallArmsKeepFacts(es, op, succ) ==
    LET kept == [kill_carriers(es) EXCEPT !.track = "Opt"]
    IN IF OnOpt(es) THEN <<Arm("any", "call", NoWrite, kept, "cont", succ)>> ELSE <<Generic(es, 0, "none", succ)>>

\* A call that may throw, then goes on.  The throw's edge stores every deferred slot and empties the
\* set for what the op emits after it.  The stores are in the block of the test, before both ways,
\* unless iterators are to be closed: then they are in the block that closes them.
OrThrow(es, op, main) ==
    IF op.t = 0 THEN <<main>>
    ELSE <<Arm("throws", "call", NoWrite, kill_carriers(kill_cls_facts(es)), "stripped", op.t),
           [main EXCEPT !.es.stale = {}, !.stored = IF op.closes THEN {} ELSE es.stale]>>

\* A scripted call: with the callee's word intact the facts from before it stand (pointers are
\* reloaded); otherwise the merge goes on dirty, with an on-ramp at the next op.
CallArms(es, op, succ) ==
    LET lost == [kill_carriers(kill_cls_facts(es)) EXCEPT !.track = "Dirty", !.ret = succ]
    IN IF OnOpt(es)
       THEN <<Arm("intact", "quiet", NoWrite, kill_carriers(es), "cont", succ)>>
            \o OrThrow(es, op, Arm("any", "call", NoWrite, lost, "cont", succ))
       ELSE OrThrow(es, op, Generic(es, 0, "none", succ))

\* A spliced call enters the callee's ops; off the first rung a site inside a loop stays a call.
SpliceArms(es, t, next) ==
    IF fanout_off /\ \E i \in DOMAIN script.loops : InLoop(es.pc, Loop(i).h, Loop(i).e)
    THEN CallArms(es, [t |-> 0, closes |-> FALSE], next) ELSE <<Main(es, t)>>

OpArms(es, op, next) ==
    CASE op.o = "int" -> <<Arm("any", "no", Put(op.l, "zero", "I32"),
                               write_local(es, op.l, [INT32_SLOT EXCEPT !.iv = VRange(0, 0)], "I32"), "cont", next)>>
      [] op.o = "inc" -> IncArms(read_local(es, op.l), op.l, next)
      [] op.o = "load" -> LoadArms(es, op.l, op.claim, next)
      [] op.o = "guard" -> GuardArms(es, op.l, next)
      [] op.o = "call" -> CallArms(es, op, next)
      [] op.o = "br" -> <<Main(es, op.t), Main(es, next)>>
      [] op.o = "goto" -> <<Main(es, op.t)>>
      [] op.o = "splice" -> SpliceArms(es, op.t, next)
      [] op.o = "head" -> <<Main(es, next)>>
      [] op.o = "use" -> <<Main(read_local(es, op.l), next)>>
      [] op.o = "ret" -> <<>>

\* The typed entry: one edge for callers that proved the claims, one behind their tests, and the rest.
EntryArms(es) ==
    LET typed == [es EXCEPT !.facts = [l \in Locals |-> IF l \in DOMAIN script.claims THEN claim_slot_ctx(script.claims[l]) ELSE TOP]]
    IN IF script.claims = <<>> THEN <<Main(es, 1)>>
       ELSE <<[Main(typed, 1) EXCEPT !.test = "claims"], [Main(typed, 1) EXCEPT !.test = "claims"],
              [Main(Side(es), 1) EXCEPT !.test = "noclaims"]>>

\* What run_version sets up from the version's context.
EntryState(t, v) ==
    LET c == IF v = EntryVersion THEN [facts |-> FreeFacts, carried |-> {}] ELSE t.ctx[v]
        ssa == [l \in Locals |-> IF l \in c.carried THEN slot_repr(c.facts[l]) ELSE "none"]
    IN [pc |-> v.pc, ver |-> v, toks |-> v.toks, track |-> v.track, facts |-> c.facts, ssa |-> ssa,
        stale |-> IF gen_only THEN {} ELSE {l \in Locals : ssa[l] \in Raw}, ret |-> 0]

\* The state an arm's edge leaves from.
EdgeState(arm) ==
    CASE arm.via = "cont" -> arm.es
      [] arm.via = "dirty" -> [arm.es EXCEPT !.track = "Dirty"]
      [] arm.via = "stripped" -> [arm.es EXCEPT !.track = "Dirty", !.facts = FreeFacts, !.stale = {},
                                                !.ssa = [l \in Locals |-> "none"]]

run_version(t, v) ==
    LET es == EntryState(t, v)
        arms == IF v = EntryVersion THEN EntryArms(es) ELSE OpArms(es, script.ops[v.pc], v.pc + 1)
        emit(acc, arm) ==
            LET r == cont(acc.t, EdgeState(arm), arm.succ)
                fl == [r.edge EXCEPT !.flush = IF arm.via = "stripped" THEN arm.es.stale ELSE @ \cup arm.stored]
            IN [t |-> r.t, out |-> Append(acc.out, [arm |-> arm, edge |-> fl, proof |-> r.proof])]
    IN FoldLeft(emit, [t |-> t, out |-> <<>>], arms)

-----------------------------------------------------------------------------
(* The driver. *)

\* The blocks reachable from the entry, not through the blocks in A.
VersionsAvoiding(succ, A) ==
    LET R[n \in 0..Cardinality(DOMAIN succ)] ==
          IF n = 0 THEN {EntryVersion} \ A
          ELSE LET r == R[n - 1] IN r \cup (UNION {succ[x] : x \in r} \ A)
    IN R[Cardinality(DOMAIN succ)]

\* Without the edges back to a dominator the versions form no cycle.
Reducible(succ) ==
    LET dom == [v \in DOMAIN succ |-> DOMAIN succ \ VersionsAvoiding(succ, {v})]   \* what v dominates
        fwd == [v \in DOMAIN succ |-> {w \in succ[v] : v \notin dom[w]}]
        Peel[n \in 0..Cardinality(DOMAIN succ)] ==
            IF n = 0 THEN DOMAIN succ
            ELSE LET r == Peel[n - 1] IN {v \in r : fwd[v] \cap r # {}}
    IN Peel[Cardinality(DOMAIN succ)] = {}

Successors(c) == [v \in DOMAIN c |->
    UNION {{x.edge.to} \cup (IF x.proof = NoProof THEN {} ELSE {x.proof.to}) : x \in Range(c[v])}]

NoRun == [at |-> EntryVersion, truth |-> <<>>, frame |-> <<>>, car |-> <<>>, heap |-> <<>>, n |-> 0]

\* Generators have the last rung only; every other script starts at the first.
VersionInit ==
    /\ script \in Scripts
    /\ large \in Sizes /\ CTXONLY_MAX_ROUNDS \in MaxRounds
    /\ rung = IF script.generator THEN "gen" ELSE "full"
    /\ stage = "context" /\ rounds = 0 /\ stripping = FALSE /\ tries = 0
    /\ code = <<>> /\ rt = NoRun
    /\ cs = NewTable

Walking == stage \in {"context", "code"} /\ cs.blocks # {}

\* The entry block of a new walk.
Begin ==
    /\ stage \in {"context", "code"} /\ cs.blocks = {}
    /\ \E r \in {run_version(cs, EntryVersion)} :
          cs' = r.t /\ code' = IF stage = "code" THEN (EntryVersion :> r.out) ELSE <<>>
    /\ UNCHANGED <<script, rung, large, CTXONLY_MAX_ROUNDS, stage, rounds, stripping, tries, rt>>

\* One version of the walk; a version queued twice runs once.
Visit ==
    /\ Walking /\ cs.queue # <<>>
    /\ LET v == Last(cs.queue)
           t == [cs EXCEPT !.queue = Front(@)]
       IN IF v \in cs.processed THEN cs' = t /\ UNCHANGED code
          ELSE \E r \in {run_version([t EXCEPT !.processed = @ \cup {v}], v)} :
                 cs' = r.t /\ code' = IF stage = "code" THEN (v :> r.out) @@ code ELSE code
    /\ UNCHANGED <<script, rung, large, CTXONLY_MAX_ROUNDS, stage, rounds, stripping, tries, rt>>

RoundCap == MaxOf(CTXONLY_MAX_ROUNDS, Len(cs.order) \div VERSIONS_PER_ROUND)
WalkEnded == Walking /\ cs.queue = <<>>

\* Mutant: the strip is not remembered.
EndRoundForgetsStrip ==
    /\ WalkEnded /\ stage = "context"
    /\ LET strip == cs.changed /\ rounds + 1 >= RoundCap
       IN /\ rounds' = MinOf(rounds + 1, RoundCap + STRIP_MAX_ROUNDS)
          /\ stage' = IF cs.changed THEN "context" ELSE "code"
          /\ cs' = Rewalk(IF strip THEN strip_all(cs) ELSE cs)
    /\ UNCHANGED <<script, rung, large, CTXONLY_MAX_ROUNDS, stripping, tries, code, rt>>

\* A prediction round that moved nothing closes the table; at the cap the table is stripped.
EndRound ==
    /\ WalkEnded /\ stage = "context"
    /\ LET strip == cs.changed /\ rounds + 1 >= RoundCap /\ ~stripping
           done == ~cs.changed \/ (~strip /\ rounds + 1 >= RoundCap + STRIP_MAX_ROUNDS)
       IN /\ stripping' = (stripping \/ strip)
          /\ rounds' = IF cs.changed THEN MinOf(rounds + 1, RoundCap + STRIP_MAX_ROUNDS) ELSE rounds
          /\ stage' = IF done THEN "code" ELSE "context"
          /\ cs' = Rewalk(IF strip THEN strip_all(cs) ELSE cs)
    /\ UNCHANGED <<script, rung, large, CTXONLY_MAX_ROUNDS, tries, code, rt>>

\* The next rung starts from nothing.
Descend(r) ==
    /\ rung' = r /\ cs' = NewTable
    /\ stage' = "context" /\ rounds' = 0 /\ stripping' = FALSE /\ tries' = 0 /\ code' = <<>>
    /\ UNCHANGED <<script, large, CTXONLY_MAX_ROUNDS, rt>>
NextRung == IF rung = "full" THEN "fanout" ELSE "gen"

\* The code pass moved the table: predict again, at the last try from a stripped table, and after
\* that one rung down.
Reclose ==
    LET last == tries + 1 = CLOSURE_MAX_TRIES
    IN IF tries >= CLOSURE_MAX_TRIES THEN Descend(NextRung)
       ELSE /\ cs' = Rewalk(IF last THEN strip_all(cs) ELSE cs)
            /\ stripping' = (stripping \/ last)
            /\ tries' = tries + 1 /\ stage' = "context" /\ code' = <<>>
            /\ UNCHANGED <<script, rung, large, CTXONLY_MAX_ROUNDS, rounds, rt>>

\* The middle rung is tried when spliced code under loop marks, or with facts about its callers'
\* frames, may have tipped a body that is not far over the limit.
TooLarge ==
    IF gen_only THEN stage' = "skipped" /\ UNCHANGED <<script, rung, large, CTXONLY_MAX_ROUNDS, cs, rounds, stripping, tries, code, rt>>
    ELSE LET spliced == \E v \in cs.blocks : \/ script.seg[v.pc] # 0 /\ v.toks # {}
                                             \/ \E l \in script.outer[v.pc] : cs.ctx[v].facts[l] # TOP
         IN \E far \in BOOLEAN : Descend(IF rung = "full" /\ (~spliced \/ far) THEN "gen" ELSE NextRung)

UndefinedVal == [tag |-> "undefined", h |-> 0, nz |-> FALSE, idx |-> 0, shallow |-> FALSE, slots |-> FALSE,
              ta |-> NoTa, addr |-> 0]
Heap == [addr : 0..1, idx : 1..2, shallow : BOOLEAN]

\* The body is refused when its graph is irreducible; otherwise it is entered with some arguments.
Install ==
    /\ IF ~gen_only /\ ~Reducible(Successors(code)) THEN stage' = "skipped" /\ UNCHANGED rt
       ELSE /\ stage' = "run"
            /\ \E args \in [script.formals -> ArgVals] :
                 LET truth == [l \in Locals |-> IF l \in script.formals THEN args[l] ELSE UndefinedVal]
                 IN rt' = [at |-> EntryVersion, truth |-> truth, frame |-> truth, car |-> [l \in Locals |-> Garbage],
                           heap |-> [addr |-> 0, idx |-> 1, shallow |-> TRUE], n |-> 0]
    /\ UNCHANGED <<script, rung, large, CTXONLY_MAX_ROUNDS, cs, rounds, stripping, tries, code>>

EndCode ==
    /\ WalkEnded /\ stage = "code"
    /\ IF cs.changed /\ ~gen_only THEN Reclose ELSE IF rung \in large THEN TooLarge ELSE Install

-----------------------------------------------------------------------------
(* The emitted code running.  truth is what the program computes, frame    *)
(* and car what the code holds; the one object moves and changes its class *)
(* at the calls.                                                           *)

WithHeap(v, heap) == IF v.tag = "object" THEN [v EXCEPT !.idx = heap.idx, !.shallow = heap.shallow] ELSE v
Moved(vals, heap) == [l \in DOMAIN vals |-> IF vals[l].tag = "object" THEN [vals[l] EXCEPT !.addr = heap.addr] ELSE vals[l]]
Agrees(x, y) ==
    IF IsNum(x) /\ IsNum(y) THEN x.h = y.h /\ x.nz = y.nz
    ELSE x.tag = y.tag /\ (x.tag = "object" => x.addr = y.addr)

NumberVal(h) == IF h % 2 = 0 /\ h \div 2 \in I32_LO..I32_HI THEN [UndefinedVal EXCEPT !.tag = "int32", !.h = h]
             ELSE [UndefinedVal EXCEPT !.tag = "double", !.h = h]
Fraction == [UndefinedVal EXCEPT !.tag = "double", !.h = 1]   \* stands for any fraction
\* What ++ computes; the lanes compute it in their own width.
JsInc(v) == IF IsNum(v) THEN NumberVal(v.h + 2) ELSE Fraction
WrapInc(v) == [UndefinedVal EXCEPT !.tag = "int32", !.h = IF v.h = 2 * I32_HI THEN 2 * I32_LO ELSE v.h + 2]
ResultVal(w, v, picked) ==
    CASE v.tag = "garbage" -> Garbage
      [] w.f = "zero" -> NumberVal(0)
      [] w.f = "inc" /\ w.repr = "I32" -> WrapInc(v)
      [] w.f = "inc" /\ w.repr = "F64" -> AsDouble(JsInc(v))
      [] w.f = "inc" /\ w.repr = "Boxed" -> JsInc(v)
      [] OTHER -> picked

Claimed(claims, vals) == \A l \in DOMAIN claims : Admits(claim_slot_ctx(claims[l]), vals[l])

\* Which arm runs: its test on the operands the code holds.
TestPasses(arm, op, val) ==
    LET v == val[op.l]
        w == WithHeap(v, rt.heap)
    IN CASE arm.test \in {"any", "intact", "throws"} -> TRUE
         [] arm.test = "claims" -> Claimed(script.claims, rt.frame)
         [] arm.test = "noclaims" -> ~Claimed(script.claims, rt.frame)
         [] arm.test = "int" -> v.tag = "int32" /\ v.h < 2 * I32_HI
         [] arm.test = "over" -> v.tag = "int32" /\ v.h = 2 * I32_HI
         [] arm.test = "notint" -> v.tag # "int32"
         [] arm.test = "class" -> w.tag = "object" /\ w.idx = 1 /\ w.shallow
         [] arm.test = "miss" -> ~(w.tag = "object" /\ w.idx = 1 /\ w.shallow)

Heaps(gc) == CASE gc = "no" -> {rt.heap}
               [] gc = "quiet" -> {h \in Heap : h.idx = rt.heap.idx /\ h.shallow = rt.heap.shallow}
               [] gc = "call" -> Heap

\* One version runs one of its arms: the op's effect, the deferred stores of the edge, the tests
\* of a proof edge, the parameters of the version entered.
Exec ==
    /\ stage = "run" /\ rt.n < Steps
    /\ LET in == EntryState(cs, rt.at)
           op == IF rt.at = EntryVersion THEN [o |-> "entry", l |-> CHOOSE l \in Locals : TRUE]
                 ELSE script.ops[rt.at.pc] @@ [l |-> CHOOSE l \in Locals : TRUE]
           val == [l \in Locals |-> IF in.ssa[l] # "none" THEN rt.car[l] ELSE rt.frame[l]]
       IN \E i \in DOMAIN code[rt.at] :
            LET x == code[rt.at][i]
                w == x.arm.w
                es == x.arm.es
            IN /\ TestPasses(x.arm, op, val)
               /\ \E heap \in Heaps(x.arm.gc) :
                  \E picked \in CASE w.f = "load" -> ArgVals
                                  [] w.f = "claimed" -> {v \in ArgVals : Admits(claim_slot_ctx(op.claim), v)}
                                  [] OTHER -> {UndefinedVal} :
                  LET pick == IF picked.tag = "object" THEN [picked EXCEPT !.addr = heap.addr] ELSE picked
                      res == IF w.l = 0 THEN Garbage ELSE ResultVal(w, val[w.l], pick)
                      truth == Moved(IF w.l = 0 THEN rt.truth
                                     ELSE [rt.truth EXCEPT ![w.l] = ResultVal([w EXCEPT !.repr = "Boxed"], @, pick)], heap)
                      stored == IF w.l # 0 /\ (w.repr \notin Raw \/ gen_only)
                                THEN [rt.frame EXCEPT ![w.l] = Convert(es.facts[w.l], res, w.repr, "Boxed")] ELSE rt.frame
                      frame0 == Moved(stored, heap)
                      opnd == [l \in Locals |-> IF es.ssa[l] = "none" THEN frame0[l]
                                                ELSE IF l = w.l THEN res ELSE val[l]]
                      boxed(l) == Convert(es.facts[l], opnd[l], OperandRepr(es, l), "Boxed")
                      frame1 == [l \in Locals |-> IF l \in x.edge.flush THEN boxed(l) ELSE frame0[l]]
                      src == EdgeState(x.arm)
                      from(l) == IF src.ssa[l] = "none" THEN frame1[l] ELSE opnd[l]
                      passes == /\ x.proof # NoProof
                                /\ \A l \in DOMAIN x.proof.tests :
                                     LET tst == x.proof.tests[l]
                                     IN GuardPasses(WithHeap(from(l), heap), tst.guard, tst.iv, tst.tgt)
                      edge == IF passes THEN x.proof ELSE x.edge
                      frame2 == [l \in Locals |-> IF ~passes /\ l \in x.edge.tramp THEN boxed(l) ELSE frame1[l]]
                      given(l) == IF passes /\ l \in DOMAIN x.proof.tests /\ x.proof.tests[l].guard = "Tag"
                                  THEN Convert(x.proof.tests[l].tgt, from(l), "Boxed", edge.args[l])
                                  ELSE Convert(src.facts[l], from(l), OperandRepr(src, l), edge.args[l])
                  IN rt' = [at |-> edge.to, truth |-> truth, frame |-> frame2, heap |-> heap, n |-> rt.n + 1,
                            car |-> [l \in Locals |-> IF l \in DOMAIN edge.args THEN given(l) ELSE Garbage]]
    /\ UNCHANGED compileVars

CompileNext == Begin \/ Visit \/ EndRound \/ EndCode
VersionNext == CompileNext \/ Exec

-----------------------------------------------------------------------------
(* Properties. *)

LiveHere == script.live[rt.at.pc]
RunningCode == stage = "run" /\ rt.at # EntryVersion

\* The facts of the version that runs hold of the values the program computed, whatever arms, calls
\* and proof edges led there: the prediction is closed under everything the code does.
FactsHold == RunningCode => \A l \in LiveHere : Admits(cs.ctx[rt.at].facts[l], WithHeap(rt.truth[l], rt.heap))

\* No value is lost between the carriers and the frame: a carried slot holds what the program
\* computed in the representation its fact licenses, and a slot that is read from the frame has
\* been stored there.
StateAgrees ==
    RunningCode => \A l \in LiveHere :
        LET in == EntryState(cs, rt.at)
        IN /\ in.ssa[l] # "none" => Agrees(rt.car[l], rt.truth[l]) /\ HoldsIn(in.ssa[l], rt.car[l])
           /\ l \notin in.stale => Agrees(rt.frame[l], rt.truth[l])

\* A version reads every slot, from its carrier or from the frame, as the program left it: a store
\* that was put off is made on every way to code that reads the frame.
NothingLost ==
    RunningCode => \A l \in LiveHere :
        Agrees(IF EntryState(cs, rt.at).ssa[l] = "none" THEN rt.frame[l] ELSE rt.car[l], rt.truth[l])

\* The closure check behind the code pass never fires: once a prediction round moved nothing, or
\* the table was stripped and settled, the code pass mints and moves nothing.
CodePassMovesNothing == stage = "code" /\ ~gen_only => ~cs.changed

\* Loop marks keep every cycle of versions single-entry, with on-ramps, side tracks and handlers:
\* a body is never refused as irreducible, only as too large.
NeverIrreducible == stage = "skipped" => "gen" \in large

\* The compiler comes to an end on every script.
CompileEnds == <>(stage \in {"run", "skipped"})

\* The code that comes out of the rounds runs under facts that hold and over state that
\* agrees, and was emitted from a table that had settled on a reducible graph.
CodeSound == FactsHold /\ StateAgrees /\ NothingLost /\ CodePassMovesNothing /\ NeverIrreducible
=============================================================================
