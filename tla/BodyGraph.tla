------------------------------ MODULE BodyGraph ------------------------------
(***************************************************************************)
(* The two program-point analyses of a body: the control-flow graph with   *)
(* its dominator tree and loop nest (compiler/src/wasm/bbv/cfg.rs), and    *)
(* the liveness of frame slots (compiler/src/wasm/bbv/live.rs).            *)
(*                                                                         *)
(* A body is its ops, at pcs 1..n of the unified pc space, the catch and   *)
(* finally notes, and the splice segments behind the root script.  A block *)
(* is named by the pc it starts at.  The worklists of the code are run     *)
(* step by step: a depth-first walk, sweeps over the reverse postorder     *)
(* until no immediate dominator changes, sweeps over the ops until no      *)
(* liveness changes.                                                       *)
(***************************************************************************)
EXTENDS Naturals, Sequences, FiniteSets, SequencesExt

CONSTANTS Bodies,    \* [ops, handlers, root, segs]: see below
          Accesses   \* what the ops at each pc do to the frame: see Use and Def

VARIABLES body,      \* the body under analysis
          graph,     \* [of, succ, pred, loop]: its blocks and edges, and its natural loops
          phase,     \* "walk", "idom", "live" or "done"
          stack,     \* the walk: <<block, number of successors tried>>
          post,      \* the blocks in postorder
          idom,      \* immediate dominator, NONE where none is known
          k,         \* position of the sweep
          changed,   \* the sweep changed something
          access,    \* the accesses of the ops
          live       \* the slots live before each op

graphVars == <<body, graph, phase, stack, post, idom, k, changed, access, live>>

NONE == 0

-----------------------------------------------------------------------------
(* The graph.  ops[p] is [op, t], t the set of branch targets.  A catch or *)
(* finally note covers start..land-1 and lands at land; the other kinds    *)
(* land nowhere.  A segment is [base, call, ret].                          *)

\* What an op does to control flow; one not named here falls through.
FlowKind(op) ==
    CASE op \in {"Goto", "Default"} -> "br"
      [] op \in {"JumpIfFalse", "JumpIfTrue", "And", "Or", "Coalesce", "Case"} -> "cond"
      [] op = "TableSwitch" -> "switch"
      [] op \in {"Return", "RetRval"} -> "ret"
      [] op \in {"Throw", "ThrowWithStack", "ThrowMsg", "ThrowSetConst"} -> "halt"
      [] OTHER -> "next"
FlowAt(p) == [f |-> FlowKind(body.ops[p].op), t |-> body.ops[p].t]

Pcs == 1..Len(body.ops)
Entry == 1

\* The segment a pc belongs to; 0 is the root.
Segment(p) ==
    IF p <= body.root THEN 0
    ELSE CHOOSE i \in 1..Len(body.segs) :
           /\ body.segs[i].base <= p
           /\ \A j \in 1..Len(body.segs) : body.segs[j].base <= p => body.segs[j].base <= body.segs[i].base

Leaders ==
    {Entry} \cup {body.segs[i].base : i \in 1..Len(body.segs)}
            \cup {body.segs[i].ret : i \in 1..Len(body.segs)}
            \cup {h.land : h \in body.handlers}
            \cup UNION {FlowAt(p).t : p \in Pcs}
            \cup {p + 1 : p \in {q \in Pcs : FlowAt(q).f # "next"}}

\* The pc a pc's block starts at.  No block spans two segments: each base is a leader.
CutBlocks == [p \in Pcs |-> CHOOSE b \in Leaders : b <= p /\ \A c \in Leaders : c <= p => c <= b]

Blocks == {graph.of[p] : p \in Pcs}
BlockOf(p) == IF p \in Pcs THEN {graph.of[p]} ELSE {}
Members(b) == {p \in Pcs : graph.of[p] = b}
Targets(T) == {graph.of[t] : t \in T \cap Pcs}

\* Where the last op p of a block goes, splices beside the generic fall-through.
FlowTargets(p) ==
    LET fl == FlowAt(p)
        s == Segment(p)
    IN (CASE fl.f = "next" -> {p + 1}
          [] fl.f \in {"br", "switch"} -> fl.t
          [] fl.f = "cond" -> fl.t \cup {p + 1}
          [] fl.f = "ret" -> IF s = 0 THEN {} ELSE {body.segs[s].ret}
          [] fl.f = "halt" -> {})
       \cup {body.segs[i].base : i \in {j \in 1..Len(body.segs) : body.segs[j].call = p}}

\* Mutant: a landing pad is reached from the op before it only.
BlockSuccsFallInto(of, b) ==
    LET last == CHOOSE p \in Pcs : of[p] = b /\ (p + 1 \in Pcs => of[p + 1] # b)
    IN {of[t] : t \in (FlowTargets(last) \cup ({h.land : h \in body.handlers} \cap {last + 1})) \cap Pcs}

\* A landing pad is a successor of the entry, whatever its note covers.
BlockSuccs(of, b) ==
    LET last == CHOOSE p \in Pcs : of[p] = b /\ (p + 1 \in Pcs => of[p + 1] # b)
    IN {of[t] : t \in FlowTargets(last) \cap Pcs}
       \cup (IF b = Entry THEN {of[h.land] : h \in body.handlers} \ {Entry} ELSE {})

BuildGraph ==
    LET of == CutBlocks
        bs == {of[p] : p \in Pcs}
        succ == [b \in bs |-> BlockSuccs(of, b)]
    IN [of |-> of, succ |-> succ, pred |-> [b \in bs |-> {c \in bs : b \in succ[c]}], loop |-> <<>>]

Succs(b) == graph.succ[b]
Preds(b) == graph.pred[b]

-----------------------------------------------------------------------------
(* Dominators: reverse postorder, then sweeps.                             *)

GraphInit ==
    /\ body \in Bodies
    /\ graph = BuildGraph
    /\ phase = "walk"
    /\ stack = <<<<Entry, 0>>>>
    /\ post = <<>>
    /\ idom = [b \in Blocks |-> IF b = Entry THEN Entry ELSE NONE]
    /\ k = 0 /\ changed = FALSE
    /\ access = <<>> /\ live = <<>>

Seen == {stack[i][1] : i \in 1..Len(stack)} \cup {post[i] : i \in 1..Len(post)}

Walk ==
    /\ phase = "walk" /\ stack # <<>>
    /\ LET b == stack[Len(stack)][1]
           i == stack[Len(stack)][2]
           ss == SetToSortSeq(Succs(b), LAMBDA x, y : x < y)
           next == ss[i + 1]
           advanced == [stack EXCEPT ![Len(stack)] = <<b, i + 1>>]
       IN IF i < Len(ss)
          THEN /\ stack' = IF next \in Seen THEN advanced ELSE Append(advanced, <<next, 0>>)
               /\ post' = post
          ELSE /\ stack' = Front(stack)
               /\ post' = Append(post, b)
    /\ UNCHANGED <<body, graph, phase, idom, k, changed, access, live>>

\* Mutant: the flag of the last sweep is kept.
CleanKept == changed
\* What a sweep starts with.
Clean == FALSE

Walked == /\ phase = "walk" /\ stack = <<>>
          /\ phase' = "idom" /\ k' = 2 /\ changed' = FALSE
          /\ UNCHANGED <<body, graph, stack, post, idom, access, live>>

Rpo == Reverse(post)
RpoNum(b) == CHOOSE i \in 1..Len(Rpo) : Rpo[i] = b

\* The blocks above b in the tree built so far, b included.
Chain(b) ==
    LET up[i \in 0..Len(Rpo)] == IF i = 0 THEN b ELSE idom[up[i-1]]
    IN {up[i] : i \in 0..Len(Rpo)}

\* The common ancestor of the predecessors that have one: both walk up.
NewIdom(b) ==
    LET ps == {p \in Preds(b) : idom[p] # NONE}
        common == {c \in Blocks : \A p \in ps : c \in Chain(p)}
    IN IF ps = {} THEN NONE
       ELSE CHOOSE c \in common : \A d \in common : RpoNum(d) <= RpoNum(c)

IdomVisit ==
    /\ phase = "idom" /\ k <= Len(Rpo)
    /\ LET b == Rpo[k]
           new == NewIdom(b)
       IN IF new # NONE /\ idom[b] # new
          THEN idom' = [idom EXCEPT ![b] = new] /\ changed' = TRUE
          ELSE UNCHANGED <<idom, changed>>
    /\ k' = k + 1
    /\ UNCHANGED <<body, graph, phase, stack, post, access, live>>

Again == changed

Reachable(b) == idom[b] # NONE
BlockDominates(a, b) == a \in Chain(b)

(* Natural loops.                                                          *)
Latches(h) == {b \in Preds(h) : Reachable(b) /\ BlockDominates(h, b)}

\* Everything that reaches a latch backwards without passing the header.
LoopBody(h) ==
    LET grow[i \in 0..Cardinality(Blocks)] ==
          IF i = 0 THEN Latches(h) \cup {h}
          ELSE grow[i-1] \cup UNION {Preds(b) : b \in grow[i-1] \ {h}}
    IN grow[Cardinality(Blocks)]

\* The end of a sweep: once more, or the loops are read off and liveness starts.
IdomSwept ==
    /\ phase = "idom" /\ k > Len(Rpo)
    /\ IF Again
       THEN k' = 2 /\ changed' = Clean /\ UNCHANGED <<phase, graph, access, live>>
       ELSE /\ phase' = "live" /\ k' = Len(body.ops) /\ changed' = Clean
            /\ graph' = [graph EXCEPT !.loop =
                           [h \in {b \in Blocks : Latches(b) # {}} |-> LoopBody(h)]]
            /\ access' \in Accesses
            /\ live' = [p \in Pcs |-> {}]
    /\ UNCHANGED <<body, stack, post, idom>>

Headers == DOMAIN graph.loop
LoopsAround(b) == {h \in Headers : b \in graph.loop[h]}
LoopDepth(b) == Cardinality(LoopsAround(b))
\* The deepest containing header, the first one found of equals.
LoopHdr(b) ==
    LET hs == LoopsAround(b)
    IN IF hs = {} THEN NONE
       ELSE CHOOSE h \in hs : \A g \in hs : LoopDepth(g) < LoopDepth(h) \/ (LoopDepth(g) = LoopDepth(h) /\ h <= g)

\* Whether the edge from pc src to pc dst leaves the innermost loop around src.
LeavesLoop(src, dst) ==
    LET h == LoopHdr(graph.of[src])
    IN h # NONE /\ BlockOf(dst) \cap graph.loop[h] = {}

-----------------------------------------------------------------------------
(* Liveness.  An access is [op, s]; a slot is [k, i], k in "local", "arg"  *)
(* and "gcell".                                                            *)

Slots == {a.s : a \in UNION {{acc[p] : p \in DOMAIN acc} : acc \in Accesses}}

Use(a) ==
    CASE a.op \in {"get", "check_lexical", "get_g_name"} -> {a.s}
      [] a.op \in {"arguments", "rest", "get_actual_arg", "arguments_length"} -> {s \in Slots : s.k = "arg"}
      [] a.op \in {"yield", "eval", "generator"} -> Slots
      [] OTHER -> {}
Def(a) == IF a.op \in {"set", "init_lexical"} THEN {a.s} ELSE {}

\* Successors by op; a splice is not part of the script.
OpSuccs(p) ==
    LET fl == FlowAt(p)
    IN (CASE fl.f = "next" -> {p + 1}
          [] fl.f \in {"br", "switch"} -> fl.t
          [] fl.f = "cond" -> fl.t \cup {p + 1}
          [] OTHER -> {}) \cap Pcs

\* Where a throw at p may land.
Landings(p) == {h.land : h \in {g \in body.handlers : g.start <= p /\ p < g.land}} \cap Pcs

\* Mutant: a covered op goes where it goes when nothing throws.
LiveSuccsNoThrow(p) == OpSuccs(p)

\* A landing pad is reachable from every op its note covers.
LiveSuccs(p) == OpSuccs(p) \cup Landings(p)

LiveIn(p) == Use(access[p]) \cup (UNION {live[q] : q \in LiveSuccs(p)} \ Def(access[p]))

LiveVisit ==
    /\ phase = "live" /\ k >= 1
    /\ live' = [live EXCEPT ![k] = LiveIn(k)]
    /\ changed' = (changed \/ live[k] # LiveIn(k))
    /\ k' = k - 1
    /\ UNCHANGED <<body, graph, phase, stack, post, idom, access>>

LiveSwept ==
    /\ phase = "live" /\ k = 0
    /\ IF Again THEN k' = Len(body.ops) /\ changed' = Clean /\ UNCHANGED phase
       ELSE phase' = "done" /\ UNCHANGED <<k, changed>>
    /\ UNCHANGED <<body, graph, stack, post, idom, access, live>>

\* Whether slot s may be read at or after p before it is written.
SlotLive(p, s) == p \notin Pcs \/ s \in live[p]

GraphStep == Walk \/ Walked \/ IdomVisit \/ IdomSwept \/ LiveVisit \/ LiveSwept
GraphDone == phase = "done" /\ UNCHANGED graphVars
GraphNext == GraphStep \/ GraphDone

\* The analyses run to completion when a body is built: nothing runs beside them.
GraphFairness == WF_graphVars(GraphStep)

-----------------------------------------------------------------------------

\* The blocks an execution reaches from the entry without entering block a.
Avoiding(S(_), a) ==
    LET grow[i \in 0..Cardinality(Blocks)] ==
          IF i = 0 THEN {Entry} \ {a}
          ELSE grow[i-1] \cup (UNION {S(b) : b \in grow[i-1]} \ {a})
    IN grow[Cardinality(Blocks)]

\* Control flow as it happens: a covered op of the block may throw.
ThrowSuccs(b) ==
    LET last == CHOOSE p \in Members(b) : p + 1 \notin Members(b)
    IN Targets(FlowTargets(last) \cup {h.land : h \in {g \in body.handlers :
                                         \E p \in Members(b) : g.start <= p /\ p < g.land}})

\* The tree answers the dominance question on the graph it is built over, and never
\* claims more than holds of execution, where a throw leaves any covered op: "more
\* edges means weaker dominance" (cfg.rs:33).
DominatorsHold ==
    phase = "live" /\ k = Len(body.ops) /\ ~changed =>
      \A a \in Blocks :
        LET over == Avoiding(Succs, a)
            run == Avoiding(ThrowSuccs, a)
        IN \A b \in {c \in Blocks : Reachable(c)} :
             /\ BlockDominates(a, b) <=> b \notin over
             /\ BlockDominates(a, b) => b \notin run

\* Loops nest: the loops around a reachable block form a chain under headers that
\* dominate it, LoopHdr names the smallest of them, and a branch from one of their
\* latches to the header is never taken for one that leaves the loop (cfg.rs:385).
LoopsNest ==
    phase = "done" =>
      \A b \in {c \in Blocks : Reachable(c)} :
        /\ \A g, h \in LoopsAround(b) : graph.loop[g] \subseteq graph.loop[h] \/ graph.loop[h] \subseteq graph.loop[g]
        /\ \A h \in LoopsAround(b) : BlockDominates(h, b) /\ graph.loop[LoopHdr(b)] \subseteq graph.loop[h]
        /\ \A c \in Succs(b) : LeavesLoop(b, c) => ~BlockDominates(c, b) \/ LoopDepth(c) < LoopDepth(b)

\* The ops reached from p over ops that do not write slot s, the last one included.
ReadsReach(p, s) ==
    LET grow[i \in 0..Len(body.ops)] ==
          IF i = 0 THEN {p}
          ELSE grow[i-1] \cup UNION {OpSuccs(q) \cup Landings(q) : q \in {r \in grow[i-1] : s \notin Def(access[r])}}
    IN grow[Len(body.ops)]

\* A slot is called live exactly where some execution reads it before writing it, a
\* throw from any covered op included: a dead raw carrier's frame store is skipped on
\* the strength of it, and one called live for nothing costs a box and a store.
LiveIsReadBeforeWrite ==
    phase = "done" =>
      \A p \in Pcs, s \in Slots :
        SlotLive(p, s) <=> \E q \in Pcs : /\ q \in ReadsReach(p, s)
                                          /\ s \in Use(access[q])

\* Both fixpoints are reached.
AnalysesEnd == phase = "walk" ~> phase = "done"

\* The tree and the loops the code generator works from are those of the graph.
GraphHolds == DominatorsHold /\ LoopsNest
=============================================================================
