---------------------------- MODULE EffectSummary ----------------------------
(***************************************************************************)
(* Effect summaries (likelier/effects.rs): what a call of each script may  *)
(* write to the heap that existed before it, the callees the analysis      *)
(* resolved folded in.                                                     *)
(*                                                                         *)
(* Three phases: Walk classifies the ops of a script one by one, Resolve   *)
(* maps its writes to layout ranges and its call sites to the scripts it   *)
(* depends on, and Settle takes scripts off a stack and joins what they    *)
(* depend on until nothing changes.  A summary's writes are SEQUENCES and  *)
(* two summaries with the same writes in another order differ, so the      *)
(* order in which scripts are taken decides whether the phase ends.        *)
(***************************************************************************)
EXTENDS Integers, Sequences, FiniteSets, SequencesExt

CONSTANTS
    Programs,    \* the programs analysed: a sequence of scripts each
    RangeOf,     \* the planned range of each class, "none" if it has none
    FieldCap,    \* FIELD_CAP
    GnameCap     \* GNAME_CAP

ASSUME CapsAssumption == FieldCap \in Nat /\ GnameCap \in Nat

VARIABLES
    program,        \* the program
    phase,       \* "walk", "resolve" or "settle"
    next,        \* the script the walk or the resolution is at
    locals,      \* LocalEffects of each script
    deps,        \* the scripts each one folds in, in order
    sums,        \* the summaries
    queue         \* scripts to join again (a stack; each at most once)

effVars == <<program, phase, next, locals, deps, sums, queue>>

Sids == 1..Len(program)
NONE == "none"

(* A script: gen, thisRange (what this_layouts says), and ops.  An op:      *)
(*   [k |-> "prop", recv, name], [k |-> "gname", name]   a named write      *)
(*   [k |-> "elem"], [k |-> "env"], [k |-> "benign"], [k |-> "odd"]         *)
(*   [k |-> "call", site]                                a call or a New    *)
(*   [k |-> "get", targets]     a read of an accessor's name, its getters   *)
(* A site is what the analysis recorded there: scripted, native, apply and  *)
(* ctor answers, and whether it was lowered to an element builtin or to an  *)
(* allocation.                                                              *)
Clean == [top |-> FALSE, fields |-> <<>>, gnames |-> <<>>, elems |-> FALSE, env |-> FALSE]
NoEffects == [sum |-> Clean, writes |-> <<>>, calls |-> <<>>, accessors |-> <<>>]

saturate(sum) == [sum EXCEPT !.top = TRUE]

\* A named write: the name must be known, each (receiver, name) is kept
\* once, and one too many gives the summary up.
prop_write(out, op) ==
    LET w == <<op.recv, op.name>>
    IN IF op.name = NONE THEN [out EXCEPT !.sum = saturate(@)]
       ELSE IF Contains(out.writes, w) THEN out
       ELSE IF Len(out.writes) >= FieldCap THEN [out EXCEPT !.sum = saturate(@)]
       ELSE [out EXCEPT !.writes = Append(@, w)]

gname_write(out, op) ==
    IF op.name = NONE THEN [out EXCEPT !.sum = saturate(@)]
    ELSE IF Contains(out.sum.gnames, op.name) THEN out
    ELSE IF Len(out.sum.gnames) >= GnameCap THEN [out EXCEPT !.sum = saturate(@)]
    ELSE [out EXCEPT !.sum.gnames = Append(@, op.name)]

before_op(out, op) ==
    CASE out.sum.top -> out
      [] op.k = "prop" -> prop_write(out, op)
      [] op.k = "gname" -> gname_write(out, op)
      [] op.k = "elem" -> [out EXCEPT !.sum.elems = TRUE]
      [] op.k = "env" -> [out EXCEPT !.sum.env = TRUE]
      [] op.k = "call" -> [out EXCEPT !.calls = Append(@, op.site)]
      [] op.k = "get" -> [out EXCEPT !.accessors = Append(@, op.targets)]
      [] op.k = "benign" -> out
      [] op.k = "odd" -> [out EXCEPT !.sum = saturate(@)]

EffectWalk(script) ==
    IF script.gen THEN [NoEffects EXCEPT !.sum = saturate(@)]
    ELSE FoldLeft(before_op, NoEffects, script.ops)

--------------------------------------------------------------------------
(* Resolution.  acc is [sum, deps].                                         *)
AddDep(acc, s) == IF Contains(acc.deps, s) THEN acc ELSE [acc EXCEPT !.deps = Append(@, s)]

native_summary(sum, effect) ==
    CASE effect = "Pure" -> sum
      [] effect = "Elems" -> [sum EXCEPT !.elems = TRUE]
      [] effect = "Top" -> saturate(sum)

\* A callable is a script, a native by its effect, a constructor that only
\* allocates, or one the analysis knows nothing of.
fold_fn(acc, f) ==
    CASE f.k = "script" -> AddDep(acc, f.s)
      [] f.k = "alloc" -> acc
      [] f.k \in {"Pure", "Elems", "Top"} -> [acc EXCEPT !.sum = native_summary(@, f.k)]
      [] OTHER -> [acc EXCEPT !.sum = saturate(@)]

Fn(k, s) == [k |-> k, s |-> s]
Multi == <<Fn("multi", 0)>>        \* a set that outgrew its cap
Missing == <<Fn("missing", 0)>>    \* no answer recorded; <<>> is an empty one
Answers(fns) == fns \notin {<<>>, Missing}

Refuse(acc) == [acc EXCEPT !.sum = saturate(@)]
fold_site(acc0, site) ==
    LET acc == IF site.elem THEN [acc0 EXCEPT !.sum.elems = TRUE] ELSE acc0
        FoldAll(fns) == FoldLeft(fold_fn, acc, fns)
    IN CASE acc0.sum.top -> acc0
         [] Answers(site.scripted) -> IF site.scripted = Multi THEN Refuse(acc) ELSE FoldAll(site.scripted)
         [] Answers(site.native) -> FoldAll(site.native)
         [] site.apply # Missing -> IF site.apply \in {Multi, <<>>} THEN Refuse(acc) ELSE FoldAll(site.apply)
         [] Answers(site.ctor) -> FoldAll(site.ctor)
         [] site.elem \/ site.alloc -> acc
         [] OTHER -> Refuse(acc)

fold_accessor(acc, targets) ==
    IF acc.sum.top THEN acc
    ELSE IF targets = <<>> THEN Refuse(acc)
    ELSE FoldLeft(AddDep, acc, targets)

\* A class's writes go to its planned range, those through `this` to the
\* range the script's own `this` was planned into.
MapWrite(s, w) == <<IF w[1] = "this" THEN program[s].thisRange ELSE RangeOf[w[1]], w[2]>>

Resolved(s) ==
    LET l == locals[s]
        mapped == [l.sum EXCEPT !.fields = [i \in 1..Len(l.writes) |-> MapWrite(s, l.writes[i])]]
        sites == FoldLeft(fold_site, [sum |-> mapped, deps |-> <<>>], l.calls)
    IN FoldLeft(fold_accessor, sites, l.accessors)

--------------------------------------------------------------------------
(* The fixpoint.                                                            *)
JoinList(cap, d, xs) ==   \* d = <<seq, overflowed>>
    FoldLeft(LAMBDA a, x: IF a[2] \/ Contains(a[1], x) THEN a
                          ELSE IF Len(a[1]) >= cap THEN <<a[1], TRUE>>
                          ELSE <<Append(a[1], x), FALSE>>, d, xs)

join_into(dst, src) ==
    LET f == JoinList(FieldCap, <<dst.fields, FALSE>>, src.fields)
        g == JoinList(GnameCap, <<dst.gnames, FALSE>>, src.gnames)
    IN IF src.top THEN saturate(dst)
       ELSE IF f[2] THEN saturate([dst EXCEPT !.fields = f[1]])
       ELSE IF g[2] THEN saturate([dst EXCEPT !.fields = f[1], !.gnames = g[1]])
       ELSE [dst EXCEPT !.fields = f[1], !.gnames = g[1],
                        !.elems = @ \/ src.elems, !.env = @ \/ src.env]

Joined(s) == FoldLeft(LAMBDA a, d: IF a.top THEN a ELSE join_into(a, sums[d]), locals[s].sum, deps[s])

Callers(s) == SelectSeq([i \in 1..Len(program) |-> i], LAMBDA c: Contains(deps[c], s))

\* queue.pop(): the last script queued is the next one joined.
TakenFirst(stack) == stack[1]
Taken(stack) == stack[Len(stack)]

\* The callers to join again: those not waiting already, pushed in order.
RequeueForgotten(rest, s, changed) ==
    IF changed THEN rest \o SelectSeq(Callers(s), LAMBDA c: c < s /\ ~Contains(rest, c)) ELSE rest
Requeue(rest, s, changed) ==
    IF changed THEN rest \o SelectSeq(Callers(s), LAMBDA c: ~Contains(rest, c)) ELSE rest

--------------------------------------------------------------------------
EffInit ==
    /\ program \in Programs
    /\ phase = "walk" /\ next = 1 /\ queue = <<>>
    /\ locals = [s \in 1..Len(program) |-> NoEffects]
    /\ deps = [s \in 1..Len(program) |-> <<>>]
    /\ sums = [s \in 1..Len(program) |-> Clean]

Advance(to) == IF next = Len(program) THEN phase' = to /\ next' = 1 ELSE phase' = phase /\ next' = next + 1

Walk ==
    /\ phase = "walk"
    /\ locals' = [locals EXCEPT ![next] = EffectWalk(program[next])]
    /\ Advance("resolve")
    /\ UNCHANGED <<program, deps, sums, queue>>

Resolve ==
    /\ phase = "resolve"
    /\ \E r \in {Resolved(next)} :
        /\ locals' = [locals EXCEPT ![next].sum = r.sum]
        /\ deps' = [deps EXCEPT ![next] = r.deps]
        /\ sums' = [sums EXCEPT ![next] = r.sum]
    /\ Advance("settle")
    /\ queue' = IF phase' = "settle" THEN [i \in 1..Len(program) |-> i] ELSE queue
    /\ UNCHANGED program

Settle ==
    /\ phase = "settle" /\ queue # <<>>
    /\ \E s \in {Taken(queue)}, j \in {Joined(Taken(queue))} :
        /\ sums' = [sums EXCEPT ![s] = j]
        /\ queue' = Requeue(SelectSeq(queue, LAMBDA c: c # s), s, j # sums[s])
    /\ UNCHANGED <<program, phase, next, locals, deps>>

EffNext == Walk \/ Resolve \/ Settle
EffFairness == WF_effVars(EffNext)

--------------------------------------------------------------------------
(* What the summaries mean, read off the program itself.                    *)
OpsOf(s) == ToSet(program[s].ops)
Sites(s) == {o.site : o \in {p \in OpsOf(s) : p.k = "call"}}
SiteFns(site) ==
    LET answers == SelectSeq(<<site.scripted, site.native, site.apply, site.ctor>>, Answers)
    IN IF answers = <<>> \/ (~Answers(site.scripted) /\ ~Answers(site.native) /\ site.apply = <<>>) THEN {}
       ELSE ToSet(answers[1])
Edges(s) == {f.s : f \in {g \in UNION {SiteFns(c) : c \in Sites(s)} : g.k = "script"}}
            \cup UNION {ToSet(o.targets) : o \in {p \in OpsOf(s) : p.k = "get"}}
RECURSIVE Reach(_)
Reach(ss) == LET more == ss \cup UNION {Edges(s) : s \in ss} IN IF more = ss THEN ss ELSE Reach(more)

RawWrites(s) == {<<o.recv, o.name>> : o \in {p \in OpsOf(s) : p.k = "prop"}}
Gnames(s) == {o.name : o \in {p \in OpsOf(s) : p.k = "gname"}}
WritesElems(s) == \/ \E o \in OpsOf(s) : o.k = "elem"
                  \/ \E c \in Sites(s) : c.elem \/ \E f \in SiteFns(c) : f.k = "Elems"
Opaque(s) ==
    \/ program[s].gen
    \/ \E o \in OpsOf(s) : \/ o.k = "odd"
                           \/ o.k \in {"prop", "gname"} /\ o.name = NONE
                           \/ o.k = "get" /\ o.targets = <<>>
    \/ \E c \in Sites(s) : \/ \E f \in SiteFns(c) : f.k \in {"multi", "Top", "odd"}
                           \/ SiteFns(c) = {} /\ (c.apply = <<>> \/ (~c.elem /\ ~c.alloc))

EffDone == phase = "settle" /\ queue = <<>>

\* At the end a summary that is not given up names every write of every
\* script reachable along the resolved calls and getters, and no other; it
\* is given up exactly when one of them cannot be classified or the writes
\* outgrow a cap (emit_effect_summaries, join_into).
SummariesExact ==
    EffDone =>
    \A s \in Sids :
        LET r == Reach({s})
            sum == sums[s]
            all == UNION {RawWrites(x) : x \in r}
            gnames == UNION {Gnames(x) : x \in r}
        IN IF sum.top
           THEN \/ \E x \in r : Opaque(x)
                \/ Cardinality({<<x, w>> \in r \X all : w \in RawWrites(x)}) > FieldCap
                \/ Cardinality(gnames) > GnameCap
           ELSE /\ \A x \in r : ~Opaque(x)
                /\ ToSet(sum.fields) = UNION {{MapWrite(x, w) : w \in RawWrites(x)} : x \in r}
                /\ ToSet(sum.gnames) = gnames
                /\ sum.elems = \E x \in r : WritesElems(x)
                /\ sum.env = \E x \in r : \E o \in OpsOf(x) : o.k = "env"

\* The analysis ends: the joins settle although equality looks at the order
\* of the writes and recursive scripts hand each other's orders around.
SummariesSettle == <>EffDone
=============================================================================
