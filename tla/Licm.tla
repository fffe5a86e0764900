-------------------------------- MODULE Licm --------------------------------
(***************************************************************************)
(* Loop-invariant code motion over the generated function                  *)
(* (compiler/src/wasm/bbv/licm.rs), with the effect classes of the runtime *)
(* helpers it rests on (compiler/src/wasm/effects.rs).                     *)
(*                                                                         *)
(* A function is [blk, def].  blk[b] is [params, insts, succ]: succ lists  *)
(* the targets [to, args] of the terminator.  def[v] is [op, args, tag]    *)
(* with op one of "param", "const", "add", "pure", "load", "store",        *)
(* "call", "hit"; tag is the recorded effect.  Blocks of the input are     *)
(* numbered in reverse postorder and block 1 is the entry.  The function   *)
(* is then run, one instruction at a time, over a memory that counts the   *)
(* writes to each kind of location, so that two reads agree exactly when   *)
(* no write that could matter lies between them.                           *)
(*                                                                         *)
(* The words of an inline cache's row are the exception: a word read ahead *)
(* of a call may differ from the one there after it, and it is the site    *)
(* that must notice.  The row is therefore kept as it is, with what each   *)
(* read of it saw; "hit" is the site's test of the shape word (its first   *)
(* operand) and its use of the slot word (its second).                     *)
(***************************************************************************)
EXTENDS Naturals, Sequences, FiniteSets, SequencesExt

CONSTANTS Emitted,   \* the functions as emitted
          Fuel,      \* bound: blocks a run enters
          RowShapes, \* shapes the receivers of a site have
          PurgeInRun \* TRUE: a call may collect the tenured heap, which empties the rows

VARIABLES orig,    \* the function as emitted
          ir,      \* the function as rewritten so far
          mode,    \* "check", "hoist", "run" or "refused"
          members, \* header -> blocks of its natural loop
          todo,    \* headers not yet processed
          at, idx, \* the run: current block and instruction
          env,     \* the values computed so far
          mem,     \* kind -> number of writes
          way,     \* the cache row: its shape word, and the shape its slot word is for
          seen,    \* value -> the row, as the load that computed it found it
          fuel

licmVars == <<orig, ir, mode, members, todo, at, idx, env, mem, way, seen, fuel>>

-----------------------------------------------------------------------------
(* The effect vocabulary and the helper table.                             *)

HeapKind == {"EngineTable", "FuseCell", "Shape", "ClassWord", "ElementsHeader", "Elements",
             "Slot", "StringData", "AllocCursor", "Fresh", "Unknown"}

Row(effect, quiet, user, writes) == [effect |-> effect, quiet |-> quiet, user |-> user, writes |-> writes]
Leaf(writes) == Row("Leaf", FALSE, FALSE, writes)
LeafUser(writes) == Row("Leaf", FALSE, TRUE, writes)
Other(effect, quiet) == Row(effect, quiet, FALSE, {"Unknown"})

\* The rows of the table, each for the helpers that share it: those that read or write
\* engine state without collecting, those that allocate, those that may run anything.
LeafRows ==
    [typeof |-> Other("Pure", FALSE),
     math_unary |-> Leaf({}), call_classify |-> Leaf({"EngineTable"}), binding_written |-> Leaf({"FuseCell"}),
     binding_value |-> Leaf({"FuseCell", "EngineTable"}),
     ta_set_poly |-> LeafUser({"Elements"}), more_iter |-> LeafUser({"Slot", "Elements"}),
     set_aliased |-> LeafUser({"Slot"}), bind_var |-> LeafUser({}),
     set_global |-> LeafUser({"Slot", "FuseCell", "EngineTable"})]
AllocRows == [new_object |-> Other("Alloc", TRUE), mutate_proto |-> Other("Alloc", FALSE)]
UnknownRows == [call |-> Other("Unknown", FALSE)]
HelperRows == LeafRows @@ AllocRows @@ UnknownRows

NoTag == [e |-> "none", ks |-> {}]
Read(kind) == [e |-> "read", ks |-> {kind}]
Write(kind) == [e |-> "write", ks |-> {kind}]

\* The effect recorded for a helper call.
NoteCallEff(row) ==
    CASE row.effect = "Pure" -> [e |-> "call_pure", ks |-> {}]
      [] row.effect = "Leaf" -> [e |-> "call_leaf", ks |-> row.writes]
      [] row.quiet -> [e |-> "call_gc_quiet", ks |-> {}]
      [] OTHER -> [e |-> "call_gc", ks |-> {}]

-----------------------------------------------------------------------------
(* Graph facts, over the function as emitted.                              *)

IRBlocks(f) == DOMAIN f.blk
EntryBlock == 1
SuccsOf(f, b) == {f.blk[b].succ[i].to : i \in 1..Len(f.blk[b].succ)}
PredsOf(f, b) == {a \in IRBlocks(f) : b \in SuccsOf(f, a)}

ReachAvoiding(f, a) ==
    LET grow[i \in 0..Cardinality(IRBlocks(f))] ==
          IF i = 0 THEN {EntryBlock} \ {a} ELSE grow[i-1] \cup (UNION {SuccsOf(f, b) : b \in grow[i-1]} \ {a})
    IN grow[Cardinality(IRBlocks(f))]
Dominates(f, a, b) == a = b \/ b \notin ReachAvoiding(f, a)

Retreating(f) == {e \in IRBlocks(f) \X IRBlocks(f) : e[2] \in SuccsOf(f, e[1]) /\ e[2] <= e[1]}

AssertReducible(f) == \A e \in Retreating(f) : Dominates(f, e[2], e[1])

LatchesOf(f, h) == {e[1] : e \in {r \in Retreating(f) : r[2] = h /\ Dominates(f, h, r[1])}}
LoopSet(f, h) ==
    LET grow[i \in 0..Cardinality(IRBlocks(f))] ==
          IF i = 0 THEN LatchesOf(f, h) \cup {h}
          ELSE grow[i-1] \cup UNION {PredsOf(f, b) : b \in grow[i-1] \ {h}}
    IN grow[Cardinality(IRBlocks(f))]

-----------------------------------------------------------------------------
(* Addresses: constant-offset adds followed to their root.                 *)

IsConst(f, v) == f.def[v].op = "const"
AddrRoot(f, a) ==
    LET step(v) == IF f.def[v].op # "add" THEN v
                   ELSE LET x == f.def[v].args[1]
                            y == f.def[v].args[2]
                        IN IF IsConst(f, x) THEN y ELSE IF IsConst(f, y) THEN x ELSE v
        up[i \in 0..Cardinality(DOMAIN f.def)] == IF i = 0 THEN a ELSE step(up[i-1])
    IN up[Cardinality(DOMAIN f.def)]
\* The frame roots are the entry block's params.
IsFrameAddr(f, a) == \E i \in 1..Len(orig.blk[EntryBlock].params) : AddrRoot(f, a) = orig.blk[EntryBlock].params[i]
ConstRootedAddr(f, a) == IsConst(f, AddrRoot(f, a))

\* The kinds an instruction may write, and whether it may collect garbage.
InstWrites(v) ==
    LET d == ir.def[v]
    IN CASE d.tag.e \in {"write", "call_leaf"} -> d.tag.ks
         [] d.tag.e = "call_gc_quiet" -> {"AllocCursor", "Fresh"}
         [] d.tag.e = "none" /\ d.op = "store" /\ ~IsFrameAddr(ir, d.args[1]) -> {"Unknown"}
         [] OTHER -> {}
InstGc(v) == \/ ir.def[v].tag.e \in {"call_gc", "call_gc_quiet"}
             \/ ir.def[v].tag.e = "none" /\ ir.def[v].op = "call"

Insts(f, S) == UNION {{f.blk[b].insts[i] : i \in 1..Len(f.blk[b].insts)} : b \in S}

\* Mutant: a write of unknown kind blocks only the untagged reads.
LicmKindOkKnown(kind, writes) == IF kind = "Unknown" THEN writes = {} ELSE kind \notin writes
LicmKindOk(kind, writes) ==
    /\ "Unknown" \notin writes
    /\ IF kind = "Unknown" THEN writes = {} ELSE kind \notin writes

\* Whether the loads of a loop with blocks S may leave it.
LoadOk(v, S) ==
    LET d == ir.def[v]
        writes == UNION {InstWrites(w) : w \in Insts(ir, S)}
        gc == \E w \in Insts(ir, S) : InstGc(w)
        leaf == \E w \in Insts(ir, S) : ir.def[w].tag.e = "call_leaf"
        addr == d.args[1]
    IN IF d.tag.e = "read"
       THEN \A kind \in d.tag.ks :
              /\ LicmKindOk(kind, writes)
              /\ gc => kind = "EngineTable" /\ ConstRootedAddr(ir, addr)
       ELSE ~gc /\ ~leaf /\ writes = {} /\ ~IsFrameAddr(ir, addr)

-----------------------------------------------------------------------------
(* The preheader.                                                          *)

Largest(S) == CHOOSE x \in S : \A y \in S : y <= x
EdgesTo(h, S) == UNION {{<<b, i>> : i \in {j \in DOMAIN ir.blk[b].succ : ir.blk[b].succ[j].to = h}} : b \in S}
OutsideEdges(h) == EdgesTo(h, IRBlocks(ir) \ members[h])
HeaderParams(h) == ir.blk[h].params
FreshParams(h) == [i \in 1..Len(HeaderParams(h)) |-> Largest(DOMAIN ir.def) + i]

\* One block on every outside edge: split off the only one, or shared.
WithPreheader(h, pre, params) ==
    [blk |-> [b \in IRBlocks(ir) \cup {pre} |->
                IF b = pre THEN [params |-> params, insts |-> <<>>, succ |-> <<[to |-> h, args |-> params]>>]
                ELSE [ir.blk[b] EXCEPT !.succ =
                       [i \in DOMAIN @ |-> IF <<b, i>> \in OutsideEdges(h) THEN [@[i] EXCEPT !.to = pre] ELSE @[i]]]],
     def |-> [v \in DOMAIN ir.def \cup {params[i] : i \in DOMAIN params} |->
                IF v \in DOMAIN ir.def THEN ir.def[v] ELSE [op |-> "param", args |-> <<>>, tag |-> NoTag]]]

\* The value each header param has on entry: the edge's argument when there is one edge.
EntryArgs(h, params) ==
    IF Cardinality(OutsideEdges(h)) = 1
    THEN LET e == CHOOSE x \in OutsideEdges(h) : TRUE IN ir.blk[e[1]].succ[e[2]].args
    ELSE params

LatchArgs(h, i) == {ir.blk[e[1]].succ[e[2]].args[i] : e \in EdgesTo(h, LatchesOf(orig, h))}

\* The params every latch passes back unchanged, or as an equal stable one.
StableParams(h, entry) ==
    LET hp == HeaderParams(h)
        grow[n \in 0..Len(hp)] ==
          IF n = 0 THEN {}
          ELSE {i \in DOMAIN hp : \A a \in LatchArgs(h, i) :
                  \/ a = hp[i] \/ a = entry[i]
                  \/ \E j \in grow[n-1] : a = hp[j] /\ entry[j] = entry[i]}
    IN grow[Len(hp)]

-----------------------------------------------------------------------------
(* Hoisting.                                                               *)

\* The blocks hoisted from: those of the emitted function that dominate every latch.
Candidates(h) ==
    SetToSortSeq({b \in members[h] \cap IRBlocks(orig) : \A l \in LatchesOf(orig, h) : Dominates(orig, b, l)},
                 LAMBDA x, y : x < y)

DefinedIn(f, S) == Insts(f, S) \cup UNION {{f.blk[b].params[i] : i \in DOMAIN f.blk[b].params} : b \in S}

\* The instructions that leave the loop, in order: an operand is defined outside, has
\* left already, or is a stable param.
Hoisted(h, stable) ==
    LET S == members[h]
        cand == FlattenSeq([i \in DOMAIN Candidates(h) |-> ir.blk[Candidates(h)[i]].insts])
        inside == DefinedIn(ir, S)
        params == {HeaderParams(h)[i] : i \in stable}
        out[n \in 0..Len(cand)] ==
          IF n = 0 THEN <<>>
          ELSE LET v == cand[n]
                   d == ir.def[v]
                   free == \A i \in DOMAIN d.args :
                             \/ d.args[i] \notin inside \/ d.args[i] \in params
                             \/ \E j \in DOMAIN out[n-1] : out[n-1][j] = d.args[i]
               IN IF free /\ (d.op \in {"const", "add", "pure"} \/ (d.op = "load" /\ LoadOk(v, S)))
                  THEN Append(out[n-1], v) ELSE out[n-1]
    IN out[Len(cand)]

\* A hoisted user of a stable param reads the preheader's.
Substituted(d, hp, params, stable) ==
    [d EXCEPT !.args = [i \in DOMAIN @ |->
       IF \E j \in stable : hp[j] = @[i] THEN params[CHOOSE j \in stable : hp[j] = @[i]] ELSE @[i]]]

Stay(insts, moved) == SelectSeq(insts, LAMBDA v : v \notin moved)

\* A preheader belongs to the loops, still to come, that hold its header.
Nested(h, pre) == [g \in DOMAIN members |-> IF g \in todo /\ g # h /\ h \in members[g] THEN members[g] \cup {pre} ELSE members[g]]

CheckReducible ==
    /\ mode = "check"
    /\ IF AssertReducible(orig)
       THEN LET hs == {e[2] : e \in Retreating(orig)}
            IN /\ mode' = "hoist" /\ todo' = hs
               /\ members' = [h \in hs |-> LoopSet(orig, h)]
       ELSE mode' = "refused" /\ UNCHANGED <<todo, members>>
    /\ UNCHANGED <<orig, ir, at, idx, env, mem, way, seen, fuel>>

\* One loop, smallest first.
LicmLoop ==
    /\ mode = "hoist"
    /\ \E h \in todo :
         /\ \A g \in todo : Cardinality(LoopSet(orig, h)) <= Cardinality(LoopSet(orig, g))
         /\ todo' = todo \ {h}
         /\ LET pre == Largest(IRBlocks(ir)) + 1
                params == FreshParams(h)
                stable == StableParams(h, EntryArgs(h, params))
                out == Hoisted(h, stable)
                moved == {out[i] : i \in DOMAIN out}
                g == WithPreheader(h, pre, params)
            IN IF OutsideEdges(h) = {} THEN UNCHANGED <<ir, members>>
               ELSE /\ ir' = [blk |-> [b \in IRBlocks(g) |->
                                IF b = pre THEN [g.blk[b] EXCEPT !.insts = out]
                                ELSE [g.blk[b] EXCEPT !.insts = Stay(@, moved)]],
                              def |-> [v \in DOMAIN g.def |->
                                IF v \in moved THEN Substituted(g.def[v], HeaderParams(h), params, stable) ELSE g.def[v]]]
                    /\ members' = Nested(h, pre)
    /\ UNCHANGED <<orig, mode, at, idx, env, mem, way, seen, fuel>>

-----------------------------------------------------------------------------
(* The run.  A value is a term <<what, operands, n>>.                      *)

Term(what, kids, n) == <<what, kids, n>>
Undefined == Term("undefined", <<>>, 0)
Count(S) == LET sum[T \in SUBSET S] == IF T = {} THEN 0 ELSE LET x == CHOOSE y \in T : TRUE IN mem[x] + sum[T \ {x}] IN sum[S]

\* What an instruction computes from its operands and the memory.  A tagged read sees
\* the writes to its kind; an untagged one those to all kinds, or to the frame.  A
\* collection moves what a computed address points at.  What a helper that may collect
\* does to the row at a constant address is in seen, not in the term.
Eval(f, v, args) ==
    LET d == f.def[v]
        kids == [i \in DOMAIN args |-> env[args[i]]]
    IN CASE d.op = "const" -> Term("const", <<>>, v)
         [] d.op \in {"add", "pure"} -> Term(d.op, kids, 0)
         [] d.op = "load" /\ d.tag.e = "read" ->
              Term("load", kids, Count(d.tag.ks) + (IF ConstRootedAddr(f, args[1]) THEN 0 ELSE mem["gc"]))
         [] d.op = "load" /\ IsFrameAddr(f, args[1]) -> Term("load", kids, mem["frame"])
         [] d.op = "load" -> Term("load", kids, Count(HeapKind) + mem["gc"])
         [] OTHER -> Term("effect", kids, Count(HeapKind))

Bump(S) == [x \in DOMAIN mem |-> IF x \in S THEN mem[x] + 1 ELSE mem[x]]

\* What it may do to the memory: what the helper's row allows, or anything.
MemAfter(f, v) ==
    LET d == f.def[v]
        heap == HeapKind \ {"EngineTable"}
    IN CASE d.op = "store" /\ d.tag.e = "write" -> {Bump(d.tag.ks)}
         [] d.op = "store" /\ IsFrameAddr(f, d.args[1]) -> {Bump({"frame"})}
         [] d.op = "store" -> {Bump(HeapKind)}
         [] d.op = "call" /\ d.tag.e = "call_leaf" -> {mem, Bump(d.tag.ks)}
         [] d.op = "call" /\ d.tag.e = "call_gc_quiet" -> {Bump({"AllocCursor", "Fresh"}), Bump(heap \cup {"gc", "frame"})}
         [] d.op = "call" /\ d.tag.e \in {"call_gc", "none"} -> {mem, Bump(heap \cup {"gc", "frame"})}
         [] OTHER -> {mem}

Empty == [tag |-> "empty", slot |-> "empty"]
HasRow(f) == \E v \in DOMAIN f.def : f.def[v].op = "hit"

\* The miss helper notes shape s: an empty way and the way of the shape are filled, a get
\* site with its ways full is left alone, a set site's way becomes the sentinel.
Noted(r, s) == IF r.tag \in {"empty", s} THEN {[tag |-> s, slot |-> s]} ELSE {r, [r EXCEPT !.tag = "poly"]}

\* NightPurgeMovableCaches
Purged(r) == IF PurgeInRun THEN {r, Empty} ELSE {r}

\* What a call may do to the row: the site's own miss helper runs under it, with or
\* without a collection before.  A function that tests no row has none.
RowAfter(f, v) ==
    LET d == f.def[v]
        quiet == Purged(way)
    IN CASE ~HasRow(f) -> {way}
         [] d.op = "call" /\ d.tag.e = "call_gc_quiet" -> quiet
         [] d.op = "call" /\ d.tag.e \in {"call_gc", "none"} -> quiet \cup UNION {Noted(r, s) : r \in quiet, s \in RowShapes}
         [] OTHER -> {way}

EnvAt(e, params, vals) == [v \in DOMAIN e |-> IF \E i \in DOMAIN params : params[i] = v
                                                THEN vals[CHOOSE i \in DOMAIN params : params[i] = v] ELSE e[v]]

Start ==
    /\ mode = "hoist" /\ todo = {}
    /\ mode' = "run" /\ at' = EntryBlock /\ idx' = 1
    /\ LET ps == ir.blk[EntryBlock].params
       IN env' = EnvAt([v \in DOMAIN ir.def |-> Undefined], ps, [i \in DOMAIN ps |-> Term("param", <<>>, i)])
    /\ seen' = [v \in DOMAIN ir.def |-> Empty]
    /\ UNCHANGED <<orig, ir, members, todo, mem, way, fuel>>

\* The instructions met in a block: as emitted, so that a hoisted one is met in its place.
Here == IF at \in IRBlocks(orig) THEN orig.blk[at].insts ELSE ir.blk[at].insts
Gone(v) == at \in IRBlocks(orig) /\ v \notin Insts(ir, {at})

Execute ==
    /\ mode = "run" /\ idx <= Len(Here)
    /\ LET v == Here[idx]
       IN IF Gone(v) THEN UNCHANGED <<env, mem, way, seen>>
          ELSE /\ env' = [env EXCEPT ![v] = Eval(ir, v, ir.def[v].args)]
               /\ mem' \in MemAfter(ir, v)
               /\ way' \in RowAfter(ir, v)
               /\ seen' = IF ir.def[v].op = "load" THEN [seen EXCEPT ![v] = way] ELSE seen
    /\ idx' = idx + 1
    /\ UNCHANGED <<orig, ir, mode, members, todo, at, fuel>>

Branch ==
    /\ mode = "run" /\ idx > Len(Here) /\ fuel > 0
    /\ \E i \in DOMAIN ir.blk[at].succ :
         LET t == ir.blk[at].succ[i]
         IN /\ at' = t.to /\ idx' = 1 /\ fuel' = fuel - 1
            /\ env' = EnvAt(env, ir.blk[t.to].params, [j \in DOMAIN t.args |-> env[t.args[j]]])
    /\ UNCHANGED <<orig, ir, mode, members, todo, mem, way, seen>>

LicmInit ==
    /\ orig \in Emitted /\ ir = orig
    /\ mode = "check" /\ members = <<>> /\ todo = {}
    /\ at = EntryBlock /\ idx = 1 /\ env = <<>> /\ seen = <<>> /\ fuel = Fuel
    /\ way \in {Empty} \cup {[tag |-> s, slot |-> s] : s \in IF HasRow(orig) THEN RowShapes ELSE {}}
    /\ mem = [x \in HeapKind \cup {"frame", "gc"} |-> 0]

LicmStep == CheckReducible \/ LicmLoop \/ Start \/ Execute \/ Branch
LicmDone == /\ \/ mode = "refused"
               \/ mode = "run" /\ idx > Len(Here) /\ (fuel = 0 \/ ir.blk[at].succ = <<>>)
            /\ UNCHANGED licmVars
LicmNext == LicmStep \/ LicmDone

-----------------------------------------------------------------------------

\* A header whose loop was processed is entered from outside through its preheader only:
\* no outside edge is left behind (licm.rs:275).
EntriesMoved ==
    mode \in {"hoist", "run"} =>
      \A h \in DOMAIN members \ todo :
        Cardinality({b \in IRBlocks(ir) \ members[h] : h \in SuccsOf(ir, b)}) <= 1

\* Wherever a hoisted instruction stood, computing it there would give what its
\* preheader computed: no write, collection or changed operand lies between.
HoistedAgrees ==
    mode = "run" /\ idx <= Len(Here) /\ Gone(Here[idx]) =>
      env[Here[idx]] = Eval(orig, Here[idx], orig.def[Here[idx]].args)

\* Nothing is computed from a value that is not there yet: a hoisted definition still
\* comes before its uses, those in enclosing preheaders included.
DefsReachUses ==
    mode = "run" /\ idx <= Len(Here) =>
      \A i \in DOMAIN ir.def[Here[idx]].args : env[ir.def[Here[idx]].args[i]] # Undefined

\* "A stale row read can only miss (re-resolve) or coincide with a still-valid mapping --
\* never yield a wrong value" (effects.rs:33): a site that finds its receiver's shape in
\* the shape word, wherever that was read, has a slot word for that shape.
StaleRowsMiss ==
    mode = "run" /\ idx <= Len(Here) /\ ir.def[Here[idx]].op = "hit" =>
      LET tested == seen[ir.def[Here[idx]].args[1]].tag
      IN tested \in RowShapes => seen[ir.def[Here[idx]].args[2]].slot = tested

\* The moved code computes what the code as emitted did: the hoisted value, from
\* operands that are there, on every way into the loop; and where a call may have
\* rewritten what was read ahead of it, the site's own test finds out.
MotionSound == HoistedAgrees /\ DefsReachUses /\ EntriesMoved /\ StaleRowsMiss
=============================================================================
