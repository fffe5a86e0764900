-------------------------- MODULE CallDispatchProofs --------------------------
(***************************************************************************)
(* Proofs about CallDispatch: a compiled call, forward or `new` does what  *)
(* the engine's own would, for every heap, every set of scripts and sites  *)
(* and every sequence of allocations, stores, dispatches and collections.  *)
(*                                                                         *)
(* The argument.  The words a site keeps are raw, so what they mean rests  *)
(* on who may move or free an object.  A callee cell only ever learns a    *)
(* tenured callee: a minor collection leaves that one where it is, a major *)
(* one empties the cell, so a word that is an address is the address of a  *)
(* live function whose script is the one beside it.  A construct cell of   *)
(* the current generation holds a live tenured prototype at its own        *)
(* pointer; the helper that fills it reads the callee by bits that a       *)
(* collection may have left behind, but another object is found there only *)
(* after a compaction, which ends the generation.  Since no two live       *)
(* objects share an address, equal words are the same object, and since    *)
(* compiled scripts have indices of their own, equal indices are the same  *)
(* body.                                                                   *)
(***************************************************************************)
EXTENDS CallDispatch, FiniteSetTheorems, TLAPS

Addrs == NurseryAddrs \cup TenuredAddrs

\* Where the objects are: every live one at an address of its own, the
\* builtins and whatever serves as a prototype tenured, prototypes alive.
HeapOK ==
    /\ at \in [Ids -> Addrs \cup {0}]
    /\ \A i, j \in Ids : at[i] # 0 /\ at[i] = at[j] => i = j
    /\ \A r \in Roots : at[r] \in TenuredAddrs
    /\ \A i \in Ids : Kind[i] = "plain" => at[i] \in TenuredAddrs \cup {0}
ProtosOK ==
    /\ proto \in [Ids -> Ids \cup {"prim", "lazy"}]
    /\ \A i \in Ids : Kind[i] # "normal" => proto[i] = "lazy"
    /\ \A i \in Ids : at[i] # 0 /\ proto[i] \in Ids => at[proto[i]] # 0 /\ Kind[proto[i]] = "plain"
BuiltinsOK == builtin = [b \in Builtins |-> at[b]]

\* What the words of a callee cell mean.
Learned(c, v) ==
    /\ v \in Ids /\ Kind[v] \in {"normal", "arrow"}
    /\ at[v] \in TenuredAddrs /\ at[v] = c.bits
    /\ c.script = ScriptOf[v] /\ c.idx = Idx(ScriptOf[v])
    /\ c = [bits |-> c.bits, idx |-> c.idx, script |-> c.script]
CellMeans(c) ==
    \/ c = EmptyCell
    \/ c.bits = 1 /\ c = [bits |-> c.bits, idx |-> c.idx, script |-> c.script]
    \/ \E v \in Ids : Learned(c, v)
CellOK == CellMeans(cell)

\* What those of a construct cell mean while its generation is the current.
CcellMeans(c, g) ==
    /\ c.gen \in Nat /\ c.gen <= g
    /\ c.shape # NoScript /\ c.gen = g =>
           c.shape \in Ids /\ at[c.shape] \in TenuredAddrs /\ at[c.shape] = c.protoPtr
CcellOK == igen \in Nat /\ CcellMeans(ccell, igen)

\* The helper about to fill it has its callee and the prototype rooted.  While the cell's generation
\* is the current one, nothing but the callee is at the bits it read.
MakingOK ==
    making # NotMaking =>
        /\ making.callee \in Ids /\ Kind[making.callee] = "normal" /\ at[making.callee] # 0
        /\ proto[making.callee] # "lazy"
        /\ making.proto \in Ids /\ Kind[making.proto] = "plain" /\ at[making.proto] # 0
        /\ ccell.gen = igen => \/ at[making.callee] = making.bits
                               \/ making.bits \in NurseryAddrs /\ \A i \in Ids : at[i] # making.bits

DispInv ==
    /\ site \in Sites
    /\ HeapOK /\ ProtosOK /\ BuiltinsOK
    /\ CellOK /\ CcellOK /\ MakingOK
    /\ wrong = {}

--------------------------------------------------------------------------
(* Facts about addresses.                                                   *)

\* An address has one place in a set of addresses.
LEMMA NthOnce ==
    ASSUME NEW A, NEW m, NEW n, NEW a, a \in Nth(A, m), a \in Nth(A, n)
    PROVE  m = n /\ a \in A
BY DEF Nth

\* Every address is a word.
LEMMA AtType ==
    ASSUME HeapOK
    PROVE  at \in [Ids -> Nat] /\ at \in [Ids -> Addrs \cup {0}]
<1>1. at \in [Ids -> Addrs \cup {0}]
    BY DEF HeapOK
<1>2. Addrs \cup {0} \subseteq Nat
    BY AddressAssumption DEF Addrs
<1> QED
    BY <1>1, <1>2

\* A live object is at an address, which is neither 0 nor 1.
LEMMA LiveAt ==
    ASSUME HeapOK, NEW i \in Ids, at[i] # 0
    PROVE  at[i] \in Addrs /\ at[i] # 1 /\ at[i] \in Nat
BY AddressAssumption DEF HeapOK, Addrs

\* Of two live objects of a set, the one further down ranks lower.
LEMMA RankLess ==
    ASSUME HeapOK, NEW S \in SUBSET Ids, NEW i \in S, NEW j \in S, at[i] < at[j],
           at[i] # 0, at[j] # 0
    PROVE  Rank(S, i) # Rank(S, j)
<1> DEFINE Ri == {k \in S : at[k] <= at[i]}
           Rj == {k \in S : at[k] <= at[j]}
<1>1. at \in [Ids -> Nat]
    BY AtType
<1>2. Ri \subseteq Rj
    BY <1>1
<1>3. j \in Rj /\ j \notin Ri
    BY <1>1
<1>4. IsFiniteSet(Rj)
  <2>1. IsFiniteSet(Ids) /\ Rj \in SUBSET Ids
    BY DispatchAssumption
  <2> QED
    BY <2>1, FS_Subset
<1>6. Cardinality(Ri) \in Nat /\ Cardinality(Rj) \in Nat
  <2> HIDE DEF Ri, Rj
  <2>1. Ri \in SUBSET Rj
    BY <1>2
  <2> QED
    BY <2>1, <1>4, FS_Subset, FS_CardinalityType
<1>5. Cardinality(Ri) < Cardinality(Rj)
  <2> HIDE DEF Ri, Rj
  <2>1. Ri \in SUBSET Rj /\ Ri # Rj
    BY <1>2, <1>3
  <2>2. Cardinality(Ri) <= Cardinality(Rj) /\ (Cardinality(Ri) = Cardinality(Rj) => Ri = Rj)
    BY <2>1, <1>4, FS_Subset
  <2> QED
    BY <2>1, <2>2, <1>6
<1> QED
    BY <1>5, <1>6 DEF Rank

\* What slides gets free addresses, no two the same; the others are where
\* rest says.
Slid(S, free, rest) ==
    /\ at' = [i \in Ids |-> at'[i]]
    /\ \A i \in S : at'[i] \in free
    /\ \A i \in Ids \ S : at'[i] = rest[i]
    /\ \A i, j \in S : at'[i] = at'[j] => i = j

\* Sliding keeps the order, so it keeps objects apart.
LEMMA SlideApart ==
    ASSUME HeapOK, NEW S \in SUBSET Ids, \A i \in S : at[i] # 0,
           NEW free, NEW rest, Slide(S, free, rest)
    PROVE  Slid(S, free, rest)
<1> DEFINE New(i) == CHOOSE a \in Nth(free, Rank(S, i)) : TRUE
<1>1. at' = [i \in Ids |-> IF i \in S THEN New(i) ELSE rest[i]]
    BY DEF Slide
<1>2. ASSUME NEW i \in S PROVE New(i) \in Nth(free, Rank(S, i))
    BY DEF Slide
<1> HIDE DEF New
<1>3. ASSUME NEW i \in S PROVE at'[i] \in Nth(free, Rank(S, i))
    BY <1>1, <1>2
<1>4. ASSUME NEW i \in S, NEW j \in S, at'[i] = at'[j] PROVE i = j
  <2>1. Rank(S, i) = Rank(S, j)
    BY <1>3, <1>4, NthOnce
  <2>2. ~(at[i] < at[j]) /\ ~(at[j] < at[i])
    BY <2>1, RankLess
  <2>3. at[i] \in Nat /\ at[j] \in Nat
    BY AtType
  <2>4. at[i] = at[j]
    BY <2>2, <2>3
  <2> QED
    BY <2>4 DEF HeapOK
<1>5. ASSUME NEW i \in S PROVE at'[i] \in free
    BY <1>3 DEF Nth
<1> QED
    BY <1>1, <1>4, <1>5 DEF Slid

\* What lives on lives now, and its prototypes with it.
LEMMA SurvivorsLive ==
    ASSUME NEW S \in Survivors
    PROVE  /\ S \in SUBSET Ids /\ \A i \in S : at[i] # 0
           /\ Roots \subseteq S /\ Held \subseteq S
           /\ \A i \in S : proto[i] \in Ids => proto[i] \in S
BY DEF Survivors, Live

\* Tenuring leaves every tenured survivor in its place, tenures the young
\* ones and frees the rest.
LEMMA TenureKeeps ==
    ASSUME HeapOK, NEW S \in Survivors, Tenure(S)
    PROVE  /\ HeapOK'
           /\ \A i \in Ids : at'[i] # 0 <=> i \in S
           /\ \A i \in S : at[i] \in TenuredAddrs => at'[i] = at[i]
           /\ \A i \in Ids : at'[i] \in TenuredAddrs \cup {0}
<1> DEFINE Y == {i \in S : Young(i)}
           Free == FreeIn(TenuredAddrs)
           Rest == [i \in Ids |-> IF i \in S THEN at[i] ELSE 0]
<1>1. S \in SUBSET Ids /\ (\A i \in S : at[i] # 0) /\ Roots \subseteq S
    BY SurvivorsLive
<1>2. Y \in SUBSET Ids /\ \A i \in Y : at[i] # 0
    BY <1>1
<1>3. Slide(Y, Free, Rest)
    BY DEF Tenure
<1>a. Y \subseteq S /\ \A i \in S : i \in Y <=> at[i] \in NurseryAddrs
    BY DEF Young
<1>b. Free \subseteq TenuredAddrs /\ \A i \in Ids : at[i] \notin Free
    BY DEF FreeIn
<1>c. \A i \in Ids : Rest[i] = IF i \in S THEN at[i] ELSE 0
    OBVIOUS
<1> HIDE DEF Y, Free, Rest
<1>4. Slid(Y, Free, Rest)
    BY <1>2, <1>3, SlideApart
<1>5. \A i \in Y : at'[i] \in Free
    BY <1>4 DEF Slid
<1>6. \A i \in S \ Y : at'[i] = at[i] /\ at[i] \in TenuredAddrs
  <2> SUFFICES ASSUME NEW i \in S \ Y PROVE at'[i] = at[i] /\ at[i] \in TenuredAddrs
    OBVIOUS
  <2>1. at'[i] = at[i]
    BY <1>1, <1>4, <1>c DEF Slid
  <2>2. at[i] \in Addrs
    BY <1>1, LiveAt
  <2> QED
    BY <2>1, <2>2, <1>a DEF Addrs
<1>7. \A i \in Ids \ S : at'[i] = 0
    BY <1>4, <1>a, <1>c DEF Slid
<1>8. \A i \in S : at'[i] \in TenuredAddrs
    BY <1>5, <1>6, <1>b
<1>9. 0 \notin TenuredAddrs
    BY AddressAssumption
<1>10. at' \in [Ids -> Addrs \cup {0}]
  <2>1. \A i \in Ids : at'[i] \in Addrs \cup {0}
    BY <1>7, <1>8 DEF Addrs
  <2> QED
    BY <2>1, <1>4 DEF Slid
<1>11. ASSUME NEW i \in Ids, NEW j \in Ids, at'[i] # 0, at'[i] = at'[j] PROVE i = j
  <2>1. i \in S /\ j \in S
    BY <1>7, <1>11
  <2>2. CASE i \in Y /\ j \in Y
    BY <2>2, <1>4, <1>11 DEF Slid
  <2>3. CASE i \in Y /\ j \notin Y
    BY <2>1, <2>3, <1>5, <1>6, <1>b, <1>11
  <2>4. CASE i \notin Y /\ j \in Y
    BY <2>1, <2>4, <1>5, <1>6, <1>b, <1>11
  <2>5. CASE i \notin Y /\ j \notin Y
    BY <2>1, <2>5, <1>1, <1>6, <1>11 DEF HeapOK
  <2> QED
    BY <2>2, <2>3, <2>4, <2>5
<1>12. (\A r \in Roots : at'[r] \in TenuredAddrs)
       /\ \A i \in Ids : at'[i] \in TenuredAddrs \cup {0}
    BY <1>1, <1>7, <1>8
<1>13. HeapOK'
    BY <1>10, <1>11, <1>12 DEF HeapOK
<1>14. \A i \in S : at[i] \in TenuredAddrs => at'[i] = at[i]
    BY <1>6, <1>a, AddressAssumption
<1> QED
    BY <1>7, <1>8, <1>9, <1>12, <1>13, <1>14

\* So does a compaction, but for the places.
LEMMA CompactKeeps ==
    ASSUME HeapOK, NEW S \in Survivors, Slide(S, TenuredAddrs \ {at[FunApply]}, Buried)
    PROVE  /\ HeapOK'
           /\ \A i \in Ids : at'[i] # 0 <=> i \in S
<1> DEFINE Free == TenuredAddrs \ {at[FunApply]}
<1>1. S \in SUBSET Ids /\ (\A i \in S : at[i] # 0) /\ Roots \subseteq S
    BY SurvivorsLive
<1>2. Free \subseteq TenuredAddrs
    OBVIOUS
<1>3. \A i \in Ids : Buried[i] = 0
    BY DEF Buried
<1> HIDE DEF Free
<1>4. Slid(S, Free, Buried)
    BY <1>1, SlideApart DEF Free
<1>5. (\A i \in S : at'[i] \in TenuredAddrs) /\ (\A i \in Ids \ S : at'[i] = 0)
    BY <1>2, <1>3, <1>4 DEF Slid
<1>6. 0 \notin TenuredAddrs
    BY AddressAssumption
<1>7. at' \in [Ids -> Addrs \cup {0}]
  <2>1. \A i \in Ids : at'[i] \in Addrs \cup {0}
    BY <1>5 DEF Addrs
  <2> QED
    BY <2>1, <1>4 DEF Slid
<1>8. ASSUME NEW i \in Ids, NEW j \in Ids, at'[i] # 0, at'[i] = at'[j] PROVE i = j
    BY <1>4, <1>5, <1>8 DEF Slid
<1>9. (\A r \in Roots : at'[r] \in TenuredAddrs)
      /\ \A i \in Ids : at'[i] \in TenuredAddrs \cup {0}
    BY <1>1, <1>5
<1>10. HeapOK'
    BY <1>7, <1>8, <1>9 DEF HeapOK
<1> QED
    BY <1>5, <1>6, <1>10

--------------------------------------------------------------------------
(* What the words say.                                                      *)

\* The marks are no objects, and the objects among the callees are live.
LEMMA CalleeKinds ==
    ASSUME DispInv, "min" \notin Numbers, NEW v \in Callees
    PROVE  \/ (v \in Ids /\ at[v] # 0 /\ Bits(v) = at[v])
           \/ (v = "zero" /\ v \notin Ids /\ Bits(v) = 0)
<1>1. v \in Numbers \/ (v \in Ids /\ at[v] # 0)
    BY DEF Callees, Live
<1>2. CASE v \in Numbers
    BY <1>2, DispatchAssumption DEF Bits
<1>3. CASE v \in Ids /\ at[v] # 0
    BY <1>3, DispatchAssumption DEF Bits
<1> QED
    BY <1>1, <1>2, <1>3

\* Equal words are the same object.
LEMMA SameBits ==
    ASSUME DispInv, "min" \notin Numbers, NEW v \in Callees, NEW b \in Builtins, Bits(v) = builtin[b]
    PROVE  v = b
<1>1. b \in Ids /\ at[b] # 0 /\ builtin[b] = at[b]
    BY DispatchAssumption, AddressAssumption DEF DispInv, HeapOK, BuiltinsOK, Roots
<1>2. v \in Ids /\ at[v] = at[b]
    BY <1>1, CalleeKinds
<1> QED
    BY <1>1, <1>2 DEF DispInv, HeapOK

\* What a classify may say of a callee: nothing, or that it is a function
\* with a [[Call]] and which script it runs.
Told(k, v) ==
    \/ k.idx = 0
    \/ /\ v \in Ids /\ Kind[v] \in {"normal", "arrow"}
       /\ k.idx = Idx(ScriptOf[v]) /\ k.script = ScriptOf[v]

\* The helper tells the truth, and leaves a cell that does.
LEMMA HelperTells ==
    ASSUME DispInv, "min" \notin Numbers, NEW v \in Callees
    PROVE  Told(call_classify(cell, v), v) /\ CellMeans(call_classify(cell, v).cell)
<1>1. CellMeans(cell)
    BY DEF DispInv, CellOK
<1>2. CASE v \notin Ids \/ Kind[v] \in {"plain", "class"}
  <2>1. call_classify(cell, v) = NotDispatchable(cell)
    BY <1>2 DEF call_classify
  <2> QED
    BY <2>1, <1>1 DEF NotDispatchable, Told
<1>3. CASE v \in Ids /\ Kind[v] = "native"
  <2>1. call_classify(cell, v) = [NotDispatchable(cell) EXCEPT !.native = TRUE]
    BY <1>3 DEF call_classify
  <2> QED
    BY <2>1, <1>1 DEF NotDispatchable, Told
<1>4. CASE v \in Ids /\ Kind[v] \in {"normal", "arrow"}
  <2>1. call_classify(cell, v) = [idx |-> Idx(ScriptOf[v]), script |-> ScriptOf[v], native |-> FALSE,
                                  cell |-> FillCell(cell, v, ScriptOf[v])]
    BY <1>4 DEF call_classify
  <2>2. Told(call_classify(cell, v), v)
    BY <2>1, <1>4 DEF Told
  <2>3. call_classify(cell, v).cell = FillCell(cell, v, ScriptOf[v])
    BY <2>1
  <2>4. CellMeans(FillCell(cell, v, ScriptOf[v]))
    <3>1. CASE cell.bits # 0
      <4>1. FillCell(cell, v, ScriptOf[v]) = [cell EXCEPT !.bits = 1]
        BY <3>1 DEF FillCell
      <4>2. cell = [bits |-> cell.bits, idx |-> cell.idx, script |-> cell.script]
        BY <1>1, <3>1 DEF CellMeans, Learned, EmptyCell
      <4>3. FillCell(cell, v, ScriptOf[v]) = [bits |-> 1, idx |-> cell.idx, script |-> cell.script]
        BY <4>1, <4>2
      <4> QED
        BY <4>3 DEF CellMeans
    <3>2. CASE cell.bits = 0 /\ Young(v)
      <4>1. FillCell(cell, v, ScriptOf[v]) = cell
        BY <3>2 DEF FillCell
      <4> QED
        BY <4>1, <1>1
    <3>3. CASE cell.bits = 0 /\ ~Young(v)
      <4>1. FillCell(cell, v, ScriptOf[v]) = [bits |-> Bits(v), idx |-> Idx(ScriptOf[v]), script |-> ScriptOf[v]]
        BY <3>3 DEF FillCell
      <4>2. Bits(v) = at[v] /\ at[v] # 0
        BY <1>4, CalleeKinds
      <4>3. at[v] \in TenuredAddrs
        BY <4>2, <3>3, <1>4, LiveAt DEF DispInv, Young, Addrs
      <4>4. Learned(FillCell(cell, v, ScriptOf[v]), v)
        BY <4>1, <4>2, <4>3, <1>4 DEF Learned
      <4> QED
        BY <4>4, <1>4 DEF CellMeans
    <3> QED
      BY <3>1, <3>2, <3>3
  <2> QED
    BY <2>2, <2>3, <2>4
<1> QED
    BY <1>2, <1>3, <1>4, DispatchAssumption

\* So does the probe in line: a callee with the cell's bits is the callee
\* the cell learned.
LEMMA ClassifyTells ==
    ASSUME DispInv, "min" \notin Numbers, NEW v \in Callees
    PROVE  /\ Told(emit_inline_classify(cell, v), v)
           /\ CellMeans(emit_inline_classify(cell, v).cell)
<1>1. CASE cell.bits = Bits(v)
  <2> DEFINE k == [idx |-> cell.idx, script |-> cell.script, native |-> FALSE, cell |-> cell]
  <2>1. emit_inline_classify(cell, v) = k
    BY <1>1 DEF emit_inline_classify
  <2>2. k.idx = cell.idx /\ k.script = cell.script /\ k.cell = cell
    OBVIOUS
  <2> HIDE DEF k
  <2>3. CellMeans(cell)
    BY DEF DispInv, CellOK
  <2>4. CASE cell = EmptyCell
    BY <2>4, <2>1, <2>2, <2>3 DEF EmptyCell, Told
  <2>5. CASE cell.bits = 1
    <3>1. Bits(v) # 1
      BY CalleeKinds, LiveAt DEF DispInv
    <3> QED
      BY <3>1, <2>5, <1>1
  <2>6. ASSUME NEW w \in Ids, Learned(cell, w) PROVE Told(k, v)
    <3>1. at[w] \in TenuredAddrs /\ at[w] = Bits(v) /\ at[w] # 0
      BY <2>6, <1>1, AddressAssumption DEF Learned
    <3>2. v \in Ids /\ at[v] = at[w] /\ at[v] # 0
      BY <3>1, CalleeKinds
    <3>3. v = w
      BY <3>2 DEF DispInv, HeapOK
    <3> QED
      BY <3>3, <2>2, <2>6 DEF Learned, Told
  <2> QED
    BY <2>1, <2>2, <2>3, <2>4, <2>5, <2>6 DEF CellMeans
<1>2. CASE cell.bits # Bits(v)
  <2>1. emit_inline_classify(cell, v) = call_classify(cell, v)
    BY <1>2 DEF emit_inline_classify
  <2> QED
    BY <2>1, HelperTells
<1> QED
    BY <1>1, <1>2

\* An index other than 0 names one compiled script.
LEMMA IndexNames ==
    ASSUME NEW s \in DOMAIN Script, Idx(s) # 0
    PROVE  /\ Body(Idx(s)) = s
           /\ \A t \in DOMAIN Script : Idx(t) = Idx(s) => t = s
<1>1. ASSUME NEW t \in DOMAIN Script PROVE Idx(t) = Script[t].idx
    BY DispatchAssumption DEF Idx, NoScript
<1>2. \A t \in DOMAIN Script : Idx(t) = Idx(s) => t = s
    BY <1>1, DispatchAssumption
<1>3. Script[s].idx = Idx(s)
    BY <1>1
<1>4. Body(Idx(s)) \in DOMAIN Script /\ Script[Body(Idx(s))].idx = Idx(s)
    BY <1>3 DEF Body
<1> QED
    BY <1>1, <1>2, <1>4

--------------------------------------------------------------------------
(* The dispatches.                                                          *)

\* The arms of emit_call_generic_to, one at a time.
LEMMA GenericArms ==
    ASSUME NEW k, NEW likely, NEW argc, NEW proven, NEW fits
    PROVE  LET out == emit_call_generic_to(k, likely, argc, proven, fits)
           IN  \/ out = Engine
               \/ (k.idx # 0 /\ likely # NoScript /\ k.idx = Idx(likely) /\ out = Enter(likely, k.script, argc, proven))
               \/ (k.idx # 0 /\ out = Enter(Body(k.idx), k.script, argc, FALSE))
BY DEF emit_call_generic_to

\* A classify that tells the truth leads a call to the callee's own body,
\* by the likely arm or by the table.
LEMMA GenericAgrees ==
    ASSUME NEW k, NEW v, Told(k, v), NEW likely \in DOMAIN Script \cup {"none"},
           NEW argc, NEW proven, NEW fits, NEW claim,
           proven => claim = likely
    PROVE  CallSame(v, emit_call_generic_to(k, likely, argc, proven, fits), claim)
<1> DEFINE out == emit_call_generic_to(k, likely, argc, proven, fits)
<1>1. CASE out = Engine
    BY <1>1 DEF CallSame
<1>2. ASSUME k.idx # 0
      PROVE  /\ v \in Ids /\ Kind[v] \in {"normal", "arrow"} /\ ScriptOf[v] \in DOMAIN Script
             /\ Idx(ScriptOf[v]) = k.idx /\ k.script = ScriptOf[v] /\ Body(k.idx) = ScriptOf[v]
             /\ \A t \in DOMAIN Script : Idx(t) = k.idx => t = ScriptOf[v]
  <2>1. v \in Ids /\ Kind[v] \in {"normal", "arrow"} /\ k.idx = Idx(ScriptOf[v]) /\ k.script = ScriptOf[v]
    BY <1>2 DEF Told
  <2>2. ScriptOf[v] \in DOMAIN Script
    BY <2>1, DispatchAssumption
  <2> QED
    BY <2>1, <2>2, <1>2, IndexNames
<1>3. CASE k.idx # 0 /\ likely # NoScript /\ k.idx = Idx(likely) /\ out = Enter(likely, k.script, argc, proven)
  <2>1. likely = ScriptOf[v]
    BY <1>2, <1>3 DEF NoScript
  <2>2. out.body = likely /\ out.script = k.script /\ (out.sel <=> proven)
    <3>1. Enter(likely, k.script, argc, proven).sel = proven
      BY DEF Enter
    <3> QED
    BY <1>3, <3>1 DEF Enter
  <2> QED
    BY <2>1, <2>2, <1>2, <1>3 DEF CallSame, Scripted
<1>4. CASE k.idx # 0 /\ out = Enter(Body(k.idx), k.script, argc, FALSE)
  <2>1. out.body = Body(k.idx) /\ out.script = k.script /\ out.sel = FALSE
    BY <1>4 DEF Enter
  <2> QED
    BY <2>1, <1>2, <1>4 DEF CallSame, Scripted
<1> QED
    BY <1>1, <1>3, <1>4, GenericArms

\* Passing a script that does not observe its actuals just its formals is
\* passing them all.
LEMMA FormalsSuffice ==
    ASSUME NEW s \in DOMAIN Script, apply_fwd_target_ok(s), NEW n \in Int
    PROVE  Seen(s, Script[s].nargs, n) = Seen(s, n, n)
<1>1. Script[s].nargs \in Nat /\ ~Script[s].observes
    BY DispatchAssumption DEF apply_fwd_target_ok, observes_actuals
<1>2. Smaller(Smaller(Script[s].nargs, n), Script[s].nargs) = Smaller(Smaller(n, n), Script[s].nargs)
    BY <1>1 DEF Smaller
<1>3. (IF Script[s].observes THEN Script[s].nargs ELSE 0) = (IF Script[s].observes THEN n ELSE 0)
    BY <1>1
<1> QED
    BY <1>2, <1>3 DEF Seen

\* What the analysis gives a site are scripts, or nothing.
LEMMA SiteFacts ==
    ASSUME site \in Sites
    PROVE  /\ likely_call_target(site) \in DOMAIN Script \cup {"none"}
           /\ apply_fwd_direct_target(site) \in DOMAIN Script \cup {"none"}
           /\ apply_fwd_direct_target(site) # NoScript => apply_fwd_target_ok(apply_fwd_direct_target(site))
           /\ \A t \in apply_fwd_known_targets(site) : t \in DOMAIN Script /\ apply_fwd_target_ok(t)
BY DispatchAssumption DEF likely_call_target, apply_fwd_direct_target, apply_fwd_known_targets, NoScript

\* The count of actuals is a number.
LEMMA CountsAreNumbers ==
    ASSUME site \in Sites, NEW n \in ActualCounts(site)
    PROVE  n \in Int
<1>1. site.seg \in Int
    BY DispatchAssumption
<1> QED
    BY <1>1 DEF ActualCounts

\* A forward that a truthful classify led, of a target the site was analysed
\* for, lets the target see what it would have seen.
LEMMA ForwardArms ==
    ASSUME site \in Sites, NEW k, NEW v, Told(k, v), NEW n \in Int, NEW fits \in BOOLEAN, NEW isApply \in BOOLEAN,
           apply_fwd_direct_target(site) # NoScript =>
               Scripted(v) /\ ScriptOf[v] = apply_fwd_direct_target(site)
    PROVE  LET f == emit_apply_forward(site, isApply, k, n, fits)
           IN  ForwardSame(v, f, n) /\ (isApply \/ f = ByEngine(n))
<1> DEFINE t == apply_fwd_direct_target(site)
           known == {x \in apply_fwd_known_targets(site) : Idx(x) # 0 /\ Idx(x) = k.idx}
           f == emit_apply_forward(site, isApply, k, n, fits)
<1>0. ASSUME NEW out PROVE Forward(out, n).out = out /\ Forward(out, n).argc = n
    BY DEF Forward
<1>1. ASSUME f = ByEngine(n) PROVE ForwardSame(v, f, n)
  <2>1. f.out = Engine /\ f.argc = n
    BY <1>0, <1>1 DEF ByEngine
  <2> QED
    BY <2>1 DEF ForwardSame, CallSame
<1>2. CASE ~isApply
  <2>1. f = ByEngine(n)
    BY <1>2 DEF emit_apply_forward
  <2> QED
    BY <2>1, <1>1
<1>3. CASE isApply /\ t # NoScript
  <2> DEFINE out == emit_call_generic_to(k, t, Script[t].nargs, FALSE, fits)
  <2>1. f = Forward(out, Script[t].nargs)
    BY <1>3 DEF emit_apply_forward
  <2>2. f.out = out /\ f.argc = Script[t].nargs
    BY <2>1 DEF Forward
  <2>3. t \in DOMAIN Script /\ apply_fwd_target_ok(t) /\ Scripted(v) /\ ScriptOf[v] = t
    BY <1>3, SiteFacts DEF NoScript
  <2>4. CallSame(v, out, v)
    BY <2>3, GenericAgrees
  <2>5. Seen(t, Script[t].nargs, n) = Seen(t, n, n)
    BY <2>3, FormalsSuffice
  <2> HIDE DEF out, f, t
  <2> QED
    BY <2>2, <2>3, <2>4, <2>5, <1>3 DEF ForwardSame, f
<1>4. CASE isApply /\ t = NoScript /\ known # {} /\ fits
  <2> DEFINE x == CHOOSE y \in known : TRUE
  <2>1. f = emit_apply_fwd_known_arm(x, k)
    BY <1>4 DEF emit_apply_forward
  <2>2. x \in known
    BY <1>4
  <2> HIDE DEF x
  <2>3. x \in DOMAIN Script /\ apply_fwd_target_ok(x) /\ Idx(x) # 0 /\ Idx(x) = k.idx
    BY <2>2, SiteFacts
  <2>4. f.out = Enter(x, k.script, Script[x].nargs, FALSE) /\ f.argc = Script[x].nargs
    BY <2>1 DEF emit_apply_fwd_known_arm, Forward
  <2>5. f.out.body = x /\ f.out.script = k.script /\ f.out.sel = FALSE
    BY <2>4 DEF Enter
  <2>6. v \in Ids /\ Kind[v] \in {"normal", "arrow"} /\ k.idx = Idx(ScriptOf[v]) /\ k.script = ScriptOf[v]
    BY <2>3 DEF Told
  <2>7. ScriptOf[v] \in DOMAIN Script
    BY <2>6, DispatchAssumption
  <2>8. ScriptOf[v] = x
    BY <2>3, <2>6, <2>7, IndexNames
  <2>9. Seen(x, Script[x].nargs, n) = Seen(x, n, n)
    BY <2>3, FormalsSuffice
  <2> HIDE DEF f
  <2>10. CallSame(v, f.out, v)
    BY <2>5, <2>6, <2>8 DEF CallSame, Scripted
  <2>11. Scripted(v)
    BY <2>6 DEF Scripted
  <2> QED
    BY <2>4, <2>8, <2>9, <2>10, <2>11, <1>4 DEF ForwardSame, f
<1>5. CASE isApply /\ t = NoScript /\ ~(known # {} /\ fits) /\ k.idx # 0 /\ fits
  <2>1. f = Forward(Enter(Body(k.idx), k.script, n, FALSE), n)
    BY <1>5 DEF emit_apply_forward
  <2>2. f.out = Enter(Body(k.idx), k.script, n, FALSE) /\ f.argc = n
    BY <2>1, <1>0
  <2>3. f.out.body = Body(k.idx) /\ f.out.script = k.script /\ f.out.sel = FALSE
    BY <2>2 DEF Enter
  <2>4. v \in Ids /\ Kind[v] \in {"normal", "arrow"} /\ k.idx = Idx(ScriptOf[v]) /\ k.script = ScriptOf[v]
    BY <1>5 DEF Told
  <2>5. Body(k.idx) = ScriptOf[v]
    BY <2>4, <1>5, DispatchAssumption, IndexNames
  <2> HIDE DEF f
  <2>6. CallSame(v, f.out, v)
    BY <2>3, <2>4, <2>5 DEF CallSame, Scripted
  <2> QED
    BY <2>2, <2>6, <1>5 DEF ForwardSame, f
<1>6. CASE isApply /\ t = NoScript /\ ~(known # {} /\ fits) /\ ~(k.idx # 0 /\ fits)
  <2>1. f = ByEngine(n)
    BY <1>6 DEF emit_apply_forward
  <2> QED
    BY <2>1, <1>1
<1> QED
    BY <1>2, <1>3, <1>4, <1>5, <1>6

\* `new` gives an object with the constructor's prototype and runs its body:
\* a construct cell that fits holds that very prototype.
LEMMA ConstructArms ==
    ASSUME DispInv, "min" \notin Numbers, NEW v \in Callees, v \in Ids, NEW k, Told(k, v),
           NEW nt, NEW argc, NEW fits \in BOOLEAN, NEW p,
           proto[v] # "lazy" => p = proto[v],
           v = ArrayCtor => nt = v
    PROVE  ConstructSame(v, nt, emit_construct_classify(v, nt, k, argc, fits, p), p)
<1> DEFINE out == emit_construct_classify(v, nt, k, argc, fits, p)
           P == IF ConstructCellHit(v) THEN ccell.shape ELSE GetPrototypeFromConstructor(p)
<1>1. ASSUME NEW x, NEW y, NEW z
      PROVE  Constructed(x, y, z).t = x /\ Constructed(x, y, z).thisProto = y /\ Constructed(x, y, z).body = z
    BY DEF Constructed
<1>2. CASE out = ByConstruct
    BY <1>1, <1>2 DEF ByConstruct, ConstructSame
<1>3. CASE Bits(v) = builtin[ArrayCtor] /\ out = Constructed("array", NoScript, NoScript)
  <2>1. v = ArrayCtor
    BY <1>3, SameBits DEF Builtins
  <2>2. out.t = "array"
    BY <1>1, <1>3
  <2> QED
    BY <2>1, <2>2 DEF ConstructSame
<1>4. CASE ConstructGuards(v, nt, fits) /\ out = Constructed("this", P, ScriptOf[v])
  <2>1. Kind[v] = "normal" /\ nt = v
    BY <1>4 DEF ConstructGuards
  <2>2. P = GetPrototypeFromConstructor(p)
    <3>1. CASE ~ConstructCellHit(v)
      BY <3>1
    <3>2. CASE ConstructCellHit(v)
      <4>1. ccell.shape # NoScript /\ ccell.gen = igen /\ proto[v] \in Ids /\ at[proto[v]] = ccell.protoPtr
        BY <3>2 DEF ConstructCellHit
      <4>2. ccell.shape \in Ids /\ at[ccell.shape] \in TenuredAddrs /\ at[ccell.shape] = ccell.protoPtr
        BY <4>1 DEF DispInv, CcellOK, CcellMeans
      <4>3. at[ccell.shape] # 0
        BY <4>2, AddressAssumption
      <4>4. proto[v] = ccell.shape
        BY <4>1, <4>2, <4>3 DEF DispInv, HeapOK
      <4>5. p = proto[v] /\ p # "prim"
        BY <4>1, DispatchAssumption
      <4> QED
        BY <3>2, <4>4, <4>5 DEF GetPrototypeFromConstructor
    <3> QED
      BY <3>1, <3>2
  <2>3. out.t = "this" /\ out.thisProto = P /\ out.body = ScriptOf[v]
    BY <1>1, <1>4
  <2> HIDE DEF out, P
  <2> QED
    BY <2>1, <2>2, <2>3 DEF ConstructSame, out
<1> QED
    BY <1>2, <1>3, <1>4 DEF emit_construct_classify

--------------------------------------------------------------------------
(* Every step keeps the invariant.                                          *)

\* An object at a place of its own: a free address of the kind that suits
\* it.
LEMMA PlaceNew ==
    ASSUME HeapOK, NEW i \in Ids, at[i] = 0,
           NEW a \in Addrs, \A j \in Ids : at[j] # a,
           Kind[i] = "plain" => a \in TenuredAddrs,
           at' = [at EXCEPT ![i] = a]
    PROVE  /\ HeapOK'
           /\ at'[i] = a /\ a # 0
           /\ \A j \in Ids : j # i => at'[j] = at[j]
           /\ \A j \in Ids : at[j] # 0 => at'[j] = at[j]
<1>1. at'[i] = a /\ a # 0 /\ \A j \in Ids : j # i => at'[j] = at[j]
    BY AtType, AddressAssumption DEF Addrs
<1>2. at' \in [Ids -> Addrs \cup {0}]
    BY AtType
<1>3. \A j \in Ids : at[j] # 0 => at'[j] = at[j]
    BY <1>1
<1>4. ASSUME NEW j \in Ids, NEW k \in Ids, at'[j] # 0, at'[j] = at'[k] PROVE j = k
    BY <1>1, <1>4 DEF HeapOK
<1>5. ASSUME NEW r \in Roots PROVE at'[r] \in TenuredAddrs
    BY <1>1, DispatchAssumption, AddressAssumption DEF HeapOK
<1>6. ASSUME NEW j \in Ids, Kind[j] = "plain" PROVE at'[j] \in TenuredAddrs \cup {0}
    BY <1>1, <1>6 DEF HeapOK
<1> QED
    BY <1>1, <1>2, <1>3, <1>4, <1>5, <1>6 DEF HeapOK

\* While the live objects stay, what the cells hold stays true.
LEMMA WordsStay ==
    ASSUME NEW c, CellMeans(c), \A j \in Ids : at[j] \in TenuredAddrs => at'[j] = at[j]
    PROVE  CellMeans(c)'
BY DEF CellMeans, Learned

\* Likewise a construct cell of the current generation.
LEMMA CwordsStay ==
    ASSUME CcellOK, \A j \in Ids : at[j] \in TenuredAddrs => at'[j] = at[j],
           UNCHANGED <<ccell, igen>>
    PROVE  CcellOK'
BY DEF CcellOK, CcellMeans

\* Likewise the builtin cells: the builtins are tenured.
LEMMA BuiltinsStay ==
    ASSUME HeapOK, BuiltinsOK, \A j \in Ids : at[j] \in TenuredAddrs => at'[j] = at[j], UNCHANGED builtin
    PROVE  BuiltinsOK'
<1>1. \A b \in Builtins : at'[b] = at[b]
    BY DispatchAssumption DEF HeapOK, Roots
<1> QED
    BY <1>1 DEF BuiltinsOK

\* The first free address of a set is a free one.
LEMMA FreeOnes ==
    ASSUME NEW A, NEW a \in Nth(FreeIn(A), 1)
    PROVE  a \in A /\ \A j \in Ids : at[j] # a
BY DEF Nth, FreeIn

\* A new object disturbs nobody: nothing named its id while it was dead.
LEMMA AllocateKeeps ==
    ASSUME DispInv, ~YoungProtos, making = NotMaking, NEW i \in Ids, Allocate(i), UNCHANGED site
    PROVE  DispInv'
<1>0. at[i] = 0 /\ proto' = [proto EXCEPT ![i] = "lazy"] /\ UNCHANGED <<cell, ccell, making, builtin, igen, wrong>>
    BY DEF Allocate
<1>1. PICK a \in Nth(FreeIn(IF Kind[i] = "plain" THEN ProtoAddrs ELSE NurseryAddrs), 1) :
        at' = [at EXCEPT ![i] = a]
    BY DEF Allocate
<1>2. a \in (IF Kind[i] = "plain" THEN ProtoAddrs ELSE NurseryAddrs) /\ \A j \in Ids : at[j] # a
    BY FreeOnes
<1>3. a \in Addrs /\ (Kind[i] = "plain" => a \in TenuredAddrs)
    BY <1>2 DEF ProtoAddrs, Addrs
<1>4. /\ HeapOK'
      /\ at'[i] # 0
      /\ \A j \in Ids : j # i => at'[j] = at[j]
      /\ \A j \in Ids : at[j] # 0 => at'[j] = at[j]
    BY <1>0, <1>1, <1>2, <1>3, PlaceNew DEF DispInv
<1>5. \A j \in Ids : at[j] \in TenuredAddrs => at'[j] = at[j]
    BY <1>4, AddressAssumption
<1>6. ProtosOK'
  <2>1. proto' \in [Ids -> Ids \cup {"prim", "lazy"}]
    BY <1>0 DEF DispInv, ProtosOK
  <2>2. proto'[i] = "lazy" /\ \A j \in Ids : j # i => proto'[j] = proto[j]
    BY <1>0 DEF DispInv, ProtosOK
  <2>3. ASSUME NEW j \in Ids, at'[j] # 0, proto'[j] \in Ids PROVE at'[proto'[j]] # 0 /\ Kind[proto'[j]] = "plain"
    <3>1. j # i /\ proto'[j] = proto[j] /\ at[j] # 0
      BY <2>2, <2>3, <1>4, DispatchAssumption
    <3> QED
      BY <3>1, <2>3, <1>4 DEF DispInv, ProtosOK
  <2>4. \A j \in Ids : Kind[j] # "normal" => proto'[j] = "lazy"
    BY <2>2 DEF DispInv, ProtosOK
  <2> QED
    BY <2>1, <2>3, <2>4 DEF ProtosOK
<1>7. BuiltinsOK'
    BY <1>0, <1>5, BuiltinsStay DEF DispInv
<1>8. CellOK'
    BY <1>0, <1>5, WordsStay DEF DispInv, CellOK
<1>9. CcellOK'
    BY <1>0, <1>5, CwordsStay DEF DispInv
<1>10. MakingOK'
    BY <1>0 DEF MakingOK
<1> QED
    BY <1>0, <1>4, <1>6, <1>7, <1>8, <1>9, <1>10 DEF DispInv

\* `f.prototype = q` makes a live, tenured object the prototype.
LEMMA ReassignKeeps ==
    ASSUME DispInv, making = NotMaking, NEW f \in Ids, NEW q \in {"prim"} \cup (Live \ Functions), Reassign(f, q), UNCHANGED site
    PROVE  DispInv'
<1>0. Kind[f] = "normal" /\ proto' = [proto EXCEPT ![f] = q]
      /\ UNCHANGED <<at, cell, ccell, making, builtin, igen, wrong>>
    BY DEF Reassign
<1>1. q = "prim" \/ (q \in Ids /\ at[q] # 0 /\ Kind[q] = "plain")
    BY DEF Live, Functions
<1>2. ProtosOK'
  <2>1. proto'[f] = q /\ \A j \in Ids : j # f => proto'[j] = proto[j]
    BY <1>0 DEF DispInv, ProtosOK
  <2>2. proto' \in [Ids -> Ids \cup {"prim", "lazy"}]
    BY <1>0, <1>1 DEF DispInv, ProtosOK
  <2>3. ASSUME NEW j \in Ids, at'[j] # 0, proto'[j] \in Ids PROVE at'[proto'[j]] # 0 /\ Kind[proto'[j]] = "plain"
    <3>1. CASE j = f
      BY <3>1, <2>1, <2>3, <1>0, <1>1, DispatchAssumption
    <3>2. CASE j # f
      BY <3>2, <2>1, <2>3, <1>0 DEF DispInv, ProtosOK
    <3> QED
      BY <3>1, <3>2
  <2>4. \A j \in Ids : Kind[j] # "normal" => proto'[j] = "lazy"
    BY <2>1, <1>0 DEF DispInv, ProtosOK
  <2> QED
    BY <2>2, <2>3, <2>4 DEF ProtosOK
<1>3. HeapOK' /\ BuiltinsOK'
    BY <1>0 DEF DispInv, HeapOK, BuiltinsOK
<1>4. CellOK' /\ CcellOK'
    BY <1>0 DEF DispInv, CellOK, CellMeans, Learned, CcellOK, CcellMeans
<1>5. MakingOK'
    BY <1>0 DEF MakingOK
<1> QED
    BY <1>0, <1>2, <1>3, <1>4, <1>5 DEF DispInv

\* What a collection leaves of the prototypes.
LEMMA SweepProtos ==
    ASSUME ProtosOK, NEW S \in Survivors, \A i \in Ids : at'[i] # 0 <=> i \in S, UNCHANGED proto
    PROVE  ProtosOK'
<1>1. S \in SUBSET Ids /\ (\A i \in S : at[i] # 0) /\ \A i \in S : proto[i] \in Ids => proto[i] \in S
    BY SurvivorsLive
<1>2. ASSUME NEW i \in Ids, at'[i] # 0, proto[i] \in Ids PROVE at'[proto[i]] # 0 /\ Kind[proto[i]] = "plain"
    BY <1>1, <1>2 DEF ProtosOK
<1> QED
    BY <1>2 DEF ProtosOK

\* A minor collection leaves the cells alone, and may: they hold tenured
\* addresses only.
LEMMA MinorKeeps ==
    ASSUME DispInv, MinorGC, UNCHANGED site
    PROVE  DispInv'
<1>0. RearmBuiltinCells /\ UNCHANGED <<proto, cell, ccell, making, igen, wrong>>
    BY DEF MinorGC
<1>1. PICK S \in Survivors : (\A i \in Live \ S : Young(i)) /\ Tenure(S)
    BY DEF MinorGC
<1>2. /\ HeapOK'
      /\ \A i \in Ids : at'[i] # 0 <=> i \in S
      /\ \A i \in S : at[i] \in TenuredAddrs => at'[i] = at[i]
      /\ \A i \in Ids : at'[i] \in TenuredAddrs \cup {0}
    BY <1>1, TenureKeeps DEF DispInv
<1>3. ASSUME NEW j \in Ids, at[j] \in TenuredAddrs PROVE at'[j] = at[j]
  <2>1. j \in Live /\ ~Young(j)
    BY <1>3, AddressAssumption DEF Live, Young
  <2> QED
    BY <2>1, <1>1, <1>2, <1>3
<1>4. ProtosOK'
    BY <1>0, <1>2, SweepProtos DEF DispInv
<1>5. BuiltinsOK'
    BY <1>0 DEF RearmBuiltinCells, BuiltinsOK
<1>6. CellOK'
    BY <1>0, <1>3, WordsStay DEF DispInv, CellOK
<1>7. CcellOK'
    BY <1>0, <1>3, CwordsStay DEF DispInv
<1>8. MakingOK'
  <2> SUFFICES ASSUME making # NotMaking PROVE MakingOK'
    BY <1>0 DEF MakingOK
  <2>1. Held \subseteq S
    BY SurvivorsLive
  <2>2. making.callee \in S /\ making.proto \in S
    BY <2>1 DEF Held
  <2>3. /\ making.callee \in Ids /\ Kind[making.callee] = "normal" /\ at[making.callee] # 0
        /\ proto[making.callee] # "lazy" /\ making.proto \in Ids /\ Kind[making.proto] = "plain"
    BY DEF DispInv, MakingOK
  <2>4. at'[making.callee] # 0 /\ at'[making.proto] # 0
    BY <1>2, <2>2, <2>3
  <2>5. ASSUME making.bits \in NurseryAddrs PROVE \A i \in Ids : at'[i] # making.bits
    BY <2>5, <1>2, AddressAssumption
  <2>6. ASSUME ccell.gen = igen
        PROVE  at'[making.callee] = making.bits \/ making.bits \in NurseryAddrs
    <3>1. at[making.callee] = making.bits \/ making.bits \in NurseryAddrs
      BY <2>6 DEF DispInv, MakingOK
    <3>2. at[making.callee] \in Addrs
      BY <2>3, LiveAt DEF DispInv
    <3>3. at[making.callee] \in TenuredAddrs => at'[making.callee] = at[making.callee]
      BY <1>3, <2>3
    <3> QED
      BY <3>1, <3>2, <3>3 DEF Addrs
  <2> QED
    BY <1>0, <2>3, <2>4, <2>5, <2>6 DEF MakingOK
<1> QED
    BY <1>0, <1>2, <1>4, <1>5, <1>6, <1>7, <1>8 DEF DispInv

\* A major one drops them.
LEMMA MajorKeeps ==
    ASSUME DispInv, MajorGC, UNCHANGED site
    PROVE  DispInv'
<1>0. RearmBuiltinCells /\ cell' = EmptyCell /\ igen' = igen + 1 /\ UNCHANGED <<proto, ccell, making, wrong>>
    BY DEF MajorGC, NightPurgeMovableCaches
<1>1. PICK S \in Survivors : Tenure(S) \/ Slide(S, TenuredAddrs \ {at[FunApply]}, Buried)
    BY DEF MajorGC
<1>2. HeapOK' /\ \A i \in Ids : at'[i] # 0 <=> i \in S
    BY <1>1, TenureKeeps, CompactKeeps DEF DispInv
<1>3. ProtosOK'
    BY <1>0, <1>2, SweepProtos DEF DispInv
<1>4. BuiltinsOK'
    BY <1>0 DEF RearmBuiltinCells, BuiltinsOK
<1>5. CellOK'
    BY <1>0 DEF CellOK, CellMeans
<1>6. CcellOK'
  <2>1. igen \in Nat /\ ccell.gen \in Nat /\ ccell.gen <= igen
    BY DEF DispInv, CcellOK, CcellMeans
  <2>2. igen' \in Nat /\ ccell'.gen \in Nat /\ ccell'.gen <= igen' /\ ccell'.gen # igen'
    BY <2>1, <1>0
  <2> QED
    BY <2>2 DEF CcellOK, CcellMeans
<1>7. MakingOK'
  <2> SUFFICES ASSUME making # NotMaking PROVE MakingOK'
    BY <1>0 DEF MakingOK
  <2>1. Held \subseteq S
    BY SurvivorsLive
  <2>2. making.callee \in S /\ making.proto \in S
    BY <2>1 DEF Held
  <2>3. /\ making.callee \in Ids /\ Kind[making.callee] = "normal"
        /\ proto[making.callee] # "lazy" /\ making.proto \in Ids /\ Kind[making.proto] = "plain"
    BY DEF DispInv, MakingOK
  <2>4. at'[making.callee] # 0 /\ at'[making.proto] # 0
    BY <1>2, <2>2, <2>3
  <2>5. ccell'.gen # igen'
    BY <1>0 DEF DispInv, CcellOK, CcellMeans
  <2> QED
    BY <1>0, <2>3, <2>4, <2>5 DEF MakingOK
<1> QED
    BY <1>0, <1>2, <1>3, <1>4, <1>5, <1>6, <1>7 DEF DispInv

\* The helper fills the cell: from its callee, or from another function that sits where the callee
\* was; if only the allocation half is written, the guards are of an older generation.
LEMMA FillKeeps ==
    ASSUME DispInv, create_this, UNCHANGED site
    PROVE  DispInv'
<1> DEFINE there == {i \in Ids : at[i] = making.bits}
           i == CHOOSE j \in there : TRUE
           q == making.proto
<1>0. /\ making # NotMaking /\ making' = NotMaking
      /\ ccell' = IF there = {} THEN ccell ELSE FilledFrom(ccell, i, q)
      /\ UNCHANGED <<at, proto, cell, builtin, igen, wrong>>
    BY DEF create_this
<1>1. q \in Ids /\ Kind[q] = "plain" /\ at[q] \in TenuredAddrs
    BY <1>0 DEF DispInv, MakingOK, HeapOK
<1>2. igen \in Nat /\ CcellMeans(ccell, igen)
    BY DEF DispInv, CcellOK
<1>3. CcellMeans(ccell', igen)
  <2>1. CASE there = {}
    BY <2>1, <1>0, <1>2
  <2>2. CASE there # {} /\ i \notin Functions
    BY <2>2, <1>0, <1>2 DEF FilledFrom
  <2>3. CASE there # {} /\ i \in Functions /\ Kind[i] = "normal" /\ proto[i] # "lazy"
    <3>1. ccell' = [shape |-> q, ctorShape |-> CtorShape(proto[i]), gen |-> igen, protoPtr |-> at[q]]
      BY <2>3, <1>0 DEF FilledFrom
    <3>2. ccell'.shape = q /\ ccell'.gen = igen /\ ccell'.protoPtr = at[q]
      BY <3>1
    <3> HIDE DEF q
    <3> QED
      BY <3>2, <1>1, <1>2 DEF CcellMeans
  <2>4. CASE there # {} /\ i \in Functions /\ ~(Kind[i] = "normal" /\ proto[i] # "lazy")
    <3>1. ccell' = [ccell EXCEPT !.shape = q]
      BY <2>4, <1>0 DEF FilledFrom
    <3>2. ccell'.gen = ccell.gen
      BY <3>1
    <3>3. i \in Ids /\ at[i] = making.bits
      BY <2>4
    <3>4. i # making.callee
      BY <2>4, <1>0 DEF DispInv, MakingOK
    <3>5. at[making.callee] # making.bits
      <4>1. making.callee \in Ids /\ at[making.callee] # 0
        BY <1>0 DEF DispInv, MakingOK
      <4> QED
        BY <4>1, <3>3, <3>4 DEF DispInv, HeapOK
    <3>6. ccell.gen # igen
      BY <3>3, <3>5, <1>0 DEF DispInv, MakingOK
    <3> QED
      BY <3>2, <3>6, <1>2 DEF CcellMeans
  <2> QED
    BY <2>1, <2>2, <2>3, <2>4
<1> HIDE DEF there, i, q
<1>4. CcellOK'
    BY <1>0, <1>2, <1>3 DEF CcellOK, CcellMeans
<1>5. HeapOK' /\ ProtosOK' /\ BuiltinsOK' /\ CellOK' /\ MakingOK'
    BY <1>0 DEF DispInv, HeapOK, ProtosOK, BuiltinsOK, CellOK, CellMeans, Learned, MakingOK
<1> QED
    BY <1>0, <1>4, <1>5 DEF DispInv

\* A call step disagrees with nothing.
LEMMA CallKeeps ==
    ASSUME DispInv, making = NotMaking, "min" \notin Numbers, NEW v \in Callees, NEW proven \in BOOLEAN, NEW fits \in BOOLEAN,
           Call(v, proven, fits), UNCHANGED site
    PROVE  DispInv'
<1> DEFINE k == emit_inline_classify(cell, v)
           likely == likely_call_target(site)
           out == emit_call_generic_to(k, likely, 1, proven, fits)
<1>0. /\ cell' = k.cell /\ Note(CallSame(v, out, likely), "call")
      /\ UNCHANGED <<at, proto, ccell, making, builtin, igen>>
    BY DEF Call
<1>1. Told(k, v) /\ CellMeans(k.cell)
    BY ClassifyTells
<1>2. likely \in DOMAIN Script \cup {"none"}
    BY SiteFacts DEF DispInv
<1> HIDE DEF k, likely
<1>3. CallSame(v, out, likely)
    BY <1>1, <1>2, GenericAgrees
<1> HIDE DEF out
<1>4. wrong' = wrong
    BY <1>0, <1>3 DEF Note
<1>5. CellOK'
    BY <1>0, <1>1 DEF CellOK, CellMeans, Learned
<1>6. HeapOK' /\ ProtosOK' /\ BuiltinsOK' /\ CcellOK'
    BY <1>0 DEF DispInv, HeapOK, ProtosOK, BuiltinsOK, CcellOK, CcellMeans
<1>7. MakingOK'
    BY <1>0 DEF MakingOK
<1> QED
    BY <1>4, <1>5, <1>6, <1>7 DEF DispInv

\* Nor does a forward, of the target its site was analysed for.
LEMMA ApplyKeeps ==
    ASSUME DispInv, making = NotMaking, "min" \notin Numbers, ~Retarget, NEW v \in Callees, NEW fn \in Callees,
           NEW n \in ActualCounts(site), NEW fits \in BOOLEAN, Apply(fn, v, n, fits), UNCHANGED site
    PROVE  DispInv'
<1> DEFINE k == emit_inline_classify(cell, v)
           isApply == Bits(fn) = builtin[FunApply]
           f == emit_apply_forward(site, isApply, k, n, fits)
<1>0. /\ cell' = k.cell
      /\ Note(ForwardSame(v, f, n) /\ (fn = FunApply \/ f = ByEngine(n)), "apply")
      /\ UNCHANGED <<at, proto, ccell, making, builtin, igen>>
    BY DEF Apply
<1>1. apply_fwd_direct_target(site) # NoScript => Scripted(v) /\ ScriptOf[v] = apply_fwd_direct_target(site)
    BY DEF Apply
<1>2. Told(k, v) /\ CellMeans(k.cell)
    BY ClassifyTells
<1>3. n \in Int /\ site \in Sites
    BY CountsAreNumbers DEF DispInv
<1>4. isApply => fn = FunApply
    BY SameBits DEF Builtins
<1>5. isApply \in BOOLEAN
    OBVIOUS
<1> HIDE DEF k, isApply
<1>6. ForwardSame(v, f, n) /\ (isApply \/ f = ByEngine(n))
    BY <1>1, <1>2, <1>3, <1>5, ForwardArms
<1> HIDE DEF f
<1>7. wrong' = wrong
    BY <1>0, <1>4, <1>6 DEF Note
<1>8. CellOK'
    BY <1>0, <1>2 DEF CellOK, CellMeans, Learned
<1>9. HeapOK' /\ ProtosOK' /\ BuiltinsOK' /\ CcellOK'
    BY <1>0 DEF DispInv, HeapOK, ProtosOK, BuiltinsOK, CcellOK, CcellMeans
<1>10. MakingOK'
    BY <1>0 DEF MakingOK
<1> QED
    BY <1>7, <1>8, <1>9, <1>10 DEF DispInv

\* Nor does a hasOwnProperty.call.
LEMMA HasOwnKeeps ==
    ASSUME DispInv, making = NotMaking, "min" \notin Numbers, NEW c \in Callees, NEW t \in Callees, HasOwnCall(c, t), UNCHANGED site
    PROVE  DispInv'
<1>1. emit_hasown_call(c, t) => c = FunCall /\ t = HasOwn
    BY SameBits DEF emit_hasown_call, Builtins
<1>2. wrong' = wrong /\ UNCHANGED <<at, proto, cell, ccell, making, builtin, igen>>
    BY <1>1 DEF HasOwnCall, Note
<1>3. HeapOK' /\ ProtosOK' /\ BuiltinsOK' /\ CcellOK'
    BY <1>2 DEF DispInv, HeapOK, ProtosOK, BuiltinsOK, CcellOK, CcellMeans
<1>4. CellOK'
    BY <1>2 DEF DispInv, CellOK, CellMeans, Learned
<1>5. MakingOK'
    BY <1>2 DEF MakingOK
<1> QED
    BY <1>2, <1>3, <1>4, <1>5 DEF DispInv

\* Nor does a construct, whether its prototype was there, was made on the
\* way, or sat in the cell.
LEMMA ConstructKeeps ==
    ASSUME DispInv, making = NotMaking, "min" \notin Numbers, ~YoungProtos, ~SuperArray, NEW v \in Callees, NEW nt,
           ~site.super => nt = v, NEW argc, NEW fits \in BOOLEAN,
           NEW young \in BOOLEAN,
           NEW fresh \in {NoScript} \cup {i \in Ids : Kind[i] = "plain" /\ at[i] = 0},
           Construct(v, nt, argc, fits, young, fresh), UNCHANGED site
    PROVE  DispInv'
<1> DEFINE p == IF fresh = NoScript THEN proto[v] ELSE fresh
           k == emit_inline_classify(cell, v)
           out == emit_construct_classify(v, nt, k, argc, fits, p)
           Q == GetPrototypeFromConstructor(p)
<1>0. PICK a \in (IF fresh = NoScript THEN {at} ELSE {[at EXCEPT ![fresh] = x] : x \in Nth(FreeIn(ProtoAddrs), 1)}) :
        /\ cell' = k.cell /\ at' = a /\ proto' = [proto EXCEPT ![v] = p]
        /\ making' = IF out.t = "this" /\ ~ConstructCellHit(v) /\ young
                     THEN [bits |-> Bits(v), callee |-> v, proto |-> Q] ELSE NotMaking
        /\ Note(ConstructSame(v, nt, out, p), "construct")
    BY DEF Construct
<1>1. v \in Ids /\ (fresh # NoScript <=> proto[v] = "lazy" /\ Kind[v] = "normal") /\ UNCHANGED <<ccell, builtin, igen>>
      /\ (v = ArrayCtor => nt = v)
    BY DEF Construct
<1>2. Told(k, v) /\ CellMeans(k.cell)
    BY ClassifyTells
<1> HIDE DEF k
<1>3. proto[v] # "lazy" => p = proto[v]
    BY <1>1
<1>4. ConstructSame(v, nt, out, p)
    BY <1>1, <1>2, <1>3, ConstructArms
<1>5. wrong' = wrong
    BY <1>0, <1>4 DEF Note
<1>6. out.t = "this" => Kind[v] = "normal"
    BY <1>4 DEF ConstructSame
<1> HIDE DEF out
<1>7. /\ HeapOK'
      /\ \A j \in Ids : at[j] # 0 => at'[j] = at[j]
      /\ fresh # NoScript => at'[fresh] # 0
      /\ \A j \in Ids : j # fresh => at'[j] = at[j]
  <2>1. CASE fresh = NoScript
    BY <2>1, <1>0 DEF DispInv, HeapOK
  <2>2. CASE fresh # NoScript
    <3>1. PICK x \in Nth(FreeIn(ProtoAddrs), 1) : at' = [at EXCEPT ![fresh] = x]
      BY <2>2, <1>0
    <3>2. x \in TenuredAddrs /\ x \in Addrs /\ \A j \in Ids : at[j] # x
      BY FreeOnes DEF ProtoAddrs, Addrs
    <3>3. fresh \in Ids /\ at[fresh] = 0
      BY <2>2
    <3> QED
      BY <3>1, <3>2, <3>3, <2>2, PlaceNew DEF DispInv
  <2> QED
    BY <2>1, <2>2
<1>8. \A j \in Ids : at[j] \in TenuredAddrs => at'[j] = at[j]
    BY <1>7, AddressAssumption
<1>a. proto \in [Ids -> Ids \cup {"prim", "lazy"}]
    BY DEF DispInv, ProtosOK
<1>b. at[v] # 0
    BY <1>1, CalleeKinds
<1>c. p \in Ids => at'[p] # 0 /\ Kind[p] = "plain"
  <2>1. CASE fresh = NoScript
    BY <2>1, <1>1, <1>7, <1>b DEF DispInv, ProtosOK
  <2>2. CASE fresh # NoScript
    BY <2>2, <1>7
  <2> QED
    BY <2>1, <2>2
<1>d. p \in Ids \cup {"prim", "lazy"} /\ (Kind[v] # "normal" => p = "lazy") /\ (Kind[v] = "normal" => p # "lazy")
  <2>1. CASE fresh = NoScript
    BY <2>1, <1>1, <1>a DEF DispInv, ProtosOK
  <2>2. CASE fresh # NoScript
    BY <2>2, <1>1, DispatchAssumption
  <2> QED
    BY <2>1, <2>2
<1> HIDE DEF p
<1>9. ProtosOK'
  <2>1. proto'[v] = p /\ \A j \in Ids : j # v => proto'[j] = proto[j]
    BY <1>0, <1>1, <1>a
  <2>2. proto' \in [Ids -> Ids \cup {"prim", "lazy"}]
    BY <1>0, <1>a, <1>d
  <2>3. ASSUME NEW j \in Ids, at'[j] # 0, proto'[j] \in Ids PROVE at'[proto'[j]] # 0 /\ Kind[proto'[j]] = "plain"
    <3>1. CASE j = v
      BY <3>1, <2>1, <2>3, <1>c
    <3>2. CASE j # v /\ at[j] # 0
      <4>1. proto'[j] = proto[j] /\ at[proto[j]] # 0 /\ Kind[proto[j]] = "plain"
        BY <3>2, <2>1, <2>3 DEF DispInv, ProtosOK
      <4> QED
        BY <4>1, <2>3, <1>7
    <3>3. CASE j # v /\ at[j] = 0
      <4>1. j = fresh /\ Kind[j] = "plain"
        BY <3>3, <2>3, <1>7, DispatchAssumption DEF NoScript
      <4>2. proto'[j] = "lazy"
        BY <4>1, <3>3, <2>1 DEF DispInv, ProtosOK
      <4> QED
        BY <4>2, <2>3, DispatchAssumption
    <3> QED
      BY <3>1, <3>2, <3>3
  <2>4. \A j \in Ids : Kind[j] # "normal" => proto'[j] = "lazy"
    BY <2>1, <1>d DEF DispInv, ProtosOK
  <2> QED
    BY <2>2, <2>3, <2>4 DEF ProtosOK
<1>10. BuiltinsOK'
    BY <1>1, <1>8, BuiltinsStay DEF DispInv
<1>11. CellOK'
    BY <1>0, <1>2, <1>8, WordsStay DEF CellOK
<1>12. CcellOK'
    BY <1>1, <1>8, CwordsStay DEF DispInv
<1>13. MakingOK'
  <2>1. CASE out.t = "this" /\ ~ConstructCellHit(v) /\ young
    <3>1. making' = [bits |-> Bits(v), callee |-> v, proto |-> Q]
      BY <2>1, <1>0
    <3>2. making'.bits = Bits(v) /\ making'.callee = v /\ making'.proto = Q
      BY <3>1
    <3>3. Q \in Ids /\ at'[Q] # 0 /\ Kind[Q] = "plain"
      <4>1. CASE p = "prim"
        BY <4>1, <1>7, DispatchAssumption, AddressAssumption DEF GetPrototypeFromConstructor, HeapOK, Roots
      <4>2. CASE p # "prim"
        BY <4>2, <2>1, <1>6, <1>c, <1>d DEF GetPrototypeFromConstructor
      <4> QED
        BY <4>1, <4>2
    <3>4. Kind[v] = "normal" /\ at'[v] = at[v] /\ at'[v] # 0 /\ Bits(v) = at[v]
      BY <2>1, <1>1, <1>6, <1>7, <1>b, CalleeKinds
    <3>5. proto'[v] # "lazy"
      BY <3>4, <1>0, <1>1, <1>a, <1>d
    <3> HIDE DEF Q
    <3> QED
      BY <3>2, <3>3, <3>4, <3>5, <1>1 DEF MakingOK
  <2>2. CASE ~(out.t = "this" /\ ~ConstructCellHit(v) /\ young)
    BY <2>2, <1>0 DEF MakingOK
  <2> QED
    BY <2>1, <2>2
<1> QED
    BY <1>5, <1>7, <1>9, <1>10, <1>11, <1>12, <1>13 DEF DispInv

\* The roots start tenured, each at a place of its own.
LEMMA InitHolds ==
    ASSUME DispInit
    PROVE  DispInv
<1> DEFINE T == TenuredAddrs
<1>1. PICK a \in Nth(T, 1), b \in Nth(T, 2), c \in Nth(T, 3), d \in Nth(T, 4), e \in Nth(T, 5) :
        at = [Buried EXCEPT ![FunApply] = a, ![FunCall] = b, ![HasOwn] = c, ![ArrayCtor] = d, ![ObjectProto] = e]
    BY DEF DispInit
<1>2. a \in T /\ b \in T /\ c \in T /\ d \in T /\ e \in T
    BY DEF Nth
<1>3. a # b /\ a # c /\ a # d /\ a # e /\ b # c /\ b # d /\ b # e /\ c # d /\ c # e /\ d # e
    BY DEF Nth
<1>4. /\ FunApply # FunCall /\ FunApply # HasOwn /\ FunApply # ArrayCtor /\ FunApply # ObjectProto
      /\ FunCall # HasOwn /\ FunCall # ArrayCtor /\ FunCall # ObjectProto
      /\ HasOwn # ArrayCtor /\ HasOwn # ObjectProto /\ ArrayCtor # ObjectProto
      /\ FunApply \in Ids /\ FunCall \in Ids /\ HasOwn \in Ids /\ ArrayCtor \in Ids /\ ObjectProto \in Ids
    BY DispatchAssumption DEF Roots, Builtins
<1>5. /\ at[FunApply] = a /\ at[FunCall] = b /\ at[HasOwn] = c /\ at[ArrayCtor] = d /\ at[ObjectProto] = e
      /\ \A i \in Ids \ Roots : at[i] = 0
    BY <1>1, <1>4 DEF Buried, Roots, Builtins
<1>6. \A i \in Roots : at[i] \in T
    BY <1>2, <1>5 DEF Roots, Builtins
<1>7. 0 \notin T
    BY AddressAssumption
<1>8. at \in [Ids -> Addrs \cup {0}]
  <2>1. at = [i \in Ids |-> at[i]]
    BY <1>1 DEF Buried
  <2>2. \A i \in Ids : at[i] \in Addrs \cup {0}
    BY <1>5, <1>6 DEF Addrs
  <2> QED
    BY <2>1, <2>2
<1>9. ASSUME NEW i \in Ids, NEW j \in Ids, at[i] # 0, at[i] = at[j] PROVE i = j
  <2>1. i \in Roots /\ j \in Roots
    BY <1>5, <1>9
  <2> QED
    BY <2>1, <1>3, <1>5, <1>9 DEF Roots, Builtins
<1>10. HeapOK
    BY <1>5, <1>6, <1>8, <1>9 DEF HeapOK
<1>11. ProtosOK
    BY DispatchAssumption DEF DispInit, ProtosOK
<1>12. BuiltinsOK /\ CellOK /\ site \in Sites /\ wrong = {}
    BY DEF DispInit, BuiltinsOK, CellOK, CellMeans
<1>13. CcellOK
    BY DEF DispInit, CcellOK, CcellMeans, EmptyCcell
<1>14. MakingOK
    BY DEF DispInit, MakingOK
<1> QED
    BY <1>10, <1>11, <1>12, <1>13, <1>14 DEF DispInv

\* One step of the program, of a dispatch or of a collector.
LEMMA NextKeeps ==
    ASSUME ~YoungProtos, ~Retarget, ~SuperArray, "min" \notin Numbers, DispInv, [DispNext]_dispVars
    PROVE  DispInv'
<1>1. CASE UNCHANGED dispVars
    BY <1>1 DEF dispVars, DispInv, HeapOK, ProtosOK, BuiltinsOK, CellOK, CellMeans, Learned, CcellOK, CcellMeans, MakingOK
<1>2. CASE Program /\ making = NotMaking /\ UNCHANGED site
  <2>1. site.ids \subseteq Ids
    BY DispatchAssumption DEF DispInv
  <2>2. CASE \E i \in site.ids : Allocate(i)
    BY <2>1, <2>2, <1>2, AllocateKeeps
  <2>3. CASE \E f \in site.ids \cap Live, q \in {"prim"} \cup ((site.ids \cap Live) \ Functions) : Reassign(f, q)
    BY <2>1, <2>3, <1>2, ReassignKeeps
  <2> QED
    BY <2>2, <2>3, <1>2 DEF Program
<1>3. CASE Dispatch /\ making = NotMaking /\ UNCHANGED site
  <2>0. site.ids \subseteq Ids
    BY DispatchAssumption DEF DispInv
  <2>1. PICK v \in Callees, fits \in BOOLEAN :
          \/ \E proven \in BOOLEAN : Call(v, proven, fits)
          \/ \E fn \in Callees \cap Functions, n \in ActualCounts(site) : Apply(fn, v, n, fits)
          \/ \E t \in Callees \cap Functions : HasOwnCall(v, t)
          \/ \E nt \in (IF site.super THEN Callees ELSE {v}), argc \in {0, 1}, young \in BOOLEAN,
                fresh \in {NoScript} \cup {i \in site.ids : Kind[i] = "plain" /\ at[i] = 0} :
                Construct(v, nt, argc, fits, young, fresh)
    BY <1>3 DEF Dispatch
  <2>2. CASE \E proven \in BOOLEAN : Call(v, proven, fits)
    BY <2>2, <1>3, CallKeeps
  <2>3. CASE \E fn \in Callees \cap Functions, n \in ActualCounts(site) : Apply(fn, v, n, fits)
    BY <2>3, <1>3, ApplyKeeps
  <2>4. CASE \E t \in Callees \cap Functions : HasOwnCall(v, t)
    BY <2>4, <1>3, HasOwnKeeps
  <2>5. ASSUME NEW nt \in (IF site.super THEN Callees ELSE {v}), NEW argc \in {0, 1}, NEW young \in BOOLEAN,
               NEW fresh \in {NoScript} \cup {i \in site.ids : Kind[i] = "plain" /\ at[i] = 0},
               Construct(v, nt, argc, fits, young, fresh)
        PROVE  DispInv'
    <3>1. fresh \in {NoScript} \cup {i \in Ids : Kind[i] = "plain" /\ at[i] = 0}
      BY <2>0
    <3> QED
      BY <3>1, <2>5, <1>3, ConstructKeeps
  <2> QED
    BY <2>1, <2>2, <2>3, <2>4, <2>5
<1>4. CASE MinorGC /\ UNCHANGED site
    BY <1>4, MinorKeeps
<1>5. CASE MajorGC /\ UNCHANGED site
    BY <1>5, MajorKeeps
<1>6. CASE create_this /\ UNCHANGED site
    BY <1>6, FillKeeps
<1> QED
    BY <1>1, <1>2, <1>3, <1>4, <1>5, <1>6 DEF DispNext

\* With prototypes tenured, forwards that meet the target they were analysed
\* for, no super() into Array and no callee that is the number whose bits
\* are the poison mark, a compiled call, forward or `new` does what the engine would have done.
THEOREM CallsAgreeAlways ==
    ASSUME ~YoungProtos, ~Retarget, ~SuperArray, "min" \notin Numbers
    PROVE  DispSpec => []CallsAgree
<1>1. DispInit => DispInv
    BY InitHolds
<1>2. DispInv /\ [DispNext]_dispVars => DispInv'
    BY NextKeeps
<1>3. DispInv => CallsAgree
    BY DEF DispInv, CallsAgree, DispatchAgrees, ForwardAgrees, ConstructAgrees
<1> QED
    BY <1>1, <1>2, <1>3, PTL DEF DispSpec
=============================================================================
