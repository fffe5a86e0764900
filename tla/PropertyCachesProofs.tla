------------------------ MODULE PropertyCachesProofs ------------------------
(* PropAgrees for every heap, every number of ways and hops and every         *)
(* interleaving.                                                              *)
(*                                                                            *)
(* The invariant ties each row to the shape tree.  The tree is memoized: a    *)
(* description has one address, so a word that matches is a description that  *)
(* matches (ShapeWord, OneWord).  A row's words are at addresses that no      *)
(* sweep will free, because the rows are purged when a collection begins and  *)
(* whenever shapes move (Held, Stays).  A row that names the receiver's and   *)
(* the holder's descriptions only, and not those between, relies on the       *)
(* engine reshaping Q when P shadows it or leaves the chain (Watched).  A     *)
(* transition row's pointers are live because a minor collection drops the    *)
(* rows that hold a nursery one (PtrsOK).                                     *)
EXTENDS PropertyCaches, FiniteSetTheorems, TLAPS

--------------------------------------------------------------------------
(* The heap.                                                                *)
Names == (UNION {OwnNames[f] : f \in Families}) \cup {X, OtherName}
Prop == [n : Names, k : Kinds]
Desc == [proto : {P, Q, Null}, props : Seq(Prop), inv : BOOLEAN, uid : Nat]
HasX(f) == SlotOf(f, X) # 0

\* A memoized shape tree: no description at two addresses, every object's
\* description at one, which a sweep will not free.
Tree(pl, F, doomed) ==
    /\ \A a, b \in Addrs : pl[a] # Free /\ pl[a] = pl[b] => a = b
    /\ \A o \in Objs : \E a \in Addrs : pl[a] = F[o] /\ a \notin doomed
    /\ \A a \in doomed : a \in Addrs /\ pl[a] # Free
HeapOK ==
    /\ form \in [Objs -> Desc]
    /\ place \in [Addrs -> Desc \cup {Free}]
    /\ gc \in [on : BOOLEAN, shrink : BOOLEAN, doomed : SUBSET Addrs, cycles : Nat]
    /\ heapOps \in Nat /\ \A a \in Addrs : place[a].uid <= heapOps
    /\ Tree(place, form, gc.doomed)

\* Receivers inherit from P and own data properties, P inherits from Q or
\* from nothing, Q from nothing.
OnlyData(f) == \A i \in DOMAIN f.props : f.props[i].k = "data"
ChainOK ==
    /\ \A o \in Recv : form[o].proto = P /\ OnlyData(form[o])
    /\ form[P].proto \in {Q, Null} /\ form[Q].proto = Null

--------------------------------------------------------------------------
(* The rows.                                                                *)

\* An address a row may hold: in use, and not about to be swept.
Held(a) == a \in Addrs /\ place[a] # Free /\ a \notin gc.doomed

\* What Q's description H, recorded while a lookup passed P by and ended at
\* Q, still says: as long as Q has its number and its flag, P is passed by.
Reaches(f, g) == HasX(g) /\ ~HasX(f) /\ f.proto = Q
Watched(H) ==
    /\ H.inv => form[Q].inv
    /\ form[Q].uid = H.uid /\ form[Q].inv = H.inv => Reaches(form[P], form[Q])

GetRowOK(r) ==
    \/ r.shape = 0
    \/ /\ Held(r.shape) /\ Held(r.holderShape)
       /\ \/ /\ r.holder = Null /\ HasX(place[r.shape]) /\ r.slot = SlotOf(place[r.shape], X)
          \/ /\ r.holder \in Protos /\ ~HasX(place[r.shape])
             /\ HasX(place[r.holderShape]) /\ KindIn(place[r.holderShape]) \notin Accessors
             /\ r.slot = SlotOf(place[r.holderShape], X)
             /\ r.holder = Q => ~place[r.holderShape].inv /\ Watched(place[r.holderShape])

AccessorOK(r) ==
    \/ r.shape = 0
    \/ /\ Held(r.shape) /\ Held(r.holderShape)
       /\ r.holder \in Protos /\ ~HasX(place[r.shape])
       /\ HasX(place[r.holderShape]) /\ KindIn(place[r.holderShape]) = r.callee /\ r.callee \in Accessors
       /\ r.holder = Q => Watched(place[r.holderShape])

\* The hops of a guarded chain, by their descriptions.
ChainRowOK(r) ==
    \/ r.shape = 0
    \/ /\ Held(r.shape) /\ ~HasX(place[r.shape])
       /\ r.ptrs \in {<<P>>, <<P, Q>>} /\ DOMAIN r.shapes = DOMAIN r.ptrs
       /\ \A i \in DOMAIN r.ptrs : Held(r.shapes[i])
       /\ r.ptrs = <<P, Q>> => place[r.shapes[1]].proto = Q /\ ~HasX(place[r.shapes[1]])
       /\ LET l == place[r.shapes[Len(r.ptrs)]]
          IN  IF r.slot = 0 THEN ~HasX(l) /\ l.proto = Null
              ELSE HasX(l) /\ KindIn(l) \notin Accessors /\ r.slot = SlotOf(l, X)

SetRowOK(r) ==
    \/ r.shape \in {0, Poly}
    \/ Held(r.shape) /\ HasX(place[r.shape]) /\ r.slot = SlotOf(place[r.shape], X)

\* An add and its slot.
AddOK(r) ==
    /\ Held(r.old) /\ Held(r.new) /\ ~HasX(place[r.old])
    /\ place[r.new] = AddTo(place[r.old], X, "data")
    /\ r.slot = Len(place[r.old].props) + 1
\* The hops it was recorded over let the add through.
Lets(f) == HasX(f) => KindIn(f) = "data"
HopsOK(r) ==
    /\ DOMAIN r.shapes = DOMAIN r.ptrs /\ Len(r.ptrs) \in {1, 2} /\ DOMAIN r.ptrs = 1..Len(r.ptrs)
    /\ \A i \in DOMAIN r.ptrs : Held(r.shapes[i])
    /\ r.ptrs[1].obj = P /\ Lets(place[r.shapes[1]])
    /\ Len(r.ptrs) = 1 => place[r.shapes[1]].proto = Null
    /\ Len(r.ptrs) = 2 => /\ r.ptrs[2].obj = Q /\ place[r.shapes[1]].proto = Q
                          /\ HasX(place[r.shapes[1]]) \/ Lets(place[r.shapes[2]])
PtrsOK(r) ==
    \A i \in DOMAIN r.ptrs : /\ r.ptrs[i].young = (r.ptrs[i].obj \in young)
                             /\ r.ptrs[i].young => rowsHoldNursery
TransOK(r) == r.old = 0 \/ (AddOK(r) /\ HopsOK(r) /\ PtrsOK(r))
InitOK(r) == r.old = 0 \/ AddOK(r)

RowsOK ==
    /\ DOMAIN ways = 1..Ways /\ \A w \in 1..Ways : GetRowOK(ways[w])
    /\ GetRowOK(mega) /\ ChainRowOK(gchain)
    /\ fam = "accessor" => AccessorOK(accessor)
    /\ SetRowOK(setWay) /\ SetRowOK(megaSet)
    /\ TransOK(trans) /\ InitOK(initRow)
    /\ setAdd.current => TransOK(setAdd)
    /\ initAdd.current => InitOK(initAdd)

\* The words of the cell are those of the chain above `this`, all of it.
CellOK ==
    cell.recv # Null =>
        /\ cell.recv = This
        /\ Len(Above(form, This)) <= InlineHops
        /\ \A h \in 1..InlineHops :
               IF h \in DOMAIN Above(form, This)
               THEN cell.words[h] \in Addrs /\ place[cell.words[h]] = form[Above(form, This)[h]] ELSE cell.words[h] = 0

\* The helper in its engine call.
Serves(F, o) == LET h == HolderIn(F, o, X) IN h # Null /\ KindIn(F[h]) \in Accessors
PendOK ==
    \/ pend = NoPend
    \/ /\ pend = [op |-> pend.op, o |-> pend.o, key |-> pend.key, user |-> pend.user, gc |-> pend.gc,
                  ran |-> pend.ran, before |-> pend.before, span |-> pend.span, want |-> pend.want]
       /\ pend.op \in {"get", "set"} /\ pend.o \in Recv /\ pend.key \in Keys
       /\ pend.user \in BOOLEAN /\ pend.gc \in BOOLEAN /\ pend.ran \in BOOLEAN
       /\ pend.user => Serves(form, pend.o)
       /\ pend.ran => pend.user
       /\ pend.op = "set" =>
             /\ Held(pend.before) /\ pend.span = Len(place[pend.before].props)
             /\ pend.want.do = "call" <=> pend.user
             /\ ~pend.user => place[pend.before] = form[pend.o] /\ pend.want = EngineSet(pend.o)

PropInv ==
    /\ fam \in Families
    /\ HeapOK /\ ChainOK /\ RowsOK /\ CellOK /\ PendOK
    /\ young \subseteq Protos
    /\ rowsHoldNursery \in BOOLEAN
    /\ amiss = {}

--------------------------------------------------------------------------
(* Shape words.                                                             *)

\* The objects are told apart, and no object is a mark.
LEMMA ObjsApart ==
    /\ P # Q /\ P \in Objs /\ Q \in Objs /\ P \in Protos /\ Q \in Protos /\ Recv \subseteq Objs /\ This \in Recv
    /\ Null \notin Objs /\ P # Null /\ Q # Null /\ "free" \notin Objs /\ "free" # Null
    /\ \A o \in Recv : o # P /\ o # Q /\ o # Null /\ o \notin Protos
BY PropAssumption DEF Objs, Protos, Null

\* An object's description is no free place.
LEMMA DescNotFree ==
    ASSUME NEW d \in Desc PROVE d # Free
BY ObjsApart, PropAssumption DEF Desc, Free, Objs, Protos, Null

\* An object's word is the one address of its description, and it is held.
LEMMA ShapeWord ==
    ASSUME HeapOK, NEW o \in Objs
    PROVE  /\ NightObjectShape(o) \in Addrs /\ place[NightObjectShape(o)] = form[o]
           /\ Held(NightObjectShape(o))
           /\ NightObjectShape(o) # 0 /\ NightObjectShape(o) # Poly
<1> DEFINE a == NightObjectShape(o)
<1>1. PICK b \in Addrs : place[b] = form[o] /\ b \notin gc.doomed
    BY DEF HeapOK, Tree
<1>2. a \in Addrs /\ place[a] = form[o]
    BY <1>1 DEF NightObjectShape
<1> HIDE DEF a
<1>3. form[o] \in Desc
    BY DEF HeapOK
<1>4. form[o] # Free
    BY <1>3, DescNotFree
<1>5. a = b
    BY <1>1, <1>2, <1>4 DEF HeapOK, Tree
<1>6. a # 0 /\ a # Poly
    BY <1>2 DEF Addrs, Poly
<1> QED
    BY <1>1, <1>2, <1>4, <1>5, <1>6 DEF Held, a

\* Two words for one description are one word.
LEMMA OneWord ==
    ASSUME HeapOK, NEW a \in Addrs, NEW o \in Objs, place[a] = form[o]
    PROVE  a = NightObjectShape(o)
<1>1. form[o] # Free
    BY DescNotFree DEF HeapOK
<1> QED
    BY <1>1, ShapeWord DEF HeapOK, Tree

\* A slot that is there is one of the properties.
LEMMA SlotThere ==
    ASSUME NEW f, HasX(f)
    PROVE  SlotOf(f, X) \in DOMAIN f.props /\ f.props[SlotOf(f, X)].n = X
BY DEF HasX, SlotOf

\* A description has a name exactly when one of its properties does.
LEMMA HasXIs ==
    ASSUME NEW f \in Desc
    PROVE  HasX(f) <=> \E i \in DOMAIN f.props : f.props[i].n = X
<1>1. f.props \in Seq(Prop)
    BY DEF Desc
<1>2. 0 \notin DOMAIN f.props
    BY <1>1
<1> QED
    BY <1>2 DEF HasX, SlotOf

--------------------------------------------------------------------------
(* The chain above a receiver, and what the engine does with it.            *)

\* A heap in which a receiver sits on its chain.
OnChain(F, o) == o \in Recv /\ F[o].proto = P /\ F[P].proto \in {Q, Null} /\ F[Q].proto = Null

\* The prototypes above a receiver, and its holder.
LEMMA ChainAbove ==
    ASSUME NEW F, NEW o, OnChain(F, o)
    PROVE  /\ F[P].proto = Q => Above(F, o) = <<P, Q>>
           /\ F[P].proto # Q => Above(F, o) = <<P>>
           /\ Len(Above(F, o)) \in {1, 2} /\ DOMAIN Above(F, o) = 1..Len(Above(F, o))
           /\ F[P].proto = Q <=> Len(Above(F, o)) = 2
<1>1. Up(F, o) = P /\ Up(F, P) = F[P].proto /\ P # Null /\ Q # Null
    BY ObjsApart DEF OnChain, Up
<1>2. CASE F[P].proto = Q
  <2>1. Above(F, o) = <<P, Q>>
    BY <1>1, <1>2 DEF Above
  <2> QED
    BY <2>1, <1>2
<1>3. CASE F[P].proto = Null
  <2>1. Above(F, o) = <<P>>
    BY <1>1, <1>3 DEF Above
  <2> QED
    BY <2>1, <1>3, <1>1
<1> QED
    BY <1>2, <1>3 DEF OnChain

\* The nearest object with X on a receiver's chain.
LEMMA ChainHolder ==
    ASSUME NEW F, NEW o, OnChain(F, o)
    PROVE  /\ HasX(F[o]) => HolderIn(F, o, X) = o
           /\ ~HasX(F[o]) /\ HasX(F[P]) => HolderIn(F, o, X) = P
           /\ ~HasX(F[o]) /\ ~HasX(F[P]) /\ F[P].proto = Q /\ HasX(F[Q]) => HolderIn(F, o, X) = Q
           /\ ~HasX(F[o]) /\ ~HasX(F[P]) /\ ~(F[P].proto = Q /\ HasX(F[Q])) => HolderIn(F, o, X) = Null
<1>1. Up(F, o) = P /\ Up(F, P) = F[P].proto /\ P # Null /\ Q # Null /\ o # Null
    BY ObjsApart DEF OnChain, Up
<1>2. /\ Holds(F, o, X) <=> HasX(F[o])
      /\ Holds(F, P, X) <=> HasX(F[P])
      /\ Holds(F, Q, X) <=> HasX(F[Q])
      /\ ~Holds(F, Null, X)
    BY <1>1 DEF Holds, HasX
<1>3. F[P].proto \in {Q, Null}
    BY DEF OnChain
<1> QED
    BY <1>1, <1>2, <1>3 DEF HolderIn

\* Every receiver is on its chain.
LEMMA RecvOnChain ==
    ASSUME ChainOK, NEW o \in Recv PROVE OnChain(form, o)
BY DEF ChainOK, OnChain

\* A receiver's own X is data.
LEMMA OwnIsData ==
    ASSUME ChainOK, NEW o \in Recv, HasX(form[o])
    PROVE  KindAt(o) = "data" /\ HolderOf(o) = o /\ KindAt(o) \notin Accessors
<1>1. KindAt(o) = "data"
    BY SlotThere DEF ChainOK, OnlyData, KindAt, KindIn
<1>2. HolderOf(o) = o
    BY RecvOnChain, ChainHolder DEF HolderOf
<1> QED
    BY <1>1, <1>2 DEF Accessors

\* The engine's read and write of a receiver's own X.
LEMMA EngineOwn ==
    ASSUME ChainOK, NEW o \in Recv, HasX(form[o])
    PROVE  /\ EngineGet(o) = Load(o, SlotOf(form[o], X))
           /\ EngineSet(o) = Store(o, SlotOf(form[o], X))
<1>1. KindAt(o) = "data" /\ HolderOf(o) = o /\ KindAt(o) \notin Accessors /\ o # Null
    BY OwnIsData, ObjsApart
<1>2. EngineDefine(o) = Store(o, SlotOf(form[o], X))
    BY DEF EngineDefine, HasX
<1> QED
    BY <1>1, <1>2 DEF EngineGet, EngineSet

\* Its read of an inherited one, data or accessor, and of none.
LEMMA EngineInherits ==
    ASSUME ChainOK, NEW o \in Recv, NEW h \in Protos, HolderOf(o) = h
    PROVE  /\ KindAt(h) \notin Accessors => EngineGet(o) = Load(h, SlotOf(form[h], X))
           /\ KindAt(h) \in Accessors => EngineGet(o) = Call(KindAt(h)) /\ EngineSet(o) = Call(KindAt(h))
<1>1. h # Null
    BY ObjsApart DEF Protos
<1> QED
    BY <1>1 DEF EngineGet, EngineSet

\* Its define of a name the receiver lacks adds the next slot, and so does
\* its write if no hop says otherwise.
LEMMA EngineAdds ==
    ASSUME ChainOK, NEW o \in Recv, ~HasX(form[o])
    PROVE  /\ EngineDefine(o) = Adds(o, Len(form[o].props) + 1)
           /\ HolderOf(o) = Null \/ KindAt(HolderOf(o)) = "data" => EngineSet(o) = Adds(o, Len(form[o].props) + 1)
<1>1. EngineDefine(o) = Adds(o, Len(form[o].props) + 1)
    BY DEF EngineDefine, HasX
<1> QED
    BY <1>1 DEF EngineSet, Accessors

--------------------------------------------------------------------------
(* A row that holds does what the engine does.                              *)

\* A matched get row: the receiver has the row's description, and the holder
\* has its own.
LEMMA GetRowServes ==
    ASSUME HeapOK, ChainOK, NEW o \in Recv, NEW r, GetRowOK(r),
           r.shape = NightObjectShape(o),
           r.holder = Null \/ NightObjectShape(r.holder) = r.holderShape
    PROVE  RowLoad(r, o) = EngineGet(o)
<1>0. o \in Objs
    BY ObjsApart
<1>1. r.shape # 0 /\ place[r.shape] = form[o]
    BY <1>0, ShapeWord
<1>2. CASE r.holder = Null
  <2>1. r.holder \notin Protos
    BY <1>2, ObjsApart DEF Protos
  <2>2. HasX(place[r.shape]) /\ r.slot = SlotOf(place[r.shape], X)
    BY <1>1, <2>1 DEF GetRowOK
  <2>3. RowLoad(r, o) = Load(o, SlotOf(form[o], X))
    BY <1>1, <1>2, <2>2 DEF RowLoad, RowBase
  <2> QED
    BY <1>1, <2>2, <2>3, EngineOwn
<1>3. CASE r.holder # Null
  <2> DEFINE H == place[r.holderShape]
  <2>1. /\ r.holder \in Protos /\ ~HasX(form[o])
        /\ HasX(H) /\ KindIn(H) \notin Accessors /\ r.slot = SlotOf(H, X)
        /\ r.holder = Q => ~H.inv /\ Watched(H)
    BY <1>1, <1>3 DEF GetRowOK
  <2>2. r.holder \in Objs
    BY <2>1 DEF Objs
  <2>3. H = form[r.holder]
    BY <2>2, <1>3, ShapeWord
  <2> HIDE DEF H
  <2>4. HolderOf(o) = r.holder
    <3>1. CASE r.holder = P
      BY <3>1, <2>1, <2>3, RecvOnChain, ChainHolder DEF HolderOf
    <3>2. CASE r.holder = Q
      <4>1. Reaches(form[P], form[Q])
        BY <3>2, <2>1, <2>3 DEF Watched
      <4> QED
        BY <4>1, <3>2, <2>1, RecvOnChain, ChainHolder DEF HolderOf, Reaches
    <3> QED
      BY <3>1, <3>2, <2>1 DEF Protos
  <2>5. EngineGet(o) = Load(r.holder, SlotOf(form[r.holder], X))
    BY <2>1, <2>3, <2>4, EngineInherits DEF KindAt
  <2>6. RowLoad(r, o) = Load(r.holder, r.slot)
    BY <1>3 DEF RowLoad, RowBase
  <2> QED
    BY <2>1, <2>3, <2>5, <2>6
<1> QED
    BY <1>2, <1>3

\* A guarded chain all of whose hops have their words.
LEMMA ChainServesRight ==
    ASSUME HeapOK, ChainOK, NEW o \in Recv, ChainRowOK(gchain), ChainHolds(o)
    PROVE  ChainServes(o) = EngineGet(o)
<1> DEFINE r == gchain
           n == Len(r.ptrs)
           l == place[r.shapes[n]]
<1>0. o \in Objs /\ P \in Objs /\ Q \in Objs /\ P # Q
    BY ObjsApart
<1>1. r.shape = NightObjectShape(o) /\ \A h \in DOMAIN r.ptrs : NightObjectShape(r.ptrs[h]) = r.shapes[h]
    BY DEF ChainHolds
<1>2. r.shape # 0 /\ place[r.shape] = form[o]
    BY <1>0, <1>1, ShapeWord
<1>3. /\ ~HasX(form[o])
      /\ r.ptrs \in {<<P>>, <<P, Q>>}
      /\ r.ptrs = <<P, Q>> => place[r.shapes[1]].proto = Q /\ ~HasX(place[r.shapes[1]])
      /\ IF r.slot = 0 THEN ~HasX(l) /\ l.proto = Null
         ELSE HasX(l) /\ KindIn(l) \notin Accessors /\ r.slot = SlotOf(l, X)
    BY <1>2 DEF ChainRowOK
<1>4. OnChain(form, o)
    BY RecvOnChain
<1>5. CASE r.ptrs = <<P>>
  <2>1. n = 1 /\ DOMAIN r.ptrs = {1} /\ r.ptrs[1] = P /\ Last(r.ptrs) = P
    BY <1>5 DEF Last
  <2>2. l = form[P]
    BY <2>1, <1>0, <1>1, ShapeWord
  <2>3. CASE r.slot = 0
    <3>1. ~HasX(form[P]) /\ form[P].proto = Null
      BY <2>2, <2>3, <1>3
    <3>2. HolderOf(o) = Null
      BY <3>1, <1>3, <1>4, ChainHolder, ObjsApart DEF HolderOf
    <3> QED
      BY <3>2, <2>3 DEF EngineGet, ChainServes
  <2>4. CASE r.slot # 0
    <3>1. HasX(form[P]) /\ KindIn(form[P]) \notin Accessors /\ r.slot = SlotOf(form[P], X)
      BY <2>2, <2>4, <1>3
    <3>2. HolderOf(o) = P
      BY <3>1, <1>3, <1>4, ChainHolder DEF HolderOf
    <3>3. EngineGet(o) = Load(P, SlotOf(form[P], X))
      BY <3>1, <3>2, EngineInherits, ObjsApart DEF KindAt
    <3> QED
      BY <3>1, <3>3, <2>1, <2>4 DEF ChainServes
  <2> QED
    BY <2>3, <2>4
<1>6. CASE r.ptrs = <<P, Q>>
  <2>1. n = 2 /\ DOMAIN r.ptrs = {1, 2} /\ r.ptrs[1] = P /\ r.ptrs[2] = Q /\ Last(r.ptrs) = Q
    BY <1>6 DEF Last
  <2>2. l = form[Q] /\ place[r.shapes[1]] = form[P]
    BY <2>1, <1>0, <1>1, ShapeWord
  <2>3. form[P].proto = Q /\ ~HasX(form[P])
    BY <2>2, <1>3, <1>6
  <2>4. CASE r.slot = 0
    <3>1. ~HasX(form[Q])
      BY <2>2, <2>4, <1>3
    <3>2. HolderOf(o) = Null
      BY <3>1, <2>3, <1>3, <1>4, ChainHolder DEF HolderOf
    <3> QED
      BY <3>2, <2>4 DEF EngineGet, ChainServes
  <2>5. CASE r.slot # 0
    <3>1. HasX(form[Q]) /\ KindIn(form[Q]) \notin Accessors /\ r.slot = SlotOf(form[Q], X)
      BY <2>2, <2>5, <1>3
    <3>2. HolderOf(o) = Q
      BY <3>1, <2>3, <1>3, <1>4, ChainHolder DEF HolderOf
    <3>3. EngineGet(o) = Load(Q, SlotOf(form[Q], X))
      BY <3>1, <3>2, EngineInherits, ObjsApart DEF KindAt
    <3> QED
      BY <3>1, <3>3, <2>1, <2>5 DEF ChainServes
  <2> QED
    BY <2>4, <2>5
<1> QED
    BY <1>3, <1>5, <1>6

\* A matched accessor row.
LEMMA AccessorServes ==
    ASSUME HeapOK, ChainOK, NEW o \in Recv, AccessorOK(accessor),
           accessor.shape = NightObjectShape(o), NightObjectShape(accessor.holder) = accessor.holderShape
    PROVE  EngineGet(o) = Call(accessor.callee) /\ EngineSet(o) = Call(accessor.callee)
<1> DEFINE r == accessor
           H == place[r.holderShape]
<1>1. o \in Objs /\ r.shape # 0 /\ place[r.shape] = form[o]
    BY ShapeWord, ObjsApart
<1>2. /\ r.holder \in Protos /\ ~HasX(form[o])
      /\ HasX(H) /\ KindIn(H) = r.callee /\ r.callee \in Accessors
      /\ r.holder = Q => Watched(H)
    BY <1>1 DEF AccessorOK
<1>3. H = form[r.holder]
    BY <1>2, ShapeWord DEF Objs
<1> HIDE DEF H
<1>4. HolderOf(o) = r.holder
  <2>1. CASE r.holder = P
    BY <2>1, <1>2, <1>3, RecvOnChain, ChainHolder DEF HolderOf
  <2>2. CASE r.holder = Q
    <3>1. Reaches(form[P], form[Q])
      BY <2>2, <1>2, <1>3 DEF Watched
    <3> QED
      BY <3>1, <2>2, <1>2, RecvOnChain, ChainHolder DEF HolderOf, Reaches
  <2> QED
    BY <2>1, <2>2, <1>2 DEF Protos
<1> QED
    BY <1>2, <1>3, <1>4, EngineInherits DEF KindAt

\* A matched set row.
LEMMA SetRowServes ==
    ASSUME HeapOK, ChainOK, NEW o \in Recv, NEW r, SetRowOK(r), r.shape = NightObjectShape(o)
    PROVE  Store(o, r.slot) = EngineSet(o)
<1>1. o \in Objs /\ r.shape # 0 /\ r.shape # Poly /\ place[r.shape] = form[o]
    BY ShapeWord, ObjsApart
<1>2. HasX(form[o]) /\ r.slot = SlotOf(form[o], X)
    BY <1>1 DEF SetRowOK
<1> QED
    BY <1>2, EngineOwn

\* A matched add: what it installs is the receiver's description with X, at
\* the slot the define takes.
LEMMA AddServes ==
    ASSUME HeapOK, ChainOK, NEW o \in Recv, NEW r, AddOK(r), r.old = NightObjectShape(o)
    PROVE  /\ Replayed(r, o) = Adds(o, Len(form[o].props) + 1)
           /\ EngineDefine(o) = Adds(o, Len(form[o].props) + 1)
           /\ ~HasX(form[o]) /\ place[r.new] = AddTo(form[o], X, "data")
<1>1. o \in Objs /\ place[r.old] = form[o]
    BY ShapeWord, ObjsApart
<1>2. ~HasX(form[o]) /\ place[r.new] = AddTo(form[o], X, "data") /\ r.slot = Len(form[o].props) + 1
    BY <1>1 DEF AddOK
<1>3. Replayed(r, o) = Adds(o, Len(form[o].props) + 1)
    BY <1>2 DEF Replayed
<1> QED
    BY <1>2, <1>3, EngineAdds

\* The hops of an add let it through while they are as they were.
LEMMA HopsLet ==
    ASSUME HeapOK, ChainOK, NEW o \in Recv, NEW r, AddOK(r), HopsOK(r), r.old = NightObjectShape(o),
           place[r.shapes[1]] = form[P],
           form[P].proto = Q => place[r.shapes[2]] = form[Q]
    PROVE  Replayed(r, o) = EngineSet(o)
<1>1. ~HasX(form[o]) /\ Replayed(r, o) = Adds(o, Len(form[o].props) + 1)
    BY AddServes
<1>2. OnChain(form, o)
    BY RecvOnChain
<1>3. Lets(form[P])
    BY DEF HopsOK
<1>4. form[P].proto = Q => HasX(form[P]) \/ Lets(form[Q])
    BY ObjsApart DEF HopsOK
<1>5. HolderOf(o) = Null \/ KindAt(HolderOf(o)) = "data"
  <2>1. CASE HasX(form[P])
    BY <2>1, <1>1, <1>2, <1>3, ChainHolder DEF HolderOf, Lets, KindAt
  <2>2. CASE ~HasX(form[P]) /\ form[P].proto = Q /\ HasX(form[Q])
    BY <2>2, <1>1, <1>2, <1>4, ChainHolder DEF HolderOf, Lets, KindAt
  <2>3. CASE ~HasX(form[P]) /\ ~(form[P].proto = Q /\ HasX(form[Q]))
    BY <2>3, <1>1, <1>2, ChainHolder DEF HolderOf
  <2> QED
    BY <2>1, <2>2, <2>3
<1> QED
    BY <1>1, <1>5, EngineAdds

\* The guards in line read live words: no pointer of the row is to a vacated
\* nursery address.
LEMMA GuardsMatch ==
    ASSUME HeapOK, ChainOK, TransOK(trans), trans.old # 0, TransGuards
    PROVE  /\ place[trans.shapes[1]] = form[P]
           /\ form[P].proto = Q => place[trans.shapes[2]] = form[Q]
<1> DEFINE r == trans
<1>1. HopsOK(r) /\ PtrsOK(r)
    BY DEF TransOK
<1>2. \A h \in DOMAIN r.ptrs : ShapeAt(r.ptrs[h]) = NightObjectShape(r.ptrs[h].obj)
    BY <1>1 DEF PtrsOK, ShapeAt
<1>3. \A h \in DOMAIN r.ptrs : h <= InlineHops
    BY <1>1, PropAssumption DEF HopsOK, TransGuards
<1>4. \A h \in DOMAIN r.ptrs : NightObjectShape(r.ptrs[h].obj) = r.shapes[h]
    BY <1>2, <1>3 DEF TransGuards
<1>5. 1 \in DOMAIN r.ptrs /\ r.ptrs[1].obj = P /\ (Len(r.ptrs) = 2 => 2 \in DOMAIN r.ptrs /\ r.ptrs[2].obj = Q)
    BY <1>1 DEF HopsOK
<1>6. place[r.shapes[1]] = form[P]
    BY <1>4, <1>5, ShapeWord, ObjsApart
<1>7. ASSUME form[P].proto = Q PROVE place[r.shapes[2]] = form[Q]
  <2>1. Len(r.ptrs) = 2
    BY <1>1, <1>6, <1>7, ObjsApart DEF HopsOK
  <2> QED
    BY <2>1, <1>4, <1>5, ShapeWord, ObjsApart
<1> QED
    BY <1>6, <1>7

\* The cell's words are the chain's, so a row with the same words has the
\* same hops.
LEMMA CellMatches ==
    ASSUME HeapOK, ChainOK, TransOK(trans), trans.old # 0, CellOK, NEW o \in Recv, CellProves(o)
    PROVE  /\ place[trans.shapes[1]] = form[P]
           /\ form[P].proto = Q => place[trans.shapes[2]] = form[Q]
<1> DEFINE r == trans
           up == Above(form, This)
<1>0. o = This /\ cell.recv # Null
    BY ObjsApart DEF CellProves
<1>1. HopsOK(r)
    BY DEF TransOK
<1>2. /\ Len(up) <= InlineHops
      /\ \A h \in 1..InlineHops : IF h \in DOMAIN up THEN cell.words[h] \in Addrs /\ place[cell.words[h]] = form[up[h]]
                                  ELSE cell.words[h] = 0
    BY <1>0 DEF CellOK
<1>3. \A h \in 1..InlineHops : cell.words[h] = IF h \in DOMAIN r.shapes THEN r.shapes[h] ELSE 0
    BY DEF CellProves, TransWords
<1>4. OnChain(form, This)
    BY RecvOnChain, ObjsApart
<1>5. 1 \in 1..InlineHops /\ 1 \in DOMAIN up /\ up[1] = P
    BY <1>2, <1>4, ChainAbove, PropAssumption
<1>6. 1 \in DOMAIN r.shapes
    BY <1>1 DEF HopsOK
<1>7. place[r.shapes[1]] = form[P]
    BY <1>2, <1>3, <1>5, <1>6
<1>8. ASSUME form[P].proto = Q PROVE place[r.shapes[2]] = form[Q]
  <2>1. up = <<P, Q>>
    BY <1>4, <1>8, ChainAbove
  <2>2. 2 \in 1..InlineHops /\ 2 \in DOMAIN up /\ up[2] = Q
    BY <2>1, <1>2, PropAssumption
  <2>3. 2 \in DOMAIN r.shapes
    BY <1>1, <1>7, <1>8, ObjsApart DEF HopsOK
  <2> QED
    BY <2>2, <2>3, <1>2, <1>3
<1> QED
    BY <1>7, <1>8

\* The helper compares every hop itself.
LEMMA HelperMatches ==
    ASSUME HeapOK, ChainOK, NEW o \in Recv, NEW r, NightTryAddPropTransition(r, o)
    PROVE  /\ place[r.shapes[1]] = form[P]
           /\ form[P].proto = Q => place[r.shapes[2]] = form[Q]
<1> DEFINE up == Above(form, o)
<1>1. \A h \in DOMAIN up : NightObjectShape(up[h]) = r.shapes[h]
    BY DEF NightTryAddPropTransition
<1>2. OnChain(form, o)
    BY RecvOnChain
<1>3. 1 \in DOMAIN up /\ up[1] = P
    BY <1>2, ChainAbove
<1>4. place[r.shapes[1]] = form[P]
    BY <1>1, <1>3, ShapeWord, ObjsApart
<1>5. ASSUME form[P].proto = Q PROVE place[r.shapes[2]] = form[Q]
  <2>1. up = <<P, Q>>
    BY <1>2, <1>5, ChainAbove
  <2>2. 2 \in DOMAIN up /\ up[2] = Q
    BY <2>1
  <2> QED
    BY <2>2, <1>1, ShapeWord, ObjsApart
<1> QED
    BY <1>4, <1>5

--------------------------------------------------------------------------
(* What a fill records holds.                                               *)

\* The hops a fill records: P, or P and Q.
LEMMA HopsAre ==
    ASSUME HeapOK, ChainOK, NEW o \in Recv
    PROVE  /\ HolderOf(o) = P \/ form[P].proto # Q => Hops(o) = <<P>>
           /\ HolderOf(o) # P /\ form[P].proto = Q => Hops(o) = <<P, Q>>
<1>1. OnChain(form, o)
    BY RecvOnChain
<1>2. CASE form[P].proto = Q
  <2>1. Above(form, o) = <<P, Q>>
    BY <1>1, <1>2, ChainAbove
  <2>2. <<P, Q>> # <<>> /\ <<P, Q>>[1] = P
    OBVIOUS
  <2> QED
    BY <2>1, <2>2, <1>2 DEF Hops
<1>3. CASE form[P].proto # Q
  <2>1. Above(form, o) = <<P>>
    BY <1>1, <1>3, ChainAbove
  <2>2. <<P>> # <<>> /\ <<P>>[1] = P
    OBVIOUS
  <2> QED
    BY <2>1, <2>2, <1>3 DEF Hops
<1> QED
    BY <1>2, <1>3

\* The holder of a receiver: itself, or one of the prototypes below which
\* nothing has the name.
LEMMA HolderCases ==
    ASSUME ChainOK, NEW o \in Recv
    PROVE  \/ HolderOf(o) = o /\ HasX(form[o])
           \/ HolderOf(o) = P /\ ~HasX(form[o]) /\ HasX(form[P])
           \/ HolderOf(o) = Q /\ ~HasX(form[o]) /\ Reaches(form[P], form[Q])
           \/ HolderOf(o) = Null /\ ~HasX(form[o]) /\ ~HasX(form[P]) /\ ~(form[P].proto = Q /\ HasX(form[Q]))
BY RecvOnChain, ChainHolder DEF HolderOf, Reaches

\* A get row.
LEMMA GetRowFilled ==
    ASSUME HeapOK, ChainOK, NEW o \in Recv, NightPopulateInlineGetIC(o)
    PROVE  GetRowOK(GetRow(o, HolderOf(o)))
<1> DEFINE h == HolderOf(o)
           r == GetRow(o, h)
<1>0. h # Null /\ KindAt(h) \notin Accessors
      /\ (h # o => \A i \in DOMAIN Hops(o) : ~form[Hops(o)[i]].inv)
    BY DEF NightPopulateInlineGetIC
<1>1. o \in Objs /\ P \in Objs /\ Q \in Objs /\ o # P /\ o # Q /\ P # Q
    BY ObjsApart
<1>2. (h = o /\ HasX(form[o])) \/ (h = P /\ ~HasX(form[o]) /\ HasX(form[P]))
      \/ (h = Q /\ ~HasX(form[o]) /\ Reaches(form[P], form[Q]))
    BY <1>0, HolderCases
<1>3. h \in Objs
    BY <1>1, <1>2
<1> HIDE DEF h
<1>4. /\ r.shape = NightObjectShape(o) /\ r.holderShape = NightObjectShape(h)
      /\ r.holder = (IF h = o THEN Null ELSE h) /\ r.slot = SlotOf(form[h], X)
    BY DEF GetRow
<1> SUFFICES GetRowOK(r)
    BY DEF h
<1> HIDE DEF r
<1>5. /\ Held(r.shape) /\ Held(r.holderShape) /\ place[r.shape] = form[o] /\ place[r.holderShape] = form[h]
    BY <1>1, <1>3, <1>4, ShapeWord
<1>6. CASE h = o
    BY <1>2, <1>1, <1>4, <1>5, <1>6 DEF GetRowOK
<1>7. CASE h = P
    BY <1>0, <1>1, <1>2, <1>4, <1>5, <1>7, ObjsApart DEF GetRowOK, KindAt
<1>8. CASE h = Q
  <2>1. form[P].proto = Q /\ Reaches(form[P], form[Q]) /\ HasX(form[Q]) /\ ~HasX(form[o])
    BY <1>8, <1>1, <1>2 DEF Reaches
  <2>2. Hops(o) = <<P, Q>>
    BY <2>1, <1>1, <1>8, HopsAre DEF h
  <2>3. ~form[Q].inv
    <3>1. 2 \in DOMAIN <<P, Q>> /\ <<P, Q>>[2] = Q
      OBVIOUS
    <3> QED
      BY <3>1, <2>2, <1>0, <1>1, <1>8
  <2>4. Watched(form[Q])
    BY <2>1 DEF Watched
  <2> QED
    BY <2>1, <2>3, <2>4, <1>0, <1>1, <1>4, <1>5, <1>8, ObjsApart DEF GetRowOK, KindAt
<1> QED
    BY <1>2, <1>6, <1>7, <1>8

\* An accessor row.
LEMMA AccessorFilled ==
    ASSUME HeapOK, ChainOK, NEW o \in Recv, NightPrimeAccessor(o), NEW kind
    PROVE  AccessorOK(AccessorRow(o, kind))
<1> DEFINE h == HolderOf(o)
           r == AccessorRow(o, kind)
<1>0. h # Null /\ KindAt(h) \in Accessors
    BY DEF NightPrimeAccessor
<1>1. o \in Objs /\ P \in Objs /\ Q \in Objs /\ o # P /\ o # Q /\ P # Q /\ P \in Protos /\ Q \in Protos
    BY ObjsApart
<1>2. (h = P /\ ~HasX(form[o]) /\ HasX(form[P]))
      \/ (h = Q /\ ~HasX(form[o]) /\ Reaches(form[P], form[Q]))
    BY <1>0, HolderCases, OwnIsData
<1>3. h \in Protos /\ h \in Objs /\ ~HasX(form[o]) /\ HasX(form[h]) /\ (h = Q => Reaches(form[P], form[Q]))
    BY <1>1, <1>2 DEF Reaches
<1>4. /\ r.shape = NightObjectShape(o) /\ r.holderShape = NightObjectShape(h)
      /\ r.holder = h /\ r.callee = KindAt(h)
    BY DEF AccessorRow
<1> HIDE DEF h, r
<1>5. Held(r.shape) /\ Held(r.holderShape) /\ place[r.shape] = form[o] /\ place[r.holderShape] = form[h]
    BY <1>1, <1>3, <1>4, ShapeWord
<1>6. h = Q => Watched(form[Q])
    BY <1>3 DEF Watched
<1> QED
    BY <1>0, <1>3, <1>4, <1>5, <1>6 DEF AccessorOK, KindAt, r

\* A guarded chain.
LEMMA ChainFilled ==
    ASSUME HeapOK, ChainOK, NEW o \in Recv, NightPopulateGuardedChain(o)
    PROVE  ChainRowOK(ChainRow(o))
<1> DEFINE h == HolderOf(o)
           r == ChainRow(o)
<1>0. h # o /\ (h # Null => KindAt(h) \notin Accessors)
    BY DEF NightPopulateGuardedChain
<1>1. o \in Objs /\ P \in Objs /\ Q \in Objs /\ o # P /\ o # Q /\ P # Q /\ P # Null /\ Q # Null
    BY ObjsApart
<1>2. \/ (h = P /\ ~HasX(form[o]) /\ HasX(form[P]))
      \/ (h = Q /\ ~HasX(form[o]) /\ Reaches(form[P], form[Q]))
      \/ (h = Null /\ ~HasX(form[o]) /\ ~HasX(form[P]) /\ ~(form[P].proto = Q /\ HasX(form[Q])))
    BY <1>0, HolderCases
<1>3. /\ r.shape = NightObjectShape(o) /\ r.ptrs = Hops(o)
      /\ r.shapes = [i \in DOMAIN Hops(o) |-> NightObjectShape(Hops(o)[i])]
      /\ r.slot = IF h = Null THEN 0 ELSE SlotOf(form[h], X)
    BY DEF ChainRow
<1>4. /\ h = P \/ form[P].proto # Q => Hops(o) = <<P>>
      /\ h # P /\ form[P].proto = Q => Hops(o) = <<P, Q>>
    BY HopsAre
<1>5. form[P].proto \in {Q, Null} /\ form[Q].proto = Null
    BY DEF ChainOK
<1> HIDE DEF h, r
<1>6. Held(r.shape) /\ place[r.shape] = form[o] /\ ~HasX(form[o])
    BY <1>1, <1>2, <1>3, ShapeWord
<1>7. CASE Hops(o) = <<P>>
  <2>1. r.ptrs = <<P>> /\ DOMAIN r.ptrs = {1} /\ Len(r.ptrs) = 1 /\ r.shapes[1] = NightObjectShape(P) /\ DOMAIN r.shapes = {1}
    BY <1>3, <1>7
  <2>2. Held(r.shapes[1]) /\ place[r.shapes[1]] = form[P]
    BY <2>1, <1>1, ShapeWord
  <2>3. <<P>> # <<P, Q>>
    OBVIOUS
  <2>4. IF r.slot = 0 THEN ~HasX(form[P]) /\ form[P].proto = Null
        ELSE HasX(form[P]) /\ KindIn(form[P]) \notin Accessors /\ r.slot = SlotOf(form[P], X)
    <3>1. CASE h = P
      BY <3>1, <1>0, <1>1, <1>2, <1>3 DEF KindAt, HasX
    <3>2. CASE h # P
      <4>1. form[P].proto # Q
        BY <3>2, <1>4, <1>7, <2>3
      <4>2. h = Null /\ ~HasX(form[P]) /\ r.slot = 0
        BY <4>1, <3>2, <1>2, <1>3 DEF Reaches
      <4> QED
        BY <4>1, <4>2, <1>5
    <3> QED
      BY <3>1, <3>2
  <2> QED
    BY <2>1, <2>2, <2>3, <2>4, <1>6 DEF ChainRowOK, r
<1>8. CASE Hops(o) = <<P, Q>>
  <2>1. r.ptrs = <<P, Q>> /\ DOMAIN r.ptrs = {1, 2} /\ Len(r.ptrs) = 2 /\ r.shapes[1] = NightObjectShape(P)
        /\ r.shapes[2] = NightObjectShape(Q) /\ DOMAIN r.shapes = {1, 2}
    BY <1>3, <1>8
  <2>2. Held(r.shapes[1]) /\ place[r.shapes[1]] = form[P] /\ Held(r.shapes[2]) /\ place[r.shapes[2]] = form[Q]
    BY <2>1, <1>1, ShapeWord
  <2>3. form[P].proto = Q /\ h # P
    <3>1. <<P>> # <<P, Q>>
      OBVIOUS
    <3> QED
      BY <3>1, <1>4, <1>8
  <2>4. ~HasX(form[P])
    BY <2>3, <1>2 DEF Reaches
  <2>5. IF r.slot = 0 THEN ~HasX(form[Q]) /\ form[Q].proto = Null
        ELSE HasX(form[Q]) /\ KindIn(form[Q]) \notin Accessors /\ r.slot = SlotOf(form[Q], X)
    <3>1. CASE h = Q
      BY <3>1, <1>0, <1>1, <1>2, <1>3 DEF KindAt, HasX, Reaches
    <3>2. CASE h = Null
      BY <3>2, <2>3, <1>1, <1>2, <1>3, <1>5
    <3> QED
      BY <3>1, <3>2, <2>3, <1>2
  <2> QED
    BY <2>1, <2>2, <2>3, <2>4, <2>5, <1>6 DEF ChainRowOK, r
<1> QED
    BY <1>4, <1>7, <1>8

--------------------------------------------------------------------------
(* A change of shape.                                                       *)

\* A tree with no description twice.
Apart(pl) == pl \in [Addrs -> Desc \cup {Free}] /\ \A a, b \in Addrs : pl[a] # Free /\ pl[a] = pl[b] => a = b

\* Giving a description a home disturbs no other.
LEMMA HomeGiven ==
    ASSUME NEW pl, Apart(pl), NEW f \in Desc, NEW pl2 \in Homes(pl, f)
    PROVE  /\ Apart(pl2)
           /\ \A a \in Addrs : pl[a] # Free => pl2[a] = pl[a]
           /\ \A a \in Addrs : pl2[a] = pl[a] \/ pl2[a] = f
           /\ \E a \in Addrs : pl2[a] = f
<1>1. CASE \E a \in Addrs : pl[a] = f
  <2>1. pl2 = pl
    BY <1>1 DEF Homes
  <2> QED
    BY <2>1, <1>1
<1>2. CASE ~\E a \in Addrs : pl[a] = f
  <2>1. PICK h \in Addrs : pl[h] = Free /\ pl2 = [pl EXCEPT ![h] = f]
    BY <1>2 DEF Homes
  <2>2. pl \in [Addrs -> Desc \cup {Free}]
    BY DEF Apart
  <2>3. pl2[h] = f /\ \A a \in Addrs : a # h => pl2[a] = pl[a]
    BY <2>1, <2>2
  <2>4. pl2 \in [Addrs -> Desc \cup {Free}]
    BY <2>1, <2>2
  <2>5. ASSUME NEW a \in Addrs, NEW b \in Addrs, pl2[a] # Free, pl2[a] = pl2[b] PROVE a = b
    BY <2>3, <2>5, <1>2 DEF Apart
  <2>6. Apart(pl2)
    BY <2>4, <2>5 DEF Apart
  <2> QED
    BY <2>1, <2>3, <2>6
<1> QED
    BY <1>1, <1>2

\* What a row holds stays what it is.
Stays == \A a \in Addrs : Held(a) => Held(a)' /\ place'[a] = place[a]

\* A change of o's description, and perhaps of Q's.
LEMMA ReformKeeps ==
    ASSUME HeapOK, NEW o \in Objs, NEW F2 \in [Objs -> Desc],
           \A x \in Objs : x # o /\ x # Q => F2[x] = form[x],
           Reform(F2, o), heapOps' \in Nat, heapOps <= heapOps',
           F2[o].uid <= heapOps', F2[Q].uid <= heapOps'
    PROVE  HeapOK' /\ form' = F2 /\ Stays
<1> DEFINE R == {F2[x] : x \in Objs}
           D == {a \in gc.doomed : place[a] \notin R}
<1>0. form' = F2 /\ Q \in Objs
    BY ObjsApart DEF Reform
<1>1. PICK pl \in Homes(place, F2[o]) : place' \in Homes(pl, F2[Q])
    BY DEF Reform
<1>2. Apart(place)
    BY DEF HeapOK, Tree, Apart
<1>3. F2[o] \in Desc /\ F2[Q] \in Desc
    BY <1>0
<1>4. /\ Apart(pl)
      /\ \A a \in Addrs : place[a] # Free => pl[a] = place[a]
      /\ \A a \in Addrs : pl[a] = place[a] \/ pl[a] = F2[o]
      /\ \E a \in Addrs : pl[a] = F2[o]
    BY <1>1, <1>2, <1>3, HomeGiven
<1>5. /\ Apart(place')
      /\ \A a \in Addrs : pl[a] # Free => place'[a] = pl[a]
      /\ \A a \in Addrs : place'[a] = pl[a] \/ place'[a] = F2[Q]
      /\ \E a \in Addrs : place'[a] = F2[Q]
    BY <1>1, <1>3, <1>4, HomeGiven
<1>6. \A a \in Addrs : place[a] # Free => place'[a] = place[a]
    BY <1>4, <1>5
<1>7. gc' \in [on : BOOLEAN, shrink : BOOLEAN, doomed : SUBSET Addrs, cycles : Nat] /\ gc'.doomed = D
  <2>1. gc \in [on : BOOLEAN, shrink : BOOLEAN, doomed : SUBSET Addrs, cycles : Nat]
    BY DEF HeapOK
  <2>2. gc' = [gc EXCEPT !.doomed = D]
    BY DEF Reform
  <2>3. D \in SUBSET Addrs
    BY <2>1
  <2> HIDE DEF D
  <2> QED
    BY <2>1, <2>2, <2>3
<1>8. D \subseteq gc.doomed /\ \A a \in D : place[a] \notin R
    OBVIOUS
<1>9. \A x \in Objs : F2[x] \in R /\ F2[x] \in Desc
    OBVIOUS
<1> HIDE DEF R, D
<1>10. \A a \in gc.doomed : a \in Addrs /\ place[a] # Free
    BY DEF HeapOK, Tree
<1>11. ASSUME NEW x \in Objs PROVE \E a \in Addrs : place'[a] = F2[x]
  <2>1. CASE x = Q
    BY <2>1, <1>5
  <2>2. CASE x = o
    <3>1. PICK a \in Addrs : pl[a] = F2[o]
      BY <1>4
    <3>2. pl[a] # Free
      BY <3>1, <1>3, DescNotFree
    <3> QED
      BY <3>1, <3>2, <1>5, <2>2
  <2>3. CASE x # o /\ x # Q
    <3>1. F2[x] = form[x]
      BY <2>3
    <3>2. PICK a \in Addrs : place[a] = form[x]
      BY DEF HeapOK, Tree
    <3>3. place[a] # Free
      BY <3>1, <3>2, <1>9, DescNotFree
    <3> QED
      BY <3>1, <3>2, <3>3, <1>6
  <2> QED
    BY <2>1, <2>2, <2>3
<1>12. ASSUME NEW a \in Addrs, place'[a] \in R PROVE a \notin D
    BY <1>6, <1>8, <1>10, <1>12
<1>13. \A x \in Objs : \E a \in Addrs : place'[a] = F2[x] /\ a \notin D
    BY <1>9, <1>11, <1>12
<1>14. \A a \in D : a \in Addrs /\ place'[a] # Free
    BY <1>6, <1>8, <1>10
<1>15. Tree(place', form', gc'.doomed)
    BY <1>0, <1>5, <1>7, <1>13, <1>14 DEF Tree, Apart
<1>16. ASSUME NEW a \in Addrs PROVE place'[a].uid <= heapOps'
  <2>1. CASE place'[a] = place[a]
    <3>1. place[a].uid <= heapOps /\ place[a] \in Desc \cup {Free} /\ heapOps \in Nat
      BY DEF HeapOK
    <3>2. place[a].uid \in Nat
      BY <3>1 DEF Desc, Free
    <3> QED
      BY <2>1, <3>1, <3>2
  <2>2. CASE place'[a] = F2[o] \/ place'[a] = F2[Q]
    BY <2>2
  <2> QED
    BY <2>1, <2>2, <1>4, <1>5
<1>17. HeapOK'
    BY <1>0, <1>5, <1>7, <1>15, <1>16 DEF HeapOK, Apart
<1>18. Stays
    BY <1>6, <1>7, <1>8 DEF Stays, Held
<1> QED
    BY <1>0, <1>17, <1>18

\* A heap that does not change.
LEMMA SameHeap ==
    ASSUME HeapOK, UNCHANGED <<form, place, gc, heapOps>>
    PROVE  HeapOK' /\ Stays
BY DEF HeapOK, Tree, Stays, Held

--------------------------------------------------------------------------
(* Rows that are not touched hold on.                                       *)

\* What is said of Q's descriptions stays true.
WatchStays ==
    \A a \in Addrs : Held(a) /\ (~place[a].inv \/ fam = "accessor") /\ Watched(place[a]) => Watched(place[a])'

\* A get row: its words keep their descriptions, and Q's stays watched.
LEMMA GetRowStays ==
    ASSUME NEW r, Stays, WatchStays, GetRowOK(r)
    PROVE  GetRowOK(r)'
<1>1. CASE r.shape = 0
    BY <1>1 DEF GetRowOK
<1>2. CASE r.shape # 0
  <2>1. Held(r.shape) /\ Held(r.holderShape)
    BY <1>2 DEF GetRowOK
  <2>2. /\ Held(r.shape)' /\ Held(r.holderShape)'
        /\ place'[r.shape] = place[r.shape] /\ place'[r.holderShape] = place[r.holderShape]
        /\ r.holderShape \in Addrs
    BY <2>1 DEF Stays, Held
  <2>3. ~place[r.holderShape].inv /\ Watched(place[r.holderShape]) => Watched(place[r.holderShape])'
    BY <2>1, <2>2 DEF WatchStays
  <2> QED
    BY <1>2, <2>2, <2>3 DEF GetRowOK
<1> QED
    BY <1>1, <1>2

\* An accessor row, by the same argument.
LEMMA AccessorStays ==
    ASSUME NEW r, Stays, WatchStays, fam = "accessor", AccessorOK(r)
    PROVE  AccessorOK(r)'
<1>1. CASE r.shape = 0
    BY <1>1 DEF AccessorOK
<1>2. CASE r.shape # 0
  <2>1. Held(r.shape) /\ Held(r.holderShape)
    BY <1>2 DEF AccessorOK
  <2>2. /\ Held(r.shape)' /\ Held(r.holderShape)'
        /\ place'[r.shape] = place[r.shape] /\ place'[r.holderShape] = place[r.holderShape]
        /\ r.holderShape \in Addrs
    BY <2>1 DEF Stays, Held
  <2>3. Watched(place[r.holderShape]) => Watched(place[r.holderShape])'
    BY <2>1, <2>2 DEF WatchStays
  <2> QED
    BY <1>2, <2>2, <2>3 DEF AccessorOK
<1> QED
    BY <1>1, <1>2

\* A guarded chain.
LEMMA ChainRowStays ==
    ASSUME NEW r, Stays, ChainRowOK(r)
    PROVE  ChainRowOK(r)'
<1>1. CASE r.shape = 0
    BY <1>1 DEF ChainRowOK
<1>2. CASE r.shape # 0
  <2>0. r.ptrs \in {<<P>>, <<P, Q>>} /\ DOMAIN r.shapes = DOMAIN r.ptrs /\ Held(r.shape)
        /\ \A i \in DOMAIN r.ptrs : Held(r.shapes[i])
    BY <1>2 DEF ChainRowOK
  <2>1. 1 \in DOMAIN r.ptrs /\ Len(r.ptrs) \in DOMAIN r.ptrs
    BY <2>0
  <2>2. Held(r.shape)' /\ place'[r.shape] = place[r.shape]
    BY <2>0 DEF Stays, Held
  <2>3. \A i \in DOMAIN r.ptrs : Held(r.shapes[i])' /\ place'[r.shapes[i]] = place[r.shapes[i]]
    BY <2>0 DEF Stays, Held
  <2> QED
    BY <1>2, <2>0, <2>1, <2>2, <2>3 DEF ChainRowOK
<1> QED
    BY <1>1, <1>2

\* A set row.
LEMMA SetRowStays ==
    ASSUME NEW r, Stays, SetRowOK(r)
    PROVE  SetRowOK(r)'
BY DEF SetRowOK, Stays, Held

\* The add of a transition row.
LEMMA AddStays ==
    ASSUME NEW r, Stays, AddOK(r)
    PROVE  AddOK(r)'
<1>1. Held(r.old) /\ Held(r.new)
    BY DEF AddOK
<1>2. Held(r.old)' /\ Held(r.new)' /\ place'[r.old] = place[r.old] /\ place'[r.new] = place[r.new]
    BY <1>1 DEF Stays, Held
<1> QED
    BY <1>2 DEF AddOK

\* The hops of a transition row.
LEMMA HopsStay ==
    ASSUME NEW r, Stays, HopsOK(r)
    PROVE  HopsOK(r)'
<1>1. \A i \in DOMAIN r.ptrs : Held(r.shapes[i])
    BY DEF HopsOK
<1>2. \A i \in DOMAIN r.ptrs : Held(r.shapes[i])' /\ place'[r.shapes[i]] = place[r.shapes[i]]
    BY <1>1 DEF Stays, Held
<1>3. 1 \in DOMAIN r.ptrs /\ (Len(r.ptrs) = 2 => 2 \in DOMAIN r.ptrs)
    BY DEF HopsOK
<1> QED
    BY <1>2, <1>3 DEF HopsOK

\* A transition row, while no prototype moves.
LEMMA TransStays ==
    ASSUME NEW r, Stays, TransOK(r), young' = young, rowsHoldNursery => rowsHoldNursery'
    PROVE  TransOK(r)'
<1>1. CASE r.old = 0
    BY <1>1 DEF TransOK
<1>2. CASE AddOK(r) /\ HopsOK(r) /\ PtrsOK(r)
  <2>1. PtrsOK(r)'
    BY <1>2 DEF PtrsOK
  <2> QED
    BY <1>2, <2>1, AddStays, HopsStay DEF TransOK
<1> QED
    BY <1>1, <1>2 DEF TransOK

\* A literal's row.
LEMMA InitStays ==
    ASSUME NEW r, Stays, InitOK(r)
    PROVE  InitOK(r)'
BY AddStays DEF InitOK

\* All of them.
LEMMA RowsStay ==
    ASSUME RowsOK, Stays, WatchStays, UNCHANGED <<fam, getRows, setRows, young>>
    PROVE  RowsOK'
<1>0. /\ fam' = fam /\ ways' = ways /\ mega' = mega /\ gchain' = gchain /\ accessor' = accessor
      /\ setWay' = setWay /\ megaSet' = megaSet /\ trans' = trans /\ initRow' = initRow
      /\ setAdd' = setAdd /\ initAdd' = initAdd /\ rowsHoldNursery' = rowsHoldNursery /\ young' = young
    BY DEF getRows, setRows
<1>1. DOMAIN ways = 1..Ways /\ (\A w \in 1..Ways : GetRowOK(ways[w])) /\ GetRowOK(mega) /\ ChainRowOK(gchain)
    BY DEF RowsOK
<1>2. (fam = "accessor" => AccessorOK(accessor)) /\ SetRowOK(setWay) /\ SetRowOK(megaSet)
    BY DEF RowsOK
<1>3. TransOK(trans) /\ InitOK(initRow) /\ (setAdd.current => TransOK(setAdd)) /\ (initAdd.current => InitOK(initAdd))
    BY DEF RowsOK
<1> QED
    BY <1>0, <1>1, <1>2, <1>3, GetRowStays, AccessorStays, ChainRowStays, SetRowStays, TransStays, InitStays DEF RowsOK

--------------------------------------------------------------------------
(* Steps that leave the heap alone.                                         *)

\* Nothing changes hands when the heap does not.
LEMMA StillHeap ==
    ASSUME PropInv, UNCHANGED <<fam, form, place, gc, heapOps>>
    PROVE  HeapOK' /\ ChainOK' /\ Stays /\ WatchStays
<1>1. HeapOK' /\ Stays
    BY SameHeap DEF PropInv
<1>2. ChainOK'
    BY DEF PropInv, ChainOK, OnlyData
<1>3. WatchStays
    BY DEF WatchStays, Watched, Reaches
<1> QED
    BY <1>1, <1>2, <1>3

\* The cell stays true while the chain and its words stay.
LEMMA CellStays ==
    ASSUME CellOK, cell' = cell \/ cell' = NoCell,
           Stays, HeapOK, ChainOK, ChainOK', form'[P] = form[P], form'[Q] = form[Q]
    PROVE  CellOK'
<1>1. CASE cell' = NoCell
    BY <1>1 DEF CellOK, NoCell
<1>2. CASE cell' = cell /\ cell.recv # Null
  <2> DEFINE up == Above(form, This)
  <2>0. /\ cell.recv = This /\ Len(up) <= InlineHops
        /\ \A h \in 1..InlineHops : IF h \in DOMAIN up THEN cell.words[h] \in Addrs /\ place[cell.words[h]] = form[up[h]]
                                    ELSE cell.words[h] = 0
    BY <1>2 DEF CellOK
  <2>1. This \in Recv /\ OnChain(form, This) /\ OnChain(form', This)
    BY ObjsApart DEF OnChain, ChainOK
  <2>2. Above(form', This) = up
    BY <2>1, ChainAbove
  <2>3. \A h \in DOMAIN up : up[h] \in {P, Q}
    BY <2>1, ChainAbove
  <2>4. \A h \in DOMAIN up : form'[up[h]] = form[up[h]]
    BY <2>3
  <2>5. ASSUME NEW h \in 1..InlineHops, h \in DOMAIN up PROVE place'[cell.words[h]] = place[cell.words[h]]
    <3>1. up[h] \in Objs /\ cell.words[h] \in Addrs /\ place[cell.words[h]] = form[up[h]]
      BY <2>0, <2>3, <2>5, ObjsApart
    <3>2. cell.words[h] = NightObjectShape(up[h])
      BY <3>1, OneWord
    <3>3. Held(cell.words[h])
      BY <3>1, <3>2, ShapeWord
    <3> QED
      BY <3>1, <3>3 DEF Stays
  <2> HIDE DEF up
  <2>6. \A h \in 1..InlineHops : IF h \in DOMAIN up THEN cell.words[h] \in Addrs /\ place'[cell.words[h]] = form'[up[h]]
                                 ELSE cell.words[h] = 0
    BY <2>0, <2>4, <2>5
  <2>7. (cell.recv = This /\ Len(up) <= InlineHops)
    BY <2>0
  <2> QED
    BY <1>2, <2>2, <2>6, <2>7 DEF CellOK
<1>3. CASE cell' = cell /\ cell.recv = Null
    BY <1>3 DEF CellOK
<1> QED
    BY <1>1, <1>2, <1>3

\* A probe that served what the engine would have leaves everything as it
\* was.
LEMMA ServedKeeps ==
    ASSUME PropInv, Idle, UNCHANGED <<fam, heapVars, getRows, setRows, pend, amiss>>, cell' = cell \/ cell' = NoCell
    PROVE  PropInv'
<1>0. UNCHANGED <<fam, form, place, young, gc, heapOps, rowsHoldNursery, pend, amiss>>
    BY DEF heapVars, setRows
<1>1. HeapOK' /\ ChainOK' /\ Stays /\ WatchStays
    BY <1>0, StillHeap
<1>2. RowsOK'
    BY <1>0, <1>1, RowsStay DEF PropInv
<1>3. CellOK'
    BY <1>0, <1>1, CellStays DEF PropInv
<1>4. PendOK'
    BY <1>0 DEF Idle, PendOK
<1> QED
    BY <1>0, <1>1, <1>2, <1>3, <1>4 DEF PropInv

\* A way serves a read.
LEMMA GetWayKeeps ==
    ASSUME PropInv, Idle, NEW o \in Recv, GetWay(o) PROVE PropInv'
<1>0. UNCHANGED <<fam, heapVars, getRows, setRows, cell, pend>>
    BY DEF GetWay
<1>1. PICK w \in MatchingWays(o) : WayServes(w, o) /\ Seen("way", RowLoad(ways[w], o), EngineGet(o))
    BY DEF GetWay
<1>2. w \in 1..Ways /\ ways[w].shape = NightObjectShape(o)
    BY DEF MatchingWays
<1>3. GetRowOK(ways[w])
    BY <1>2 DEF PropInv, RowsOK
<1>4. ways[w].holder = Null \/ NightObjectShape(ways[w].holder) = ways[w].holderShape
    BY <1>1 DEF WayServes, ic_hit_tail, RowBase
<1>5. RowLoad(ways[w], o) = EngineGet(o)
    BY <1>2, <1>3, <1>4, GetRowServes DEF PropInv
<1> QED
    BY <1>0, <1>1, <1>5, ServedKeeps DEF Seen

\* The table's row serves what the engine would, under either key.
LEMMA MegaServesRight ==
    ASSUME PropInv, NEW o \in Recv, NEW key, MegaServes(o, key)
    PROVE  RowLoad(mega, o) = EngineGet(o)
<1>1. mega.shape = NightObjectShape(o) /\ (mega.holder = Null \/ NightObjectShape(mega.holder) = mega.holderShape)
    BY DEF MegaServes, MegaHit, ic_hit_tail, RowBase
<1> QED
    BY <1>1, GetRowServes DEF PropInv, RowsOK

\* The table, under either key, or the guarded chain serves a read.
LEMMA TableGetsKeep ==
    ASSUME PropInv, Idle, NEW o \in Recv, GetMega(o) \/ ElemMegaGet(o) \/ LeafChain(o) PROVE PropInv'
<1>1. UNCHANGED <<fam, heapVars, getRows, setRows, cell, pend>>
    BY DEF GetMega, ElemMegaGet, LeafChain
<1>2. CASE GetMega(o)
    BY <1>1, <1>2, MegaServesRight, ServedKeeps DEF GetMega, Seen
<1>3. CASE ElemMegaGet(o)
    BY <1>1, <1>3, MegaServesRight, ServedKeeps DEF ElemMegaGet, Seen
<1>4. CASE LeafChain(o)
  <2>1. ChainServes(o) = EngineGet(o)
    BY <1>4, ChainServesRight DEF LeafChain, PropInv, RowsOK
  <2> QED
    BY <1>1, <1>4, <2>1, ServedKeeps DEF LeafChain, Seen
<1> QED
    BY <1>2, <1>3, <1>4

\* The accessor arm calls the cached function.
LEMMA AccessorCallKeeps ==
    ASSUME PropInv, Idle, NEW o \in Recv, NEW kind, AccessorCall(o, kind) PROVE PropInv'
<1>1. /\ fam = "accessor" /\ accessor.shape = NightObjectShape(o)
      /\ NightObjectShape(accessor.holder) = accessor.holderShape
      /\ cell' = NoCell /\ UNCHANGED <<fam, heapVars, getRows, setRows, pend>>
      /\ Seen("accessor", Call(accessor.callee), IF kind = "get" THEN EngineGet(o) ELSE EngineSet(o))
    BY DEF AccessorCall, AccessorHit
<1>2. EngineGet(o) = Call(accessor.callee) /\ EngineSet(o) = Call(accessor.callee)
    BY <1>1, AccessorServes DEF PropInv, RowsOK
<1> QED
    BY <1>1, <1>2, ServedKeeps DEF Seen

\* The way or the table serves a write.
LEMMA SetHitsKeep ==
    ASSUME PropInv, Idle, NEW o \in Recv, NEW first, NEW key, SetWayHit(o, first) \/ SetMega(o, key) PROVE PropInv'
<1>1. UNCHANGED <<fam, heapVars, getRows, setRows, cell, pend>>
    BY DEF SetWayHit, SetMega
<1>2. CASE SetWayHit(o, first)
  <2>1. Store(o, setWay.slot) = EngineSet(o)
    BY <1>2, SetRowServes DEF SetWayHit, PropInv, RowsOK
  <2> QED
    BY <1>1, <1>2, <2>1, ServedKeeps DEF SetWayHit, Seen
<1>3. CASE SetMega(o, key)
  <2>1. Store(o, megaSet.slot) = EngineSet(o)
    BY <1>3, SetRowServes DEF SetMega, PropInv, RowsOK
  <2> QED
    BY <1>1, <1>3, <2>1, ServedKeeps DEF SetMega, Seen
<1> QED
    BY <1>2, <1>3

\* Filling a way touches no other.
LEMMA WayNoted ==
    ASSUME NEW r, RowsOK, NEW w \in 1..Ways
    PROVE  DOMAIN NoteGetWay(r) = 1..Ways /\ NoteGetWay(r)[w] \in {ways[w], r}
<1>1. DOMAIN ways = 1..Ways
    BY DEF RowsOK
<1>2. \A v : DOMAIN [ways EXCEPT ![v] = r] = 1..Ways /\ [ways EXCEPT ![v] = r][w] \in {ways[w], r}
    BY <1>1
<1> DEFINE same == {v \in 1..Ways : ways[v].shape = r.shape}
           open == {v \in 1..Ways : ways[v].shape = 0}
<1>3. NoteGetWay(r) \in {ways, [ways EXCEPT ![Min(same)] = r], [ways EXCEPT ![Min(open)] = r]}
    BY DEF NoteGetWay
<1> HIDE DEF same, open
<1> QED
    BY <1>1, <1>2, <1>3

\* The get-side rows after a step that left the heap alone and may have
\* filled some of them.
LEMMA GetRowsFilled ==
    ASSUME PropInv, UNCHANGED <<fam, form, place, young, gc, heapOps, setRows>>, NEW r,
           ways' = ways \/ (ways' = NoteGetWay(r) /\ GetRowOK(r)),
           NEW m, mega' = m, GetRowOK(m),
           NEW c, gchain' = c, ChainRowOK(c),
           NEW a, accessor' = a, fam = "accessor" => AccessorOK(a)
    PROVE  HeapOK' /\ ChainOK' /\ RowsOK' /\ Stays
<1>0. HeapOK' /\ ChainOK' /\ Stays /\ WatchStays
    BY StillHeap
<1>1. /\ fam' = fam /\ young' = young /\ setWay' = setWay /\ megaSet' = megaSet /\ trans' = trans /\ initRow' = initRow
      /\ setAdd' = setAdd /\ initAdd' = initAdd /\ rowsHoldNursery' = rowsHoldNursery
    BY DEF setRows
<1>2. RowsOK
    BY DEF PropInv
<1>3. DOMAIN ways' = 1..Ways
    BY <1>2, WayNoted, PropAssumption DEF RowsOK
<1>4. ASSUME NEW w \in 1..Ways PROVE GetRowOK(ways[w])'
  <2>1. GetRowOK(ways[w])
    BY <1>2 DEF RowsOK
  <2>2. PICK v : ways'[w] = v /\ GetRowOK(v)
    BY <2>1, <1>2, WayNoted
  <2>3. GetRowOK(v)'
    BY <2>2, <1>0, GetRowStays
  <2> QED
    BY <2>2, <2>3
<1>5. GetRowOK(mega)'
    BY <1>0, GetRowStays
<1>6. ChainRowOK(gchain)'
    BY <1>0, ChainRowStays
<1>7. (fam = "accessor" => AccessorOK(accessor))'
    BY <1>0, <1>1, AccessorStays
<1>8. SetRowOK(setWay) /\ SetRowOK(megaSet) /\ TransOK(trans) /\ InitOK(initRow)
      /\ (setAdd.current => TransOK(setAdd)) /\ (initAdd.current => InitOK(initAdd))
    BY <1>2 DEF RowsOK
<1>9. /\ SetRowOK(setWay)' /\ SetRowOK(megaSet)' /\ TransOK(trans)' /\ InitOK(initRow)'
      /\ (setAdd.current => TransOK(setAdd))' /\ (initAdd.current => InitOK(initAdd))'
    BY <1>0, <1>1, <1>8, SetRowStays, TransStays, InitStays
<1>10. RowsOK'
    BY <1>3, <1>4, <1>5, <1>6, <1>7, <1>9 DEF RowsOK
<1> QED
    BY <1>0, <1>10

\* The leaf probe of the table seeds a way with the row that served.
LEMMA LeafMegaKeeps ==
    ASSUME PropInv, Idle, NEW o \in Recv, LeafMega(o) PROVE PropInv'
<1>0. /\ UNCHANGED <<fam, form, place, young, gc, heapOps, mega, gchain, accessor, setRows, cell, pend>>
      /\ ways' = NoteGetWay(mega) /\ rowsHoldNursery' = rowsHoldNursery
    BY DEF LeafMega, heapVars, setRows
<1>1. GetRowOK(mega) /\ ChainRowOK(gchain) /\ (fam = "accessor" => AccessorOK(accessor))
    BY DEF PropInv, RowsOK
<1>2. HeapOK' /\ ChainOK' /\ RowsOK' /\ Stays
    BY <1>0, <1>1, GetRowsFilled
<1>3. amiss' = amiss
    BY MegaServesRight DEF LeafMega, Seen
<1>4. CellOK'
    BY <1>0, <1>2, CellStays DEF PropInv
<1>5. PendOK'
    BY <1>0 DEF Idle, PendOK
<1> QED
    BY <1>0, <1>2, <1>3, <1>4, <1>5 DEF PropInv

\* The generic get begins.
LEMMA GetMissKeeps ==
    ASSUME PropInv, Idle, NEW o \in Recv, GetMiss(o) \/ ElemMiss(o) PROVE PropInv'
<1>0. UNCHANGED <<fam, heapVars, getRows, setRows, amiss>> /\ cell' = NoCell
    BY DEF GetMiss, ElemMiss
<1>00. UNCHANGED <<fam, form, place, young, gc, heapOps, rowsHoldNursery>>
    BY <1>0 DEF heapVars, setRows
<1>1. PICK k \in Keys :
          pend' = [op |-> "get", o |-> o, key |-> k, user |-> EngineGet(o).do = "call", gc |-> FALSE, ran |-> FALSE,
                   before |-> 0, span |-> 0, want |-> EngineGet(o)]
    BY DEF GetMiss, ElemMiss, NoPend, Keys
<1>2. HeapOK' /\ ChainOK' /\ Stays /\ WatchStays
    BY <1>00, StillHeap
<1>3. RowsOK'
    BY <1>0, <1>00, <1>2, RowsStay DEF PropInv
<1>4. CellOK'
    BY <1>0 DEF CellOK, NoCell
<1>5. EngineGet(o).do = "call" => Serves(form, o)
    BY DEF EngineGet, Serves, HolderOf, KindAt, Nothing, Load, Call
<1>6. Serves(form', o) <=> Serves(form, o)
    BY <1>00
<1>7. PendOK'
    BY <1>1, <1>5, <1>6 DEF PendOK
<1> QED
    BY <1>0, <1>00, <1>2, <1>3, <1>4, <1>7 DEF PropInv

\* Its tail: the rows are filled from the heap the engine left, and no clean
\* answer follows an accessor.
LEMMA GetFillKeeps ==
    ASSUME PropInv, GetFill PROVE PropInv'
<1> DEFINE o == pend.o
           slotRow == NightPopulateInlineGetIC(o)
           chainRow == ~slotRow /\ NightPopulateGuardedChain(o) /\ pend.key = "id"
           r == GetRow(o, HolderOf(o))
<1>0. /\ UNCHANGED <<fam, form, place, young, gc, heapOps, setRows, cell>> /\ rowsHoldNursery' = rowsHoldNursery
      /\ pend' = NoPend /\ pend.op = "get"
    BY DEF GetFill, heapVars, setRows
<1>1. pend # NoPend
    BY <1>0 DEF NoPend
<1>2. /\ o \in Recv /\ (pend.ran => pend.user) /\ (pend.user => Serves(form, o))
      /\ pend.user \in BOOLEAN /\ pend.gc \in BOOLEAN /\ pend.ran \in BOOLEAN
    BY <1>1 DEF PropInv, PendOK
<1>3. /\ ways' = IF slotRow /\ pend.key = "id" THEN NoteGetWay(r) ELSE ways
      /\ mega' = IF slotRow THEN r ELSE mega
      /\ gchain' = IF chainRow THEN ChainRow(o) ELSE gchain
      /\ accessor' = IF ~slotRow /\ ~chainRow /\ pend.key = "id" /\ NightPrimeAccessor(o)
                     THEN AccessorRow(o, "get") ELSE accessor
      /\ Answered((slotRow \/ chainRow) /\ pend.key = "id" /\ Quiet)
    BY DEF GetFill
<1>4. slotRow => GetRowOK(r)
    BY <1>2, GetRowFilled DEF PropInv
<1>5. chainRow => ChainRowOK(ChainRow(o))
    BY <1>2, ChainFilled DEF PropInv
<1>6. NightPrimeAccessor(o) => AccessorOK(AccessorRow(o, "get"))
    BY <1>2, AccessorFilled DEF PropInv
<1>7. ASSUME Serves(form, o) PROVE ~slotRow /\ ~chainRow
    BY <1>7 DEF Serves, NightPopulateInlineGetIC, NightPopulateGuardedChain, HolderOf, KindAt
<1>8. amiss' = amiss
  <2>1. (slotRow \/ chainRow) /\ Quiet => ~pend.ran /\ ~pend.gc
    BY <1>2, <1>7 DEF Quiet
  <2> HIDE DEF slotRow, chainRow
  <2> QED
    BY <2>1, <1>3 DEF Answered
<1>9. HeapOK' /\ ChainOK' /\ RowsOK' /\ Stays
  <2> HIDE DEF slotRow, chainRow, r, o
  <2>0. GetRowOK(mega) /\ ChainRowOK(gchain) /\ (fam = "accessor" => AccessorOK(accessor))
    BY DEF PropInv, RowsOK
  <2>1. PICK m : mega' = m /\ GetRowOK(m)
    BY <2>0, <1>3, <1>4
  <2>2. PICK c : gchain' = c /\ ChainRowOK(c)
    BY <2>0, <1>3, <1>5
  <2>3. PICK a : accessor' = a /\ (fam = "accessor" => AccessorOK(a))
    BY <2>0, <1>3, <1>6
  <2>4. ways' = ways \/ (ways' = NoteGetWay(r) /\ GetRowOK(r))
    BY <1>3, <1>4
  <2> QED
    BY <1>0, <2>1, <2>2, <2>3, <2>4, GetRowsFilled
<1>10. CellOK'
    BY <1>0, <1>9, CellStays DEF PropInv
<1>11. PendOK'
    BY <1>0 DEF PendOK
<1> QED
    BY <1>0, <1>8, <1>9, <1>10, <1>11 DEF PropInv

\* Rows that a step fills or drops, and the others, which hold on.
LEMMA RowsRefilled ==
    ASSUME RowsOK, Stays, WatchStays, UNCHANGED <<fam, young, ways>>, rowsHoldNursery => rowsHoldNursery',
           mega' = mega \/ GetRowOK(mega)',
           gchain' = gchain \/ ChainRowOK(gchain)',
           accessor' = accessor \/ (fam = "accessor" => AccessorOK(accessor))',
           setWay' = setWay \/ SetRowOK(setWay)',
           megaSet' = megaSet \/ SetRowOK(megaSet)',
           trans' = trans \/ TransOK(trans)',
           initRow' = initRow \/ InitOK(initRow)',
           setAdd' = setAdd \/ (setAdd.current => TransOK(setAdd))',
           initAdd' = initAdd \/ (initAdd.current => InitOK(initAdd))'
    PROVE  RowsOK'
<1>1. DOMAIN ways = 1..Ways /\ (\A w \in 1..Ways : GetRowOK(ways[w])) /\ GetRowOK(mega) /\ ChainRowOK(gchain)
    BY DEF RowsOK
<1>2. (fam = "accessor" => AccessorOK(accessor)) /\ SetRowOK(setWay) /\ SetRowOK(megaSet)
    BY DEF RowsOK
<1>3. TransOK(trans) /\ InitOK(initRow) /\ (setAdd.current => TransOK(setAdd)) /\ (initAdd.current => InitOK(initAdd))
    BY DEF RowsOK
<1>4. (DOMAIN ways = 1..Ways /\ \A w \in 1..Ways : GetRowOK(ways[w]))'
    BY <1>1, GetRowStays
<1>5. GetRowOK(mega)' /\ ChainRowOK(gchain)'
    BY <1>1, GetRowStays, ChainRowStays
<1>6. (fam = "accessor" => AccessorOK(accessor))'
    BY <1>2, AccessorStays
<1>7. SetRowOK(setWay)' /\ SetRowOK(megaSet)'
    BY <1>2, SetRowStays
<1>8. TransOK(trans)' /\ InitOK(initRow)'
    BY <1>3, TransStays, InitStays
<1>9. (setAdd.current => TransOK(setAdd))' /\ (initAdd.current => InitOK(initAdd))'
    BY <1>3, TransStays, InitStays
<1> QED
    BY <1>4, <1>5, <1>6, <1>7, <1>8, <1>9 DEF RowsOK

\* An empty row holds.
LEMMA EmptyRows ==
    /\ GetRowOK(NoGet) /\ ChainRowOK(NoChain) /\ AccessorOK(NoAccessor) /\ SetRowOK(NoSet)
    /\ TransOK(NoTrans) /\ InitOK(NoTrans) /\ ~NoTrans.current
BY DEF GetRowOK, ChainRowOK, AccessorOK, SetRowOK, TransOK, InitOK, NoGet, NoChain, NoAccessor, NoSet, NoTrans

\* Other entries displace those of the tables.
LEMMA DisplaceKeeps ==
    ASSUME PropInv, Displace PROVE PropInv'
<1>0. /\ UNCHANGED <<fam, form, place, young, gc, heapOps, ways, setWay, trans, initRow, rowsHoldNursery, cell, pend, amiss>>
      /\ mega' = NoGet /\ gchain' = NoChain /\ accessor' = NoAccessor
      /\ megaSet' = NoSet /\ setAdd' = NoTrans /\ initAdd' = NoTrans
    BY DEF Displace, heapVars
<1>1. HeapOK' /\ ChainOK' /\ Stays /\ WatchStays
    BY <1>0, StillHeap
<1>2. /\ GetRowOK(mega)' /\ ChainRowOK(gchain)' /\ AccessorOK(accessor)' /\ SetRowOK(megaSet)'
      /\ ~setAdd'.current /\ ~initAdd'.current
    BY <1>0 DEF GetRowOK, ChainRowOK, AccessorOK, SetRowOK, NoGet, NoChain, NoAccessor, NoSet, NoTrans
<1>3. RowsOK'
    BY <1>0, <1>1, <1>2, RowsRefilled DEF PropInv
<1>4. CellOK'
    BY <1>0, <1>1, CellStays DEF PropInv
<1>5. PendOK'
    BY <1>0 DEF Displace, Idle, PendOK
<1> QED
    BY <1>0, <1>1, <1>3, <1>4, <1>5 DEF PropInv

\* The helper's probe of the set table seeds the way.
LEMMA HelperMegaSetKeeps ==
    ASSUME PropInv, Idle, NEW o \in Recv, HelperMegaSet(o) PROVE PropInv'
<1>0. /\ UNCHANGED <<fam, form, place, young, gc, heapOps, getRows, megaSet, trans, initRow, setAdd, initAdd, rowsHoldNursery, cell, pend>>
      /\ setWay' = noteSetShape(megaSet) /\ megaSet.shape = NightObjectShape(o)
      /\ Seen("helper_mega", Store(o, megaSet.slot), EngineSet(o))
    BY DEF HelperMegaSet, heapVars
<1>1. HeapOK' /\ ChainOK' /\ Stays /\ WatchStays
    BY <1>0, StillHeap
<1>2. SetRowOK(megaSet)
    BY DEF PropInv, RowsOK
<1>3. amiss' = amiss
    BY <1>0, <1>2, SetRowServes DEF Seen, PropInv
<1>4. SetRowOK(megaSet)'
    BY <1>0, <1>1, <1>2, SetRowStays
<1>5. setWay' = megaSet \/ setWay'.shape = Poly
    BY <1>0 DEF noteSetShape, NoSet
<1>6. SetRowOK(setWay)'
    BY <1>0, <1>4, <1>5 DEF SetRowOK
<1>7. RowsOK'
    BY <1>0, <1>1, <1>6, RowsRefilled DEF PropInv, getRows
<1>8. CellOK'
    BY <1>0, <1>1, CellStays DEF PropInv
<1>9. PendOK'
    BY <1>0 DEF Idle, PendOK
<1> QED
    BY <1>0, <1>1, <1>3, <1>7, <1>8, <1>9 DEF PropInv

\* The generic set begins.
LEMMA SetMissKeeps ==
    ASSUME PropInv, Idle, NEW o \in Recv, SetMiss(o) PROVE PropInv'
<1>0. UNCHANGED <<fam, heapVars, getRows, setRows, amiss>> /\ cell' = NoCell
    BY DEF SetMiss
<1>00. UNCHANGED <<fam, form, place, young, gc, heapOps, rowsHoldNursery>>
    BY <1>0 DEF heapVars, setRows
<1>w. PICK w : w = NightObjectShape(o)
    OBVIOUS
<1>e. PICK e : e = EngineSet(o)
    OBVIOUS
<1>1. pend' = [op |-> "set", o |-> o, key |-> "id", user |-> (e.do = "call"), gc |-> FALSE, ran |-> FALSE,
               before |-> w, span |-> Len(form[o].props), want |-> e]
    BY <1>w, <1>e DEF SetMiss, NoPend
<1>2. HeapOK' /\ ChainOK' /\ Stays /\ WatchStays
    BY <1>00, StillHeap
<1>3. RowsOK'
    BY <1>0, <1>00, <1>2, RowsStay DEF PropInv
<1>4. CellOK'
    BY <1>0 DEF CellOK, NoCell
<1>5. e.do = "call" => Serves(form, o)
    BY <1>e DEF EngineSet, EngineDefine, Serves, HolderOf, KindAt, Fails, Call, Store, Adds
<1>6. (Serves(form', o) <=> Serves(form, o)) /\ EngineSet(o)' = e
    BY <1>e, <1>00 DEF EngineSet, EngineDefine, HolderOf, KindAt
<1>7. w \in Addrs /\ Held(w) /\ place[w] = form[o]
    BY <1>w, ShapeWord, ObjsApart DEF PropInv
<1>8. Held(w)' /\ place'[w] = form'[o]
    BY <1>00, <1>2, <1>7 DEF Stays
<1>9. "id" \in Keys
    BY DEF Keys
<1>10. /\ pend'.op = "set" /\ pend'.o = o /\ pend'.key = "id" /\ (pend'.user <=> e.do = "call") /\ pend'.gc = FALSE
       /\ pend'.ran = FALSE /\ pend'.before = w /\ pend'.span = Len(form[o].props) /\ pend'.want = e
       /\ pend'.user \in BOOLEAN
    BY <1>1
<1>11. pend' = [op |-> pend'.op, o |-> pend'.o, key |-> pend'.key, user |-> pend'.user, gc |-> pend'.gc,
                ran |-> pend'.ran, before |-> pend'.before, span |-> pend'.span, want |-> pend'.want]
    BY <1>1
<1>12. PendOK'
    BY <1>00, <1>5, <1>6, <1>7, <1>8, <1>9, <1>10, <1>11 DEF PendOK
<1> QED
    BY <1>0, <1>00, <1>2, <1>3, <1>4, <1>12 DEF PropInv

--------------------------------------------------------------------------
(* Steps that reshape a receiver.                                           *)

\* A description's number is no larger than the mutations so far.
LEMMA UidBound ==
    ASSUME HeapOK, NEW o \in Objs
    PROVE  form[o] \in Desc /\ form[o].uid \in Nat /\ form[o].uid <= heapOps
<1>1. PICK a \in Addrs : place[a] = form[o]
    BY DEF HeapOK, Tree
<1> QED
    BY <1>1 DEF HeapOK, Desc

\* A description with one property more.
LEMMA AddedDesc ==
    ASSUME NEW f \in Desc, NEW n \in Names, NEW k \in Kinds
    PROVE  /\ AddTo(f, n, k) \in Desc
           /\ AddTo(f, n, k).proto = f.proto /\ AddTo(f, n, k).uid = f.uid /\ AddTo(f, n, k).inv = f.inv
           /\ AddTo(f, n, k).props = Append(f.props, [n |-> n, k |-> k])
           /\ k = "data" /\ OnlyData(f) => OnlyData(AddTo(f, n, k))
<1>1. PICK e : e = [n |-> n, k |-> k]
    OBVIOUS
<1>2. e \in Prop /\ e.k = k
    BY <1>1 DEF Prop
<1>3. f.props \in Seq(Prop) /\ f = [proto |-> f.proto, props |-> f.props, inv |-> f.inv, uid |-> f.uid]
    BY DEF Desc
<1>4. PICK q : q = Append(f.props, e)
    OBVIOUS
<1>5. q \in Seq(Prop)
    BY <1>2, <1>3, <1>4
<1>6. AddTo(f, n, k) = [f EXCEPT !.props = q]
    BY <1>1, <1>4 DEF AddTo
<1>7. [f EXCEPT !.props = q] = [proto |-> f.proto, props |-> q, inv |-> f.inv, uid |-> f.uid]
    BY <1>3
<1>8. [proto |-> f.proto, props |-> q, inv |-> f.inv, uid |-> f.uid] \in Desc
    BY <1>5 DEF Desc
<1>9. ASSUME k = "data", OnlyData(f), NEW i \in DOMAIN q PROVE q[i].k = "data"
  <2>1. i \in 1..(Len(f.props) + 1) /\ (i <= Len(f.props) => i \in DOMAIN f.props /\ q[i] = f.props[i])
        /\ (i = Len(f.props) + 1 => q[i] = e) /\ Len(f.props) \in Nat
    BY <1>2, <1>3, <1>4
  <2> QED
    BY <2>1, <1>2, <1>9 DEF OnlyData
<1>10. /\ AddTo(f, n, k).proto = f.proto /\ AddTo(f, n, k).uid = f.uid /\ AddTo(f, n, k).inv = f.inv
       /\ AddTo(f, n, k).props = q
    BY <1>6, <1>7
<1> QED
    BY <1>1, <1>4, <1>6, <1>7, <1>8, <1>9, <1>10 DEF OnlyData

\* A description with another number.
LEMMA NumberedDesc ==
    ASSUME NEW g \in Desc, NEW u \in Nat, NEW f, f = [g EXCEPT !.uid = u]
    PROVE  f \in Desc /\ f.proto = g.proto /\ f.props = g.props /\ f.inv = g.inv /\ f.uid = u
<1>1. g = [proto |-> g.proto, props |-> g.props, inv |-> g.inv, uid |-> g.uid]
    BY DEF Desc
<1>2. f = [proto |-> g.proto, props |-> g.props, inv |-> g.inv, uid |-> u]
    BY <1>1
<1>3. g.proto \in {P, Q, Null} /\ g.props \in Seq(Prop) /\ g.inv \in BOOLEAN
    BY DEF Desc
<1> QED
    BY <1>2, <1>3 DEF Desc

\* A receiver's new description leaves the chain, and what is said of it,
\* alone.
LEMMA RecvReform ==
    ASSUME PropInv, NEW o \in Recv, NEW f \in Desc, f.proto = P, OnlyData(f), f.uid <= heapOps,
           Reform([form EXCEPT ![o] = f], o), heapOps' \in Nat, heapOps <= heapOps', fam' = fam
    PROVE  /\ HeapOK' /\ ChainOK' /\ Stays /\ WatchStays
           /\ form'[P] = form[P] /\ form'[Q] = form[Q] /\ form'[o] = f
<1>0. PICK F2 : F2 = [form EXCEPT ![o] = f]
    OBVIOUS
<1>1. HeapOK /\ ChainOK /\ o \in Objs /\ Q \in Objs /\ P \in Objs /\ o # P /\ o # Q /\ form \in [Objs -> Desc] /\ heapOps \in Nat
    BY ObjsApart DEF PropInv, HeapOK
<1>2. F2 \in [Objs -> Desc] /\ F2[o] = f /\ \A x \in Objs : x # o => F2[x] = form[x]
    BY <1>0, <1>1
<1>3. form[Q].uid <= heapOps /\ form[Q].uid \in Nat
    BY <1>1, UidBound
<1>4. F2[o].uid <= heapOps' /\ F2[Q].uid <= heapOps'
    BY <1>1, <1>2, <1>3 DEF Desc
<1>5. HeapOK' /\ form' = F2 /\ Stays
    BY <1>0, <1>1, <1>2, <1>4, ReformKeeps
<1>6. form'[P] = form[P] /\ form'[Q] = form[Q] /\ form'[o] = f
    BY <1>1, <1>2, <1>5
<1>7. \A x \in Recv : form'[x].proto = P /\ OnlyData(form'[x])
    BY <1>1, <1>2, <1>5, ObjsApart DEF ChainOK
<1>8. ChainOK'
    BY <1>1, <1>6, <1>7 DEF ChainOK, OnlyData
<1>9. WatchStays
    BY <1>5, <1>6 DEF WatchStays, Watched, Reaches, Stays
<1> QED
    BY <1>5, <1>6, <1>8, <1>9

\* Installing the shape an add recorded.
LEMMA InstallKeeps ==
    ASSUME PropInv, NEW o \in Recv, NEW r, AddOK(r), r.old = NightObjectShape(o), Install(r, o), UNCHANGED <<fam, heapOps>>
    PROVE  HeapOK' /\ ChainOK' /\ Stays /\ WatchStays /\ form'[P] = form[P] /\ form'[Q] = form[Q]
<1>0. HeapOK /\ ChainOK /\ o \in Objs /\ heapOps \in Nat
    BY ObjsApart DEF PropInv, HeapOK
<1>1. PICK f : f = place[r.new]
    OBVIOUS
<1>2. f = AddTo(form[o], X, "data")
    BY <1>0, <1>1, AddServes
<1>3. form[o] \in Desc /\ form[o].uid <= heapOps /\ form[o].proto = P /\ OnlyData(form[o])
    BY <1>0, UidBound DEF ChainOK
<1>4. X \in Names /\ "data" \in Kinds
    BY DEF Names, Kinds
<1>5. f \in Desc /\ f.proto = P /\ f.uid <= heapOps /\ OnlyData(f)
    BY <1>2, <1>3, <1>4, AddedDesc
<1>6. Reform([form EXCEPT ![o] = f], o)
    BY <1>1 DEF Install
<1> QED
    BY <1>0, <1>5, <1>6, RecvReform

\* A cell written from words that are those of the chain, all of it.
LEMMA CellWritten ==
    ASSUME ChainOK, ChainOK', Stays, form'[P] = form[P], form'[Q] = form[Q], NEW s,
           DOMAIN s = DOMAIN Above(form, This), Len(Above(form, This)) <= InlineHops,
           \A h \in DOMAIN s : Held(s[h]) /\ place[s[h]] = form[Above(form, This)[h]],
           cell' = [recv |-> This, words |-> [h \in 1..InlineHops |-> IF h \in DOMAIN s THEN s[h] ELSE 0]]
    PROVE  CellOK'
<1>1. This \in Recv /\ OnChain(form, This) /\ OnChain(form', This)
    BY ObjsApart DEF OnChain, ChainOK
<1>2. PICK up : up = Above(form, This)
    OBVIOUS
<1>3. Above(form', This) = up
    BY <1>1, <1>2, ChainAbove
<1>4. \A h \in DOMAIN up : up[h] \in {P, Q}
    BY <1>1, <1>2, ChainAbove
<1>5. \A h \in DOMAIN s : s[h] \in Addrs /\ place'[s[h]] = form'[up[h]]
    BY <1>2, <1>4 DEF Stays, Held
<1>6. cell'.recv = This /\ \A h \in 1..InlineHops : cell'.words[h] = IF h \in DOMAIN s THEN s[h] ELSE 0
    OBVIOUS
<1>7. \A h \in 1..InlineHops : IF h \in DOMAIN up THEN cell'.words[h] \in Addrs /\ place'[cell'.words[h]] = form'[up[h]]
                               ELSE cell'.words[h] = 0
    BY <1>2, <1>5, <1>6
<1> QED
    BY <1>2, <1>3, <1>6, <1>7 DEF CellOK

\* The replay in line, by the guards or by the cell's proof.
LEMMA SetTransitionKeeps ==
    ASSUME PropInv, Idle, NEW o \in Recv, NEW first, SetTransition(o, first) PROVE PropInv'
<1>0. /\ trans.old = NightObjectShape(o) /\ (CellProves(o) \/ TransGuards) /\ Install(trans, o)
      /\ Seen(IF CellProves(o) THEN "proven" ELSE "transition", Replayed(trans, o), EngineSet(o))
      /\ cell' = (IF o # This THEN NoCell ELSE IF CellProves(o) THEN cell ELSE [recv |-> o, words |-> TransWords(trans)])
      /\ UNCHANGED <<fam, young, ghost, heapOps, getRows, setRows, pend>>
    BY DEF SetTransition, TransMatches
<1>1. HeapOK /\ ChainOK /\ RowsOK /\ CellOK /\ o \in Objs /\ This \in Recv
    BY ObjsApart DEF PropInv
<1>2. trans.old # 0 /\ TransOK(trans)
    BY <1>0, <1>1, ShapeWord DEF RowsOK
<1>3. AddOK(trans) /\ HopsOK(trans)
    BY <1>2 DEF TransOK
<1>4. /\ place[trans.shapes[1]] = form[P]
      /\ form[P].proto = Q => place[trans.shapes[2]] = form[Q]
    BY <1>0, <1>1, <1>2, GuardsMatch, CellMatches
<1>5. amiss' = amiss
    BY <1>0, <1>1, <1>3, <1>4, HopsLet DEF Seen
<1>6. HeapOK' /\ ChainOK' /\ Stays /\ WatchStays /\ form'[P] = form[P] /\ form'[Q] = form[Q]
    BY <1>0, <1>3, InstallKeeps
<1>7. RowsOK' /\ rowsHoldNursery' = rowsHoldNursery
    BY <1>0, <1>1, <1>6, RowsStay DEF setRows
<1>8. CellOK'
  <2>1. CASE cell' = NoCell \/ cell' = cell
    BY <2>1, <1>1, <1>6, CellStays
  <2>2. CASE o = This /\ ~CellProves(o)
    <3>1. TransGuards /\ cell' = [recv |-> This, words |-> TransWords(trans)]
      BY <2>2, <1>0
    <3>2. PICK s : s = trans.shapes
      OBVIOUS
    <3>3. cell' = [recv |-> This, words |-> [h \in 1..InlineHops |-> IF h \in DOMAIN s THEN s[h] ELSE 0]]
      BY <3>1, <3>2 DEF TransWords
    <3>4. OnChain(form, This)
      BY <1>1, RecvOnChain
    <3>5. PICK n : n = Len(trans.ptrs)
      OBVIOUS
    <3>6. n \in {1, 2} /\ DOMAIN s = 1..n /\ n <= InlineHops /\ (n = 2 <=> form[P].proto = Q) /\ \A h \in DOMAIN s : Held(s[h])
      BY <3>1, <3>2, <3>5, <1>3, <1>4, ObjsApart DEF HopsOK, TransGuards
    <3>7. CASE form[P].proto = Q
      <4>1. Above(form, This) = <<P, Q>> /\ n = 2 /\ DOMAIN s = {1, 2}
        BY <3>4, <3>6, <3>7, ChainAbove
      <4>2. \A h \in DOMAIN s : Held(s[h]) /\ place[s[h]] = form[<<P, Q>>[h]]
        BY <4>1, <3>2, <3>6, <3>7, <1>4
      <4>3. DOMAIN s = DOMAIN <<P, Q>> /\ Len(<<P, Q>>) <= InlineHops
        BY <4>1, <3>6
      <4> QED
        BY <4>1, <4>2, <4>3, <3>3, <1>1, <1>6, CellWritten
    <3>8. CASE form[P].proto # Q
      <4>1. Above(form, This) = <<P>> /\ n = 1 /\ DOMAIN s = {1}
        BY <3>4, <3>6, <3>8, ChainAbove
      <4>2. \A h \in DOMAIN s : Held(s[h]) /\ place[s[h]] = form[<<P>>[h]]
        BY <4>1, <3>2, <3>6, <1>4
      <4>3. DOMAIN s = DOMAIN <<P>> /\ Len(<<P>>) <= InlineHops
        BY <4>1, <3>6
      <4> QED
        BY <4>1, <4>2, <4>3, <3>3, <1>1, <1>6, CellWritten
    <3> QED
      BY <3>7, <3>8
  <2> QED
    BY <2>1, <2>2, <1>0
<1>9. PendOK'
    BY <1>0 DEF Idle, PendOK
<1> QED
    BY <1>0, <1>5, <1>6, <1>7, <1>8, <1>9 DEF PropInv

\* The replay of another name's add.
LEMMA SetOtherKeeps ==
    ASSUME PropInv, Idle, SetOther PROVE PropInv'
<1>0. /\ Len(Above(form, This)) <= InlineHops
      /\ Reform([form EXCEPT ![This] = AddTo(@, OtherName, "data")], This)
      /\ UNCHANGED <<fam, young, heapOps, getRows, setRows, pend, amiss>>
    BY DEF SetOther
<1>1. HeapOK /\ ChainOK /\ RowsOK /\ This \in Recv /\ This \in Objs /\ heapOps \in Nat /\ form \in [Objs -> Desc]
    BY ObjsApart DEF PropInv, HeapOK
<1>2. PICK up : up = Above(form, This)
    OBVIOUS
<1>3. PICK s : s = [h \in DOMAIN up |-> NightObjectShape(up[h])]
    OBVIOUS
<1>4. cell' = [recv |-> This, words |-> [h \in 1..InlineHops |-> IF h \in DOMAIN s THEN s[h] ELSE 0]]
    BY <1>2, <1>3 DEF SetOther, TransWords
<1>5. form[This] \in Desc /\ form[This].uid <= heapOps /\ form[This].proto = P /\ OnlyData(form[This])
    BY <1>1, UidBound DEF ChainOK
<1>6. OtherName \in Names /\ "data" \in Kinds
    BY DEF Names, Kinds
<1>7. PICK f : f = AddTo(form[This], OtherName, "data")
    OBVIOUS
<1>8. f \in Desc /\ f.proto = P /\ f.uid <= heapOps /\ OnlyData(f)
    BY <1>5, <1>6, <1>7, AddedDesc
<1>9. Reform([form EXCEPT ![This] = f], This)
    BY <1>0, <1>1, <1>7
<1>90. fam' = fam /\ heapOps' \in Nat /\ heapOps <= heapOps'
    BY <1>0, <1>1
<1>10. HeapOK' /\ ChainOK' /\ Stays /\ WatchStays /\ form'[P] = form[P] /\ form'[Q] = form[Q]
    BY <1>1, <1>8, <1>9, <1>90, RecvReform
<1>11. RowsOK' /\ rowsHoldNursery' = rowsHoldNursery
    BY <1>0, <1>1, <1>10, RowsStay DEF setRows
<1>12. \A h \in DOMAIN up : up[h] \in Objs
    BY <1>1, <1>2, RecvOnChain, ChainAbove, ObjsApart
<1>13. \A h \in DOMAIN s : Held(s[h]) /\ place[s[h]] = form[up[h]]
    BY <1>1, <1>3, <1>12, ShapeWord
<1>14. CellOK'
    BY <1>0, <1>1, <1>2, <1>3, <1>4, <1>10, <1>13, CellWritten
<1>15. PendOK'
    BY <1>0 DEF Idle, PendOK
<1> QED
    BY <1>0, <1>10, <1>11, <1>14, <1>15 DEF PropInv

\* The replay in the helper, from the site's row or from the table.
LEMMA HelperReplayKeeps ==
    ASSUME PropInv, Idle, NEW o \in Recv, HelperTransition(o) \/ HelperSetAdd(o) PROVE PropInv'
<1>0. /\ UNCHANGED <<fam, young, heapOps, getRows, setWay, megaSet, initRow, setAdd, initAdd, rowsHoldNursery, pend>>
      /\ cell' = NoCell
    BY DEF HelperTransition, HelperSetAdd, setRows
<1>1. HeapOK /\ ChainOK /\ RowsOK /\ o \in Objs
    BY ObjsApart DEF PropInv
<1>2. PICK r : /\ TransOK(r) /\ NightTryAddPropTransition(r, o) /\ Install(r, o)
               /\ amiss' = IF Replayed(r, o) = EngineSet(o) THEN amiss ELSE amiss'
               /\ trans' = trans \/ trans' = Marked(r, FALSE)
  <2>1. CASE HelperTransition(o)
    <3>1. TransOK(trans)
      BY <1>1 DEF RowsOK
    <3> QED
      BY <2>1, <3>1 DEF HelperTransition, Seen, setRows
  <2>2. CASE HelperSetAdd(o)
    <3>1. TransOK(setAdd)
      BY <2>2, <1>1 DEF RowsOK, HelperSetAdd
    <3> QED
      BY <2>2, <3>1 DEF HelperSetAdd, Seen
  <2> QED
    BY <2>1, <2>2
<1>3. r.old = NightObjectShape(o) /\ r.old # 0
    BY <1>1, <1>2, ShapeWord DEF NightTryAddPropTransition
<1>4. AddOK(r) /\ HopsOK(r)
    BY <1>2, <1>3 DEF TransOK
<1>5. amiss' = amiss
    BY <1>1, <1>2, <1>3, <1>4, HelperMatches, HopsLet
<1>6. HeapOK' /\ ChainOK' /\ Stays /\ WatchStays /\ form'[P] = form[P] /\ form'[Q] = form[Q]
    BY <1>0, <1>2, <1>3, <1>4, InstallKeeps
<1>7. trans' = trans \/ TransOK(trans)'
  <2>1. TransOK(r)'
    BY <1>0, <1>2, <1>6, TransStays
  <2>2. PICK m : m = Marked(r, FALSE)
    OBVIOUS
  <2>3. m.old = r.old /\ m.new = r.new /\ m.slot = r.slot /\ m.ptrs = r.ptrs /\ m.shapes = r.shapes
    BY <2>2 DEF Marked
  <2>4. TransOK(m)'
    BY <2>1, <2>3 DEF TransOK, AddOK, HopsOK, PtrsOK
  <2> QED
    BY <1>2, <2>2, <2>4
<1>8. RowsOK'
    BY <1>0, <1>1, <1>6, <1>7, RowsRefilled DEF getRows
<1>9. CellOK'
    BY <1>0 DEF CellOK, NoCell
<1>10. PendOK'
    BY <1>0 DEF Idle, PendOK
<1> QED
    BY <1>0, <1>5, <1>6, <1>8, <1>9, <1>10 DEF PropInv

\* A literal's definition replayed, in line or in the helper.
LEMMA InitReplayKeeps ==
    ASSUME PropInv, Idle, NEW o \in Recv, InitInline(o) \/ InitHelperReplay(o) PROVE PropInv'
<1>0. /\ UNCHANGED <<fam, young, heapOps, getRows, setWay, megaSet, trans, setAdd, initAdd, rowsHoldNursery, pend>>
      /\ cell' = cell \/ cell' = NoCell
    BY DEF InitInline, InitHelperReplay, setRows
<1>1. HeapOK /\ ChainOK /\ RowsOK /\ o \in Objs
    BY ObjsApart DEF PropInv
<1>2. PICK r : /\ InitOK(r) /\ r.old = NightObjectShape(o) /\ Install(r, o)
               /\ amiss' = IF Replayed(r, o) = EngineDefine(o) THEN amiss ELSE amiss'
               /\ initRow' = initRow \/ initRow' = Marked(r, FALSE)
  <2>1. CASE InitInline(o)
    <3>1. InitOK(initRow)
      BY <1>1 DEF RowsOK
    <3> QED
      BY <2>1, <3>1 DEF InitInline, InitReplays, Seen, setRows
  <2>2. CASE InitHelperReplay(o)
    <3>1. InitOK(initAdd)
      BY <2>2, <1>1 DEF RowsOK, InitHelperReplay, InitTableHit
    <3> QED
      BY <2>2, <3>1 DEF InitHelperReplay, InitTableHit, Seen
  <2> QED
    BY <2>1, <2>2
<1>3. AddOK(r)
    BY <1>1, <1>2, ShapeWord DEF InitOK
<1>4. amiss' = amiss
    BY <1>1, <1>2, <1>3, AddServes
<1>5. HeapOK' /\ ChainOK' /\ Stays /\ WatchStays /\ form'[P] = form[P] /\ form'[Q] = form[Q]
    BY <1>0, <1>2, <1>3, InstallKeeps
<1>6. initRow' = initRow \/ InitOK(initRow)'
  <2>1. AddOK(r)'
    BY <1>3, <1>5, AddStays
  <2>2. PICK m : m = Marked(r, FALSE)
    OBVIOUS
  <2>3. m.old = r.old /\ m.new = r.new /\ m.slot = r.slot
    BY <2>2 DEF Marked
  <2>4. InitOK(m)'
    BY <2>1, <2>3 DEF InitOK, AddOK
  <2> QED
    BY <1>2, <2>2, <2>4
<1>7. RowsOK'
    BY <1>0, <1>1, <1>5, <1>6, RowsRefilled DEF getRows
<1>8. CellOK'
    BY <1>0, <1>1, <1>5, CellStays DEF PropInv
<1>9. PendOK'
    BY <1>0 DEF Idle, PendOK
<1> QED
    BY <1>0, <1>4, <1>5, <1>7, <1>8, <1>9 DEF PropInv

--------------------------------------------------------------------------
(* The generic set and define, and the rows they leave.                     *)

\* The word of a description in the heap after the step.
LEMMA NewWord ==
    ASSUME HeapOK', NEW o \in Objs, NEW a, a = CHOOSE b \in Addrs : place'[b] = form'[o]
    PROVE  a \in Addrs /\ place'[a] = form'[o] /\ Held(a)' /\ \A b \in Addrs : place'[b] = form'[o] => b = a
<1>1. PICK b \in Addrs : place'[b] = form'[o] /\ b \notin gc'.doomed
    BY DEF HeapOK, Tree
<1>2. a \in Addrs /\ place'[a] = form'[o]
    BY <1>1
<1>3. form'[o] \in Desc
    BY DEF HeapOK
<1>4. form'[o] # Free
    BY <1>3, DescNotFree
<1>5. \A c \in Addrs : place'[c] = form'[o] => c = a
    BY <1>2, <1>4 DEF HeapOK, Tree
<1> QED
    BY <1>1, <1>2, <1>4, <1>5 DEF Held

\* The add a row records is the one that was done.
LEMMA AddRecorded ==
    ASSUME HeapOK, HeapOK', Stays, NEW o \in Recv, NEW F, form' = F, F[o] = AddTo(form[o], X, "data"),
           ~HasX(form[o]), NEW before, Held(before), place[before] = form[o],
           NEW r, r.old = before, r.new = CHOOSE a \in Addrs : place'[a] = F[o], r.slot = Len(F[o].props)
    PROVE  AddOK(r)'
<1>1. o \in Objs /\ form[o] \in Desc
    BY ObjsApart DEF HeapOK
<1>2. place'[r.new] = F[o] /\ Held(r.new)'
    BY <1>1, NewWord
<1>3. Held(before)' /\ place'[before] = form[o]
    BY DEF Stays, Held
<1>4. X \in Names /\ "data" \in Kinds
    BY DEF Names, Kinds
<1>5. F[o].props = Append(form[o].props, [n |-> X, k |-> "data"]) /\ form[o].props \in Seq(Prop)
    BY <1>1, <1>4, AddedDesc DEF Desc
<1>6. Len(F[o].props) = Len(form[o].props) + 1
    BY <1>5
<1> QED
    BY <1>2, <1>3, <1>6 DEF AddOK

\* A property's kind is one of the kinds.
LEMMA KindTyped ==
    ASSUME NEW f \in Desc, HasX(f) PROVE KindIn(f) \in Kinds
<1>1. SlotOf(f, X) \in DOMAIN f.props /\ f.props \in Seq(Prop)
    BY SlotThere DEF Desc
<1>2. f.props[SlotOf(f, X)] \in Prop
    BY <1>1
<1> QED
    BY <1>2 DEF KindIn, Prop

\* A set that adds met no accessor and no read-only property on the chain.
LEMMA AddsLet ==
    ASSUME HeapOK, ChainOK, NEW o \in Recv, EngineSet(o).do = "add"
    PROVE  /\ ~HasX(form[o]) /\ Lets(form[P])
           /\ form[P].proto = Q => HasX(form[P]) \/ Lets(form[Q])
<1>0. form[P] \in Desc /\ form[Q] \in Desc
    BY ObjsApart DEF HeapOK
<1>1. ~HasX(form[o])
    BY EngineOwn DEF Store
<1>2. HolderOf(o) # Null => KindAt(HolderOf(o)) \notin Accessors /\ KindAt(HolderOf(o)) # "readonly"
    BY DEF EngineSet, Call, Fails
<1>3. \A f \in Desc : HasX(f) /\ KindIn(f) \notin Accessors /\ KindIn(f) # "readonly" => KindIn(f) = "data"
    BY KindTyped DEF Kinds, Accessors
<1>4. ASSUME HasX(form[P]) PROVE KindIn(form[P]) = "data"
  <2>1. HolderOf(o) = P /\ P # Null
    BY <1>1, <1>4, RecvOnChain, ChainHolder, ObjsApart DEF HolderOf
  <2> QED
    BY <2>1, <1>0, <1>2, <1>3, <1>4 DEF KindAt
<1>5. ASSUME ~HasX(form[P]), form[P].proto = Q, HasX(form[Q]) PROVE KindIn(form[Q]) = "data"
  <2>1. HolderOf(o) = Q /\ Q # Null
    BY <1>1, <1>5, RecvOnChain, ChainHolder, ObjsApart DEF HolderOf
  <2> QED
    BY <2>1, <1>0, <1>2, <1>3, <1>5 DEF KindAt
<1> QED
    BY <1>1, <1>4, <1>5 DEF Lets

\* The hops a transition row records let its add through.
LEMMA HopsRecorded ==
    ASSUME HeapOK, ChainOK, HeapOK', ChainOK', NEW o \in Recv, NEW F, form' = F, F[P] = form[P], F[Q] = form[Q],
           EngineSet(o).do = "add", NEW pl, place' = pl, young' = young, NEW before, NEW r, r = TransRow(pl, F, o, before),
           (\E h \in DOMAIN r.ptrs : r.ptrs[h].young) => rowsHoldNursery'
    PROVE  HopsOK(r)' /\ PtrsOK(r)'
<1>1. Lets(F[P]) /\ (F[P].proto = Q => HasX(F[P]) \/ Lets(F[Q]))
    BY AddsLet
<1>2. PICK up : up = Above(F, o)
    OBVIOUS
<1>3. OnChain(F, o) /\ F[P].proto \in {Q, Null}
    BY DEF ChainOK, OnChain
<1>4. /\ r.ptrs = [h \in DOMAIN up |-> PtrTo(up[h])]
      /\ r.shapes = [h \in DOMAIN up |-> CHOOSE a \in Addrs : pl[a] = F[up[h]]]
    BY <1>2 DEF TransRow
<1>5. \A h \in DOMAIN up : r.ptrs[h].obj = up[h] /\ (r.ptrs[h].young <=> up[h] \in young) /\ r.ptrs[h].young \in BOOLEAN
  <2>1. \A h \in DOMAIN up : r.ptrs[h] = PtrTo(up[h])
    BY <1>4
  <2>2. \A x : PtrTo(x).obj = x /\ PtrTo(x).young = (x \in young)
    BY DEF PtrTo
  <2>3. \A x : PtrTo(x).young \in BOOLEAN /\ (PtrTo(x).young <=> x \in young)
    <3> TAKE x
    <3>1. CASE x \in young
      <4>1. PtrTo(x).young = TRUE
        BY <3>1, <2>2
      <4> QED
        BY <4>1, <3>1
    <3>2. CASE x \notin young
      <4>0. (x \in young) = FALSE
        BY <3>2
      <4>1. PtrTo(x).young = FALSE
        BY <4>0, <2>2, Zenon
      <4> QED
        BY <4>1, <3>2
    <3> QED
      BY <3>1, <3>2
  <2> QED
    BY <2>1, <2>2, <2>3
<1>6. P \in Objs /\ Q \in Objs /\ P # Q /\ P # Null /\ Q # Null
    BY ObjsApart
<1>7. ASSUME NEW h \in DOMAIN up, up[h] \in Objs
      PROVE  Held(r.shapes[h])' /\ pl[r.shapes[h]] = F[up[h]]
  <2>1. PICK a : a = CHOOSE b \in Addrs : pl[b] = F[up[h]]
    OBVIOUS
  <2>2. r.shapes[h] = a
    BY <1>4, <2>1
  <2>3. Held(a)' /\ place'[a] = form'[up[h]]
    BY <1>7, <2>1, NewWord
  <2> QED
    BY <2>2, <2>3
<1>8. PtrsOK(r)'
  <2>1. DOMAIN r.ptrs = DOMAIN up
    BY <1>4
  <2>2. \A h \in DOMAIN r.ptrs : (r.ptrs[h].young <=> r.ptrs[h].obj \in young') /\ (r.ptrs[h].young => rowsHoldNursery')
    BY <2>1, <1>5
  <2>3. \A h \in DOMAIN r.ptrs : r.ptrs[h].young \in BOOLEAN
    BY <2>1, <1>5
  <2> QED
    BY <2>2, <2>3 DEF PtrsOK
<1>9. CASE F[P].proto = Q
  <2>1. up = <<P, Q>>
    BY <1>2, <1>3, <1>9, ChainAbove
  <2>2. DOMAIN up = {1, 2} /\ up[1] = P /\ up[2] = Q
    BY <2>1
  <2>3. DOMAIN r.ptrs = {1, 2} /\ DOMAIN r.shapes = {1, 2} /\ Len(r.ptrs) = 2
    BY <1>4, <2>1
  <2>4. r.ptrs[1].obj = P /\ r.ptrs[2].obj = Q
    BY <2>2, <1>5
  <2>5. /\ Held(r.shapes[1])' /\ pl[r.shapes[1]] = F[P]
        /\ Held(r.shapes[2])' /\ pl[r.shapes[2]] = F[Q]
    BY <2>2, <1>6, <1>7
  <2>6. {1, 2} = 1..2
    OBVIOUS
  <2>7. HopsOK(r)'
    BY <2>3, <2>4, <2>5, <2>6, <1>1, <1>9 DEF HopsOK
  <2> QED
    BY <2>7, <1>8
<1>10. CASE F[P].proto = Null
  <2>1. up = <<P>>
    BY <1>2, <1>3, <1>6, <1>10, ChainAbove
  <2>2. DOMAIN up = {1} /\ up[1] = P
    BY <2>1
  <2>3. DOMAIN r.ptrs = {1} /\ DOMAIN r.shapes = {1} /\ Len(r.ptrs) = 1
    BY <1>4, <2>1
  <2>4. r.ptrs[1].obj = P
    BY <2>2, <1>5
  <2>5. Held(r.shapes[1])' /\ pl[r.shapes[1]] = F[P]
    BY <2>2, <1>6, <1>7
  <2>6. {1} = 1..1
    OBVIOUS
  <2>7. HopsOK(r)'
    BY <2>3, <2>4, <2>5, <2>6, <1>1, <1>10 DEF HopsOK
  <2> QED
    BY <2>7, <1>8
<1> QED
    BY <1>3, <1>9, <1>10

\* The heap after a generic define or set of X on a receiver.
LEMMA DefineReforms ==
    ASSUME PropInv, NEW o \in Recv, NEW F, UNCHANGED <<fam, heapOps>>, Reform(F, o),
           F = [form EXCEPT ![o] = AddTo(@, X, "data")] \/ F = form
    PROVE  /\ HeapOK' /\ ChainOK' /\ Stays /\ WatchStays
           /\ form' = F /\ F[P] = form[P] /\ F[Q] = form[Q]
           /\ F # form => F[o] = AddTo(form[o], X, "data")
<1>0. HeapOK /\ ChainOK /\ o \in Objs /\ heapOps \in Nat /\ form \in [Objs -> Desc]
    BY ObjsApart DEF PropInv, HeapOK
<1>1. form[o] \in Desc /\ form[o].uid <= heapOps /\ form[o].proto = P /\ OnlyData(form[o])
    BY <1>0, UidBound DEF ChainOK
<1>2. X \in Names /\ "data" \in Kinds
    BY DEF Names, Kinds
<1>3. PICK g : g = AddTo(form[o], X, "data")
    OBVIOUS
<1>4. g \in Desc /\ g.proto = P /\ g.uid <= heapOps /\ OnlyData(g)
    BY <1>1, <1>2, <1>3, AddedDesc
<1>5. F = [form EXCEPT ![o] = g] \/ F = [form EXCEPT ![o] = form[o]]
    BY <1>0, <1>3
<1>6. PICK f : F = [form EXCEPT ![o] = f] /\ f \in Desc /\ f.proto = P /\ f.uid <= heapOps /\ OnlyData(f)
    BY <1>1, <1>4, <1>5
<1>7. fam' = fam /\ heapOps' \in Nat /\ heapOps <= heapOps'
    BY <1>0
<1>8. HeapOK' /\ ChainOK' /\ Stays /\ WatchStays /\ form'[P] = form[P] /\ form'[Q] = form[Q]
    BY <1>6, <1>7, RecvReform
<1>9. form' = F
    BY DEF Reform
<1>10. F # form => F[o] = AddTo(form[o], X, "data")
    BY <1>0
<1> QED
    BY <1>8, <1>9, <1>10

\* The generic define and its rows.
LEMMA InitMissKeeps ==
    ASSUME PropInv, Idle, NEW o \in Recv, InitMiss(o) PROVE PropInv'
<1>0. /\ UNCHANGED <<fam, young, heapOps, getRows, setWay, megaSet, trans, setAdd, rowsHoldNursery, pend, amiss>>
      /\ cell' = NoCell
    BY DEF InitMiss
<1>1. HeapOK /\ ChainOK /\ RowsOK /\ o \in Objs
    BY ObjsApart DEF PropInv
<1>2. PICK F : F = IF EngineDefine(o).do = "add" THEN [form EXCEPT ![o] = AddTo(@, X, "data")] ELSE form
    OBVIOUS
<1>3. PICK r : r = [TransRow(place', F, o, NightObjectShape(o)) EXCEPT !.ptrs = <<>>, !.shapes = <<>>]
    OBVIOUS
<1>4. /\ Reform(F, o)
      /\ initRow' = initRow \/ (F # form /\ initRow' = r)
      /\ initAdd' = initAdd \/ (F # form /\ initAdd' = Marked(r, TRUE))
    BY <1>2, <1>3 DEF InitMiss
<1>5. /\ HeapOK' /\ ChainOK' /\ Stays /\ WatchStays
      /\ form' = F /\ F[P] = form[P] /\ F[Q] = form[Q]
      /\ F # form => F[o] = AddTo(form[o], X, "data")
    BY <1>0, <1>2, <1>4, DefineReforms
<1>6. ASSUME F # form PROVE InitOK(r)' /\ (initAdd' = Marked(r, TRUE) => InitOK(initAdd)')
  <2>1. ~HasX(form[o])
    BY <1>2, <1>6 DEF EngineDefine, HasX, Store
  <2>2. PICK w : w = NightObjectShape(o)
    OBVIOUS
  <2>3. Held(w) /\ place[w] = form[o]
    BY <2>2, <1>1, ShapeWord
  <2>4. r.old = w /\ r.new = (CHOOSE a \in Addrs : place'[a] = F[o]) /\ r.slot = Len(F[o].props)
    BY <1>3, <2>2 DEF TransRow
  <2>5. AddOK(r)'
    BY <1>1, <1>5, <1>6, <2>1, <2>3, <2>4, AddRecorded
  <2>6. PICK m : m = Marked(r, TRUE)
    OBVIOUS
  <2>7. m.old = r.old /\ m.new = r.new /\ m.slot = r.slot
    BY <2>6 DEF Marked
  <2>8. InitOK(m)'
    BY <2>5, <2>7 DEF InitOK, AddOK
  <2> QED
    BY <2>5, <2>6, <2>8 DEF InitOK
<1>7. RowsOK'
  <2>1. initRow' = initRow \/ InitOK(initRow)'
    BY <1>4, <1>6
  <2>2. initAdd' = initAdd \/ (initAdd.current => InitOK(initAdd))'
    BY <1>4, <1>6
  <2> QED
    BY <2>1, <2>2, <1>0, <1>1, <1>5, RowsRefilled DEF getRows
<1>8. CellOK'
    BY <1>0 DEF CellOK, NoCell
<1>9. PendOK'
    BY <1>0 DEF Idle, PendOK
<1> QED
    BY <1>0, <1>5, <1>7, <1>8, <1>9 DEF PropInv

\* The generic set ends, and leaves its rows.
LEMMA SetFillKeeps ==
    ASSUME PropInv, SetFill PROVE PropInv'
<1>0. /\ UNCHANGED <<fam, young, heapOps, ways, mega, gchain, initRow, initAdd, cell>>
      /\ pend' = NoPend /\ pend.op = "set"
    BY DEF SetFill
<1>1. pend # NoPend
    BY <1>0 DEF NoPend
<1>2. HeapOK /\ ChainOK /\ RowsOK /\ CellOK /\ rowsHoldNursery \in BOOLEAN
    BY DEF PropInv
<1>3. /\ pend.o \in Recv /\ (pend.ran => pend.user) /\ (pend.user => Serves(form, pend.o))
      /\ pend.user \in BOOLEAN /\ pend.gc \in BOOLEAN /\ pend.ran \in BOOLEAN
      /\ Held(pend.before) /\ pend.span = Len(place[pend.before].props)
      /\ (pend.want.do = "call" <=> pend.user)
      /\ (~pend.user => place[pend.before] = form[pend.o] /\ pend.want = EngineSet(pend.o))
    BY <1>0, <1>1 DEF PropInv, PendOK
<1>4. PICK o : o = pend.o
    OBVIOUS
<1>5. PICK F : F = IF pend.want.do = "add" THEN [form EXCEPT ![o] = AddTo(@, X, "data")] ELSE form
    OBVIOUS
<1>6. PICK pl : pl = place'
    OBVIOUS
<1>7. PICK w : w = CHOOSE a \in Addrs : place'[a] = F[o]
    OBVIOUS
<1>8. PICK before : before = pend.before
    OBVIOUS
<1>9. PICK own : own = SlotOf(F[o], X)
    OBVIOUS
<1>10. PICK row : row = TransRow(pl, F, o, before)
    OBVIOUS
<1>11. PICK srow : srow = [shape |-> before, key |-> "id", slot |-> own]
    OBVIOUS
<1> DEFINE reshaped == w # before
           adds == reshaped /\ NightPopulateAddTransition(F, o, pend.span)
           stores == ~reshaped /\ own # 0 /\ F[o].props[own].k = "data"
<1>12. /\ Reform(F, o)
       /\ trans' = IF adds THEN row ELSE trans
       /\ setAdd' = IF adds THEN Marked(row, TRUE) ELSE setAdd
       /\ rowsHoldNursery' = (rowsHoldNursery \/ (adds /\ \E h \in DOMAIN row.ptrs : row.ptrs[h].young))
       /\ setWay' = IF stores THEN noteSetShape(srow) ELSE setWay
       /\ megaSet' = IF stores THEN srow ELSE megaSet
       /\ accessor' = IF ~reshaped /\ own = 0 /\ NightPrimeAccessor(o) THEN AccessorRow(o, "set") ELSE accessor
       /\ Answered((adds \/ stores) /\ Quiet)
  <2>1. Reform(F, o) /\ FillSet(F, o, CHOOSE a \in Addrs : place'[a] = F[o], TransRow(place', F, o, pend.before))
    BY <1>4, <1>5 DEF SetFill
  <2>2. FillSet(F, o, w, row)
    BY <2>1, <1>6, <1>7, <1>8, <1>10
  <2> QED
    BY <2>1, <2>2, <1>8, <1>9, <1>11 DEF FillSet
<1>13. o \in Recv /\ o \in Objs
    BY <1>3, <1>4, ObjsApart
<1>14. /\ HeapOK' /\ ChainOK' /\ Stays /\ WatchStays
       /\ form' = F /\ F[P] = form[P] /\ F[Q] = form[Q]
       /\ F # form => F[o] = AddTo(form[o], X, "data")
    BY <1>0, <1>5, <1>12, <1>13, DefineReforms
<1>15. /\ w \in Addrs /\ place'[w] = F[o] /\ Held(w)'
       /\ \A b \in Addrs : place'[b] = F[o] => b = w
    BY <1>7, <1>13, <1>14, NewWord
<1>16. before \in Addrs /\ Held(before) /\ Held(before)' /\ place'[before] = place[before]
    BY <1>3, <1>8, <1>14 DEF Stays, Held
<1>17. ASSUME pend.user PROVE ~HasX(F[o]) /\ ~adds /\ ~stores
  <2>1. F = form
    BY <1>3, <1>5, <1>17
  <2>2. ~HasX(form[o])
    BY <1>2, <1>3, <1>4, <1>13, <1>17, OwnIsData DEF Serves, HolderOf, KindAt
  <2>3. Last(F[o].props) # [n |-> X, k |-> "data"] \/ Len(F[o].props) # pend.span + 1
    <3>1. form[o] \in Desc /\ form[o].props \in Seq(Prop)
      BY <1>2, <1>13 DEF HeapOK, Desc
    <3>2. PICK before2 \in Desc \cup {Free} : before2 = place[pend.before]
      BY <1>2, <1>3 DEF HeapOK, Held
    <3>3. pend.span \in Nat
      <4>1. before2.props \in Seq(Prop) \/ before2.props = <<>>
        BY <3>2 DEF Desc, Free
      <4> QED
        BY <4>1, <3>2, <1>3
    <3>4. ASSUME Len(form[o].props) = pend.span + 1 PROVE Last(form[o].props).n # X
      <4>1. Len(form[o].props) \in DOMAIN form[o].props
        BY <3>1, <3>3, <3>4
      <4> QED
        BY <4>1, <3>1, <2>2, HasXIs DEF Last
    <3> QED
      BY <3>4, <2>1
  <2> QED
    BY <2>1, <2>2, <2>3, <1>9 DEF NightPopulateAddTransition, HasX
<1>18. ASSUME adds PROVE F # form /\ EngineSet(o).do = "add" /\ place[before] = form[o]
  <2>1. place[before] = form[o] /\ pend.want = EngineSet(o)
    BY <1>3, <1>4, <1>8, <1>17, <1>18
  <2>2. F # form
    BY <2>1, <1>15, <1>16, <1>18
  <2> QED
    BY <2>1, <2>2, <1>5
<1>19. ASSUME adds PROVE TransOK(row)' /\ (setAdd.current => TransOK(setAdd))'
  <2>0. ~HasX(form[o])
    BY <1>2, <1>13, <1>18, <1>19, AddsLet
  <2>1. row.old = before /\ row.new = (CHOOSE a \in Addrs : place'[a] = F[o]) /\ row.slot = Len(F[o].props)
    BY <1>6, <1>10 DEF TransRow
  <2>2. AddOK(row)'
    BY <2>0, <2>1, <1>2, <1>13, <1>14, <1>16, <1>18, <1>19, AddRecorded
  <2>3. (\E h \in DOMAIN row.ptrs : row.ptrs[h].young) => rowsHoldNursery'
    BY <1>12, <1>19
  <2>4. HopsOK(row)' /\ PtrsOK(row)'
    BY <2>3, <1>0, <1>2, <1>6, <1>10, <1>13, <1>14, <1>18, <1>19, HopsRecorded
  <2>5. PICK m : m = Marked(row, TRUE)
    OBVIOUS
  <2>6. m.old = row.old /\ m.new = row.new /\ m.slot = row.slot /\ m.ptrs = row.ptrs /\ m.shapes = row.shapes
    BY <2>5 DEF Marked
  <2>7. TransOK(m)'
    BY <2>2, <2>4, <2>6 DEF TransOK, AddOK, HopsOK, PtrsOK
  <2> QED
    BY <2>2, <2>4, <2>5, <2>7, <1>12, <1>19 DEF TransOK
<1>20. ASSUME stores PROVE SetRowOK(srow)' /\ SetRowOK(setWay)'
  <2>1. srow.shape = before /\ srow.slot = own
    BY <1>11
  <2>2. place'[before] = F[o] /\ HasX(F[o])
    BY <1>9, <1>15, <1>20 DEF HasX
  <2>3. SetRowOK(srow)'
    BY <2>1, <2>2, <1>9, <1>16 DEF SetRowOK
  <2>4. setWay' = srow \/ setWay'.shape = Poly
    BY <1>12, <1>20 DEF noteSetShape, NoSet
  <2>5. ASSUME setWay'.shape = Poly PROVE SetRowOK(setWay)'
    BY <2>5 DEF SetRowOK
  <2> QED
    BY <2>3, <2>4, <2>5
<1>21. accessor' = accessor \/ (fam = "accessor" => AccessorOK(accessor))'
  <2>1. PICK a : a = AccessorRow(o, "set")
    OBVIOUS
  <2>2. ASSUME NightPrimeAccessor(o), fam = "accessor" PROVE AccessorOK(a)'
    <3>1. AccessorOK(a)
      BY <2>1, <2>2, <1>2, <1>13, AccessorFilled
    <3> QED
      BY <3>1, <2>2, <1>14, AccessorStays
  <2> QED
    BY <2>1, <2>2, <1>0, <1>12
<1> HIDE DEF adds, stores
<1>22. rowsHoldNursery' \in BOOLEAN /\ (rowsHoldNursery => rowsHoldNursery')
    BY <1>2, <1>12
<1>23. RowsOK'
  <2>1. trans' = trans \/ TransOK(trans)'
    BY <1>12, <1>19
  <2>2. setAdd' = setAdd \/ (setAdd.current => TransOK(setAdd))'
    BY <1>12, <1>19
  <2>3. setWay' = setWay \/ SetRowOK(setWay)'
    BY <1>12, <1>20
  <2>4. megaSet' = megaSet \/ SetRowOK(megaSet)'
    BY <1>12, <1>20
  <2> QED
    BY <2>1, <2>2, <2>3, <2>4, <1>0, <1>2, <1>14, <1>21, <1>22, RowsRefilled
<1>24. CellOK'
    BY <1>0, <1>2, <1>14, CellStays
<1>25. amiss' = amiss
    BY <1>3, <1>12, <1>17 DEF Answered, Quiet
<1>26. PendOK'
    BY <1>0 DEF PendOK
<1> QED
    BY <1>0, <1>14, <1>22, <1>23, <1>24, <1>25, <1>26 DEF PropInv

--------------------------------------------------------------------------
(* The program's mutations.                                                 *)

\* What a chain F says of a description H of Q, as Watched does of form.
WatchedIn(F, H) ==
    /\ H.inv => F[Q].inv
    /\ F[Q].uid = H.uid /\ F[Q].inv = H.inv => Reaches(F[P], F[Q])

\* A chain in which the receivers and prototypes are where they were.
ChainIn(F) ==
    /\ \A x \in Recv : F[x].proto = P /\ OnlyData(F[x])
    /\ F[P].proto \in {Q, Null} /\ F[Q].proto = Null

\* A mutation that keeps the chain, and what is said of Q.
LEMMA MutateKeeps ==
    ASSUME PropInv, ~SelfRedefine, NEW o \in Objs, NEW F \in [Objs -> Desc],
           \A x \in Objs : x # o /\ x # Q => F[x] = form[x],
           F[o].uid <= heapOps + 1, F[Q].uid <= heapOps + 1, ChainIn(F),
           \A H \in Desc : H.uid <= heapOps /\ (~H.inv \/ fam = "accessor") /\ Watched(H) => WatchedIn(F, H),
           Mutate(F, o)
    PROVE  PropInv'
<1>0. /\ Idle \/ pend.user
      /\ StillServes(F) /\ Reform(F, o) /\ heapOps' = heapOps + 1 /\ cell' = NoCell
      /\ pend' = [pend EXCEPT !.ran = pend.user]
      /\ UNCHANGED <<fam, young, getRows, setRows, amiss>>
    BY DEF Mutate, Mutates, Kept
<1>1. HeapOK /\ ChainOK /\ RowsOK /\ PendOK /\ heapOps \in Nat
    BY DEF PropInv, HeapOK
<1>2. heapOps' \in Nat /\ heapOps <= heapOps'
    BY <1>0, <1>1
<1>3. HeapOK' /\ form' = F /\ Stays
    BY <1>0, <1>1, <1>2, ReformKeeps
<1>4. ChainOK'
    BY <1>3 DEF ChainIn, ChainOK, OnlyData
<1>5. WatchStays
  <2> SUFFICES ASSUME NEW a \in Addrs, Held(a), ~place[a].inv \/ fam = "accessor", Watched(place[a])
               PROVE  Watched(place[a])'
    BY DEF WatchStays
  <2>1. place[a] \in Desc /\ place[a].uid <= heapOps
    BY <1>1 DEF HeapOK, Held
  <2>2. WatchedIn(F, place[a])
    BY <2>1
  <2>3. place'[a] = place[a]
    BY <1>3 DEF Stays
  <2> QED
    BY <1>3, <2>2, <2>3 DEF Watched, WatchedIn
<1>6. RowsOK' /\ rowsHoldNursery' = rowsHoldNursery
    BY <1>0, <1>1, <1>3, <1>5, RowsStay DEF setRows
<1>7. CellOK'
    BY <1>0 DEF CellOK, NoCell
<1>8. PendOK'
  <2>1. CASE pend = NoPend
    <3>1. pend' = NoPend
      BY <2>1, <1>0 DEF NoPend
    <3> QED
      BY <3>1 DEF PendOK
  <2>2. CASE pend # NoPend
    <3>1. pend.user = TRUE
      BY <2>2, <1>0, <1>1 DEF PendOK, Idle
    <3>2. /\ pend = [op |-> pend.op, o |-> pend.o, key |-> pend.key, user |-> pend.user, gc |-> pend.gc,
                     ran |-> pend.ran, before |-> pend.before, span |-> pend.span, want |-> pend.want]
          /\ pend.op \in {"get", "set"} /\ pend.o \in Recv /\ pend.key \in Keys /\ pend.gc \in BOOLEAN
          /\ pend.op = "set" => Held(pend.before) /\ pend.span = Len(place[pend.before].props)
          /\ pend.op = "set" => pend.want.do = "call"
      BY <2>2, <3>1, <1>1 DEF PendOK
    <3>3. pend' = [op |-> pend.op, o |-> pend.o, key |-> pend.key, user |-> TRUE, gc |-> pend.gc,
                   ran |-> TRUE, before |-> pend.before, span |-> pend.span, want |-> pend.want]
      BY <1>0, <3>1, <3>2
    <3>4. Serves(F, pend.o)
      BY <1>0, <3>1 DEF StillServes, Serves
    <3>5. PICK b : b = pend.before
      OBVIOUS
    <3>6. pend.op = "set" => Held(b)' /\ place'[b] = place[b]
      BY <3>2, <3>5, <1>3 DEF Stays, Held
    <3>7. /\ pend'.op = pend.op /\ pend'.o = pend.o /\ pend'.key = pend.key /\ pend'.user = TRUE /\ pend'.gc = pend.gc
          /\ pend'.ran = TRUE /\ pend'.before = b /\ pend'.span = pend.span /\ pend'.want = pend.want
      BY <3>3, <3>5
    <3>8. pend' = [op |-> pend'.op, o |-> pend'.o, key |-> pend'.key, user |-> pend'.user, gc |-> pend'.gc,
                   ran |-> pend'.ran, before |-> pend'.before, span |-> pend'.span, want |-> pend'.want]
      BY <3>3
    <3> QED
      BY <3>2, <3>4, <3>5, <3>6, <3>7, <3>8, <1>3 DEF PendOK
  <2> QED
    BY <2>1, <2>2
<1> QED
    BY <1>0, <1>3, <1>4, <1>6, <1>7, <1>8 DEF PropInv

\* A mutation of one receiver.
LEMMA RecvMutates ==
    ASSUME PropInv, ~SelfRedefine, NEW o \in Recv, NEW f \in Desc, f.proto = P, OnlyData(f), f.uid <= heapOps + 1,
           Mutate([form EXCEPT ![o] = f], o)
    PROVE  PropInv'
<1>0. HeapOK /\ ChainOK /\ o \in Objs /\ P \in Objs /\ Q \in Objs /\ o # P /\ o # Q /\ form \in [Objs -> Desc] /\ heapOps \in Nat
    BY ObjsApart DEF PropInv, HeapOK
<1>1. PICK F : F = [form EXCEPT ![o] = f]
    OBVIOUS
<1>2. F \in [Objs -> Desc] /\ F[o] = f /\ F[P] = form[P] /\ F[Q] = form[Q] /\ \A x \in Objs : x # o => F[x] = form[x]
    BY <1>0, <1>1
<1>3. form[Q].uid <= heapOps + 1
    BY <1>0, UidBound
<1>4. ChainIn(F)
    BY <1>0, <1>2, ObjsApart DEF ChainIn, ChainOK
<1>5. \A H : Watched(H) => WatchedIn(F, H)
    BY <1>2 DEF Watched, WatchedIn
<1> QED
    BY <1>0, <1>1, <1>2, <1>3, <1>4, <1>5, MutateKeeps

\* A receiver gains a name.
LEMMA RecvAddKeeps ==
    ASSUME PropInv, ~SelfRedefine, NEW o \in Recv, NEW n \in OwnNames[fam], AddProp(o, n, "data") PROVE PropInv'
<1>0. HeapOK /\ ChainOK /\ o \in Objs /\ o \notin Protos /\ form \in [Objs -> Desc] /\ heapOps \in Nat /\ fam \in Families
    BY ObjsApart DEF PropInv, HeapOK
<1>1. n \in Names /\ "data" \in Kinds
    BY <1>0 DEF Names, Kinds
<1>2. form[o] \in Desc /\ form[o].uid <= heapOps /\ form[o].uid \in Nat /\ form[o].proto = P /\ OnlyData(form[o])
    BY <1>0, UidBound DEF ChainOK
<1>3. PICK g : g = AddTo(form[o], n, "data")
    OBVIOUS
<1>4. g \in Desc /\ g.proto = P /\ g.uid <= heapOps /\ g.uid \in Nat /\ OnlyData(g)
    BY <1>1, <1>2, <1>3, AddedDesc
<1>5. Shadowed(form, o, n) = form
    BY <1>0 DEF Shadowed
<1>6. PICK G : G = [form EXCEPT ![o] = g]
    OBVIOUS
<1>7. Mutate(Renewed(G, o), o)
    BY <1>0, <1>3, <1>5, <1>6 DEF AddProp
<1>8. G[o] = g
    BY <1>0, <1>6
<1>9. CASE g.uid = 0
  <2>1. Renewed(G, o) = G
    BY <1>8, <1>9 DEF Renewed
  <2>2. g.uid <= heapOps + 1
    BY <1>0, <1>4
  <2> QED
    BY <2>1, <2>2, <1>4, <1>6, <1>7, RecvMutates
<1>10. CASE g.uid # 0
  <2>1. PICK f : f = [g EXCEPT !.uid = heapOps + 1]
    OBVIOUS
  <2>2. f \in Desc /\ f.proto = P /\ f.uid = heapOps + 1 /\ f.props = g.props
    <3>1. heapOps + 1 \in Nat
      BY <1>0
    <3> QED
      BY <2>1, <3>1, <1>4, NumberedDesc
  <2>3. Renewed(G, o) = [form EXCEPT ![o] = f]
    <3>1. Renewed(G, o) = [G EXCEPT ![o].uid = heapOps + 1]
      BY <1>8, <1>10 DEF Renewed
    <3>2. [G EXCEPT ![o].uid = heapOps + 1] = [G EXCEPT ![o] = f]
      BY <1>8, <2>1
    <3> QED
      BY <3>1, <3>2, <1>0, <1>6
  <2>4. OnlyData(f) /\ f.uid <= heapOps + 1
    BY <2>2, <1>0, <1>4 DEF OnlyData
  <2> QED
    BY <2>2, <2>3, <2>4, <1>7, RecvMutates
<1> QED
    BY <1>9, <1>10

\* A receiver is replaced by an empty object.
LEMMA NewObjectKeeps ==
    ASSUME PropInv, ~SelfRedefine, NEW o \in Recv, NewObject(o) PROVE PropInv'
<1>0. HeapOK /\ ChainOK /\ o \in Objs /\ form \in [Objs -> Desc] /\ heapOps \in Nat
    BY ObjsApart DEF PropInv, HeapOK
<1>1. form[o] \in Desc /\ form[o].uid <= heapOps /\ form[o].uid \in Nat /\ form[o].proto = P
    BY <1>0, UidBound DEF ChainOK
<1>2. PICK f : f = [form[o] EXCEPT !.props = <<>>]
    OBVIOUS
<1>3. f = [proto |-> P, props |-> <<>>, inv |-> form[o].inv, uid |-> form[o].uid]
    BY <1>1, <1>2 DEF Desc
<1>4. <<>> \in Seq(Prop) /\ form[o].inv \in BOOLEAN
    BY <1>1 DEF Desc
<1>5. f \in Desc /\ f.proto = P /\ f.uid = form[o].uid /\ f.props = <<>>
    BY <1>1, <1>3, <1>4 DEF Desc
<1>6. OnlyData(f) /\ f.uid <= heapOps + 1
    BY <1>0, <1>1, <1>5 DEF OnlyData
<1>7. [form EXCEPT ![o].props = <<>>] = [form EXCEPT ![o] = f]
    BY <1>0, <1>2
<1>8. Mutate([form EXCEPT ![o] = f], o)
    BY <1>7 DEF NewObject
<1> QED
    BY <1>5, <1>6, <1>8, RecvMutates

\* A renewed description differs in its number only.
LEMMA RenewedIs ==
    ASSUME NEW G \in [Objs -> Desc], NEW o \in Objs, heapOps \in Nat, NEW F, F = Renewed(G, o)
    PROVE  /\ F \in [Objs -> Desc] /\ \A x \in Objs : x # o => F[x] = G[x]
           /\ F[o].proto = G[o].proto /\ F[o].props = G[o].props /\ F[o].inv = G[o].inv
           /\ (F[o].uid = G[o].uid /\ G[o].uid = 0) \/ F[o].uid = heapOps + 1
<1>1. CASE G[o].uid = 0
  <2>1. F = G
    BY <1>1 DEF Renewed
  <2> QED
    BY <2>1, <1>1
<1>2. CASE G[o].uid # 0
  <2>1. F = [G EXCEPT ![o].uid = heapOps + 1]
    BY <1>2 DEF Renewed
  <2>2. PICK g : g = G[o] /\ g \in Desc
    OBVIOUS
  <2>3. PICK f : f = [g EXCEPT !.uid = heapOps + 1]
    OBVIOUS
  <2>4. f \in Desc /\ f.proto = g.proto /\ f.props = g.props /\ f.inv = g.inv /\ f.uid = heapOps + 1
    <3>1. heapOps + 1 \in Nat
      OBVIOUS
    <3> QED
      BY <2>2, <2>3, <3>1, NumberedDesc
  <2>5. F = [G EXCEPT ![o] = f]
    BY <2>1, <2>2, <2>3
  <2>6. F \in [Objs -> Desc] /\ F[o] = f /\ \A x \in Objs : x # o => F[x] = G[x]
    BY <2>4, <2>5
  <2> QED
    BY <2>2, <2>4, <2>6
<1> QED
    BY <1>1, <1>2

\* A mutation of a prototype.
LEMMA ProtoMutates ==
    ASSUME PropInv, ~SelfRedefine, NEW o \in Protos, NEW F \in [Objs -> Desc],
           \A x \in Recv : F[x] = form[x], o = Q => F[P] = form[P],
           F[P].proto \in {Q, Null}, F[Q].proto = Null,
           F[P].uid <= heapOps + 1, F[Q].uid <= heapOps + 1,
           \A H \in Desc : H.uid <= heapOps /\ (~H.inv \/ fam = "accessor") /\ Watched(H) => WatchedIn(F, H),
           Mutate(F, o)
    PROVE  PropInv'
<1>1. o \in Objs /\ (o = P \/ o = Q) /\ ChainOK
    BY DEF Objs, Protos, PropInv
<1>2. \A x \in Objs : x # o /\ x # Q => F[x] = form[x]
    BY <1>1 DEF Objs, Protos
<1>3. ChainIn(F)
    BY <1>1 DEF ChainOK, ChainIn
<1>4. F[o].uid <= heapOps + 1
    BY <1>1
<1> QED
    BY <1>1, <1>2, <1>3, <1>4, MutateKeeps

\* The engine reshapes Q when P shadows a name of Q's, and nothing else.
LEMMA ShadowedIs ==
    ASSUME HeapOK, ChainOK
    PROVE  /\ Shadowed(form, Q, X) = form
           /\ form[P].proto = Q /\ HasX(form[Q]) => Shadowed(form, P, X) = [form EXCEPT ![Q].inv = TRUE]
           /\ ~(form[P].proto = Q /\ HasX(form[Q])) => Shadowed(form, P, X) = form
<1>0. P # Null /\ Q # Null /\ P \in Protos /\ Q \in Protos /\ form[Q].proto = Null /\ form[P].proto \in {Q, Null}
    BY ObjsApart DEF ChainOK
<1>1. Up(form, Q) = Null /\ Up(form, P) = form[P].proto /\ Up(form, Null) = Null
    BY <1>0 DEF Up
<1>2. ~Holds(form, Null, X) /\ (Holds(form, Q, X) <=> HasX(form[Q]))
    BY <1>0 DEF Holds, HasX
<1>3. HolderIn(form, Null, X) = Null
    BY <1>1, <1>2 DEF HolderIn
<1>4. HolderIn(form, Q, X) = IF HasX(form[Q]) THEN Q ELSE Null
    BY <1>1, <1>2 DEF HolderIn
<1>5. Shadowed(form, Q, X) = form
    BY <1>1, <1>3 DEF Shadowed
<1>6. CASE form[P].proto = Q
    BY <1>0, <1>1, <1>4, <1>5, <1>6 DEF Shadowed
<1>7. CASE form[P].proto = Null
    BY <1>0, <1>1, <1>3, <1>5, <1>7 DEF Shadowed
<1> QED
    BY <1>0, <1>6, <1>7

\* A prototype gains X.
LEMMA ProtoAddKeeps ==
    ASSUME PropInv, ~SelfRedefine, ~Reshadow, NEW o \in Protos, NEW k \in Kinds, AddProp(o, X, k) PROVE PropInv'
<1>0. /\ HeapOK /\ ChainOK /\ o \in Objs /\ P \in Objs /\ Q \in Objs /\ P # Q /\ (o = P \/ o = Q)
      /\ form \in [Objs -> Desc] /\ heapOps \in Nat /\ Q # Null
    BY ObjsApart DEF PropInv, HeapOK, Protos
<1>1. ~HasX(form[o]) /\ X \in Names /\ (fam = "accessor" => ~form[Q].inv)
    BY <1>0 DEF AddProp, HasX, Names, ChainSettled, Protos
<1>2. /\ form[P].proto \in {Q, Null} /\ form[Q].proto = Null /\ \A x \in Recv : x # P /\ x # Q /\ x \in Objs
    BY <1>0, ObjsApart DEF ChainOK
<1>3. form[P] \in Desc /\ form[Q] \in Desc /\ form[P].uid <= heapOps /\ form[Q].uid <= heapOps
      /\ form[P].uid \in Nat /\ form[Q].uid \in Nat /\ form[Q].inv \in BOOLEAN
    BY <1>0, UidBound DEF Desc
<1>4. PICK S : S = Shadowed(form, o, X)
    OBVIOUS
<1>5. PICK g : g = AddTo(form[o], X, k)
    OBVIOUS
<1>6. g \in Desc /\ g.proto = form[o].proto /\ g.uid = form[o].uid /\ g.inv = form[o].inv
    BY <1>0, <1>1, <1>5, AddedDesc
<1>7. PICK G : G = [S EXCEPT ![o] = AddTo(@, X, k)]
    OBVIOUS
<1>8. PICK F : F = Renewed(G, o)
    OBVIOUS
<1>9. Mutate(F, o)
    BY <1>4, <1>7, <1>8 DEF AddProp
<1>10. CASE o = P /\ form[P].proto = Q /\ HasX(form[Q])
  <2>1. S = [form EXCEPT ![Q].inv = TRUE]
    BY <1>0, <1>4, <1>10, ShadowedIs
  <2>2. PICK q : q = [form[Q] EXCEPT !.inv = TRUE]
    OBVIOUS
  <2>3. q \in Desc /\ q.proto = form[Q].proto /\ q.uid = form[Q].uid /\ q.inv = TRUE
    BY <2>2, <1>3 DEF Desc
  <2>4. S = [form EXCEPT ![Q] = q]
    BY <2>1, <2>2, <1>0
  <2>5. S[P] = form[P] /\ S[Q] = q /\ S \in [Objs -> Desc] /\ \A x \in Objs : x # Q => S[x] = form[x]
    BY <2>3, <2>4, <1>0
  <2>6. G = [S EXCEPT ![P] = g]
    BY <2>5, <1>0, <1>5, <1>7, <1>10
  <2>7. G \in [Objs -> Desc] /\ G[P] = g /\ G[Q] = q /\ \A x \in Recv : G[x] = form[x]
    BY <2>5, <2>6, <1>0, <1>2, <1>6
  <2>8. /\ F \in [Objs -> Desc] /\ \A x \in Objs : x # P => F[x] = G[x]
        /\ F[P].proto = G[P].proto
        /\ (F[P].uid = G[P].uid /\ G[P].uid = 0) \/ F[P].uid = heapOps + 1
    BY <2>7, <1>0, <1>8, <1>10, RenewedIs
  <2>9. F[Q] = q /\ (\A x \in Recv : F[x] = form[x]) /\ F[P].proto = Q /\ F[Q].proto = Null
    BY <2>3, <2>7, <2>8, <1>0, <1>2, <1>6, <1>10
  <2>10. F[P].uid <= heapOps + 1 /\ F[Q].uid <= heapOps + 1
    BY <2>3, <2>8, <2>9, <1>0, <1>3
  <2>11. ASSUME NEW H \in Desc, ~H.inv \/ fam = "accessor", Watched(H) PROVE WatchedIn(F, H)
    <3>1. H.inv = FALSE
      BY <2>11, <1>1 DEF Watched, Desc
    <3> QED
      BY <3>1, <2>3, <2>9 DEF WatchedIn
  <2> QED
    BY <2>8, <2>9, <2>10, <2>11, <1>0, <1>9, <1>10, ProtoMutates
<1>11. CASE ~(o = P /\ form[P].proto = Q /\ HasX(form[Q]))
  <2>1. S = form
    BY <1>0, <1>4, <1>11, ShadowedIs
  <2>2. G = [form EXCEPT ![o] = g]
    BY <2>1, <1>0, <1>5, <1>7
  <2>3. G \in [Objs -> Desc] /\ G[o] = g /\ \A x \in Objs : x # o => G[x] = form[x]
    BY <2>2, <1>0, <1>6
  <2>4. /\ F \in [Objs -> Desc] /\ \A x \in Objs : x # o => F[x] = G[x]
        /\ F[o].proto = G[o].proto /\ F[o].inv = G[o].inv
        /\ (F[o].uid = G[o].uid /\ G[o].uid = 0) \/ F[o].uid = heapOps + 1
    BY <2>3, <1>0, <1>8, RenewedIs
  <2>5. (\A x \in Recv : F[x] = form[x]) /\ F[P].proto = form[P].proto /\ F[Q].proto = form[Q].proto /\ F[Q].inv = form[Q].inv
    BY <2>3, <2>4, <1>0, <1>2, <1>6
  <2>6. (F[P].uid = form[P].uid \/ F[P].uid = heapOps + 1) /\ (F[Q].uid = form[Q].uid \/ F[Q].uid = heapOps + 1)
    BY <2>3, <2>4, <1>0, <1>6
  <2>7. F[P].uid <= heapOps + 1 /\ F[Q].uid <= heapOps + 1
    BY <2>6, <1>0, <1>3
  <2>8. ~Reaches(form[P], form[Q])
    BY <1>0, <1>1, <1>11 DEF Reaches
  <2>9. ASSUME NEW H \in Desc, H.uid <= heapOps, Watched(H) PROVE WatchedIn(F, H)
    <3>1. ~(form[Q].uid = H.uid /\ form[Q].inv = H.inv) /\ (H.inv => form[Q].inv)
      BY <2>8, <2>9 DEF Watched
    <3>2. heapOps + 1 # H.uid
      BY <2>9, <1>0 DEF Desc
    <3> QED
      BY <3>1, <3>2, <2>5, <2>6 DEF WatchedIn
  <2>10. o = Q => F[P] = form[P]
    BY <2>3, <2>4, <1>0
  <2> QED
    BY <2>4, <2>5, <2>7, <2>9, <2>10, <1>2, <1>9, ProtoMutates
<1> QED
    BY <1>10, <1>11

\* A prototype's X changes its kind.
LEMMA ChangePropKeeps ==
    ASSUME PropInv, ~SelfRedefine, NEW o \in Protos, NEW k \in Kinds, ChangeProp(o, k) PROVE PropInv'
<1>0. /\ HeapOK /\ ChainOK /\ o \in Objs /\ P \in Objs /\ Q \in Objs /\ P # Q /\ (o = P \/ o = Q)
      /\ form \in [Objs -> Desc] /\ heapOps \in Nat
    BY ObjsApart DEF PropInv, HeapOK, Protos
<1>1. HasX(form[o]) /\ X \in Names
    BY DEF ChangeProp, HasX, Names
<1>2. /\ form[P].proto \in {Q, Null} /\ form[Q].proto = Null /\ \A x \in Recv : x # P /\ x # Q /\ x \in Objs
    BY <1>0, ObjsApart DEF ChainOK
<1>3. form[P] \in Desc /\ form[Q] \in Desc /\ form[P].uid <= heapOps /\ form[Q].uid <= heapOps
      /\ form[P].uid \in Nat /\ form[Q].uid \in Nat
    BY <1>0, UidBound DEF Desc
<1>4. PICK s : s = form[o].props /\ s \in Seq(Prop)
    BY <1>0 DEF Desc
<1>5. PICK e : e = [n |-> X, k |-> k]
    OBVIOUS
<1>6. e \in Prop /\ e.n = X
    BY <1>1, <1>5 DEF Prop
<1>7. PICK t : t = [i \in DOMAIN s |-> IF s[i].n = X THEN e ELSE s[i]]
    OBVIOUS
<1>8. t \in Seq(Prop)
    BY <1>4, <1>6, <1>7
<1>9. PICK g : g = [form[o] EXCEPT !.props = t]
    OBVIOUS
<1>10. g \in Desc /\ g.proto = form[o].proto /\ g.uid = form[o].uid /\ g.inv = form[o].inv /\ g.props = t
    BY <1>0, <1>8, <1>9 DEF Desc
<1>11. HasX(g)
  <2>1. PICK i \in DOMAIN s : s[i].n = X
    BY <1>1, <1>4, SlotThere
  <2>2. i \in DOMAIN t /\ t[i].n = X
    BY <2>1, <1>6, <1>7
  <2> QED
    BY <2>2, <1>10, HasXIs
<1>12. PICK G : G = [form EXCEPT ![o] = g]
    OBVIOUS
<1>13. G \in [Objs -> Desc] /\ G[o] = g /\ \A x \in Objs : x # o => G[x] = form[x]
    BY <1>0, <1>10, <1>12
<1>14. PICK F : F = Renewed(G, o)
    OBVIOUS
<1>15. Mutate(F, o)
  <2>1. [form EXCEPT ![o].props = [i \in DOMAIN @ |-> IF @[i].n = X THEN [n |-> X, k |-> k] ELSE @[i]]]
        = [form EXCEPT ![o] = [form[o] EXCEPT !.props = [i \in DOMAIN @ |-> IF @[i].n = X THEN [n |-> X, k |-> k] ELSE @[i]]]]
    BY <1>0
  <2>2. [form[o] EXCEPT !.props = [i \in DOMAIN @ |-> IF @[i].n = X THEN [n |-> X, k |-> k] ELSE @[i]]] = g
    BY <1>4, <1>5, <1>7, <1>9
  <2> QED
    BY <2>1, <2>2, <1>12, <1>14 DEF ChangeProp
<1>16. /\ F \in [Objs -> Desc] /\ \A x \in Objs : x # o => F[x] = G[x]
       /\ F[o].proto = G[o].proto /\ F[o].inv = G[o].inv /\ F[o].props = G[o].props
       /\ (F[o].uid = G[o].uid /\ G[o].uid = 0) \/ F[o].uid = heapOps + 1
    BY <1>13, <1>0, <1>14, RenewedIs
<1>17. (\A x \in Recv : F[x] = form[x]) /\ F[P].proto = form[P].proto /\ F[Q].proto = form[Q].proto /\ F[Q].inv = form[Q].inv
    BY <1>0, <1>2, <1>10, <1>13, <1>16
<1>18. (F[P].uid = form[P].uid \/ F[P].uid = heapOps + 1) /\ (F[Q].uid = form[Q].uid \/ F[Q].uid = heapOps + 1)
    BY <1>0, <1>10, <1>13, <1>16
<1>19. F[P].uid <= heapOps + 1 /\ F[Q].uid <= heapOps + 1
    BY <1>18, <1>0, <1>3
<1>20. HasX(F[o])
    BY <1>11, <1>13, <1>16 DEF HasX, SlotOf
<1>21. (HasX(F[P]) <=> HasX(form[P])) /\ (HasX(F[Q]) <=> HasX(form[Q]))
    BY <1>0, <1>1, <1>13, <1>16, <1>20
<1>22. ASSUME NEW H \in Desc, H.uid <= heapOps, Watched(H) PROVE WatchedIn(F, H)
  <2>1. heapOps + 1 # H.uid
    BY <1>22, <1>0 DEF Desc
  <2> QED
    BY <2>1, <1>17, <1>18, <1>21, <1>22 DEF WatchedIn, Watched, Reaches
<1>23. o = Q => F[P] = form[P]
    BY <1>0, <1>13, <1>16
<1> QED
    BY <1>2, <1>15, <1>16, <1>17, <1>19, <1>22, <1>23, ProtoMutates

\* A prototype loses X, and becomes a dictionary with a number of its own.
LEMMA RemovePropKeeps ==
    ASSUME PropInv, ~SelfRedefine, NEW o \in Protos, RemoveProp(o) PROVE PropInv'
<1>0. /\ HeapOK /\ ChainOK /\ o \in Objs /\ P \in Objs /\ Q \in Objs /\ P # Q /\ (o = P \/ o = Q)
      /\ form \in [Objs -> Desc] /\ heapOps \in Nat
    BY ObjsApart DEF PropInv, HeapOK, Protos
<1>1. HasX(form[o])
    BY DEF RemoveProp, HasX
<1>2. /\ form[P].proto \in {Q, Null} /\ form[Q].proto = Null /\ \A x \in Recv : x # P /\ x # Q /\ x \in Objs
    BY <1>0, ObjsApart DEF ChainOK
<1>3. form[P] \in Desc /\ form[Q] \in Desc /\ form[P].uid <= heapOps /\ form[Q].uid <= heapOps
      /\ form[P].uid \in Nat /\ form[Q].uid \in Nat
    BY <1>0, UidBound DEF Desc
<1>4. PICK i : i = SlotOf(form[o], X) /\ i \in DOMAIN form[o].props
    BY <1>1, SlotThere
<1>5. PICK t : t = RemoveAt(form[o].props, i)
    OBVIOUS
<1>6. t \in Seq(Prop)
  <2>1. PICK s : s = form[o].props /\ s \in Seq(Prop)
    BY <1>0 DEF Desc
  <2>2. i \in 1..Len(s) /\ Len(s) \in Nat
    BY <2>1, <1>4
  <2>3. SubSeq(s, 1, i - 1) \in Seq(Prop) /\ SubSeq(s, i + 1, Len(s)) \in Seq(Prop)
    BY <2>1, <2>2
  <2> QED
    BY <2>1, <2>3, <1>5 DEF RemoveAt
<1>7. PICK g : g = [form[o] EXCEPT !.props = t, !.uid = heapOps + 1]
    OBVIOUS
<1>8. g \in Desc /\ g.proto = form[o].proto /\ g.uid = heapOps + 1 /\ g.inv = form[o].inv
  <2>1. PICK d : d = form[o] /\ d \in Desc
    BY <1>0
  <2>2. PICK u : u = heapOps + 1 /\ u \in Nat
    BY <1>0
  <2>3. d = [proto |-> d.proto, props |-> d.props, inv |-> d.inv, uid |-> d.uid]
    BY <2>1 DEF Desc
  <2>4. g = [proto |-> d.proto, props |-> t, inv |-> d.inv, uid |-> u]
    BY <2>1, <2>2, <2>3, <1>7
  <2> QED
    BY <2>1, <2>2, <2>4, <1>6 DEF Desc
<1>9. PICK F : F = [form EXCEPT ![o] = g]
    OBVIOUS
<1>10. Mutate(F, o)
  <2>1. [form EXCEPT ![o].props = RemoveAt(@, SlotOf(form[o], X)), ![o].uid = heapOps + 1] = F
    BY <1>0, <1>4, <1>5, <1>7, <1>9
  <2> QED
    BY <2>1 DEF RemoveProp
<1>11. F \in [Objs -> Desc] /\ F[o] = g /\ \A x \in Objs : x # o => F[x] = form[x]
    BY <1>0, <1>8, <1>9
<1>12. (\A x \in Recv : F[x] = form[x]) /\ F[P].proto = form[P].proto /\ F[Q].proto = form[Q].proto /\ F[Q].inv = form[Q].inv
    BY <1>0, <1>2, <1>8, <1>11
<1>13. F[P].uid <= heapOps + 1 /\ F[Q].uid <= heapOps + 1
  <2>1. form[P].uid <= heapOps + 1 /\ form[Q].uid <= heapOps + 1 /\ g.uid <= heapOps + 1
    BY <1>0, <1>3, <1>8
  <2> QED
    BY <2>1, <1>0, <1>11
<1>14. ASSUME NEW H \in Desc, H.uid <= heapOps, Watched(H) PROVE WatchedIn(F, H)
  <2>1. CASE o = Q
    <3>1. F[Q].uid # H.uid
      BY <2>1, <1>0, <1>8, <1>11, <1>14 DEF Desc
    <3> QED
      BY <3>1, <1>12, <1>14 DEF WatchedIn, Watched
  <2>2. CASE o = P
    <3>1. F[Q] = form[Q] /\ ~Reaches(form[P], form[Q])
      BY <2>2, <1>0, <1>1, <1>11 DEF Reaches
    <3> QED
      BY <3>1, <1>14 DEF WatchedIn, Watched
  <2> QED
    BY <2>1, <2>2, <1>0
<1>15. o = Q => F[P] = form[P]
    BY <1>0, <1>11
<1> QED
    BY <1>2, <1>10, <1>11, <1>12, <1>13, <1>14, <1>15, ProtoMutates

\* P leaves its chain.
LEMMA MutateProtoKeeps ==
    ASSUME PropInv, ~SelfRedefine, ~Reshadow, MutateProto PROVE PropInv'
<1>0. /\ HeapOK /\ ChainOK /\ P \in Objs /\ Q \in Objs /\ P # Q /\ P \in Protos
      /\ form \in [Objs -> Desc] /\ heapOps \in Nat
    BY ObjsApart DEF PropInv, HeapOK
<1>1. fam = "accessor" => ~form[Q].inv
    BY DEF MutateProto, ChainSettled, Protos
<1>2. form[Q].proto = Null /\ \A x \in Recv : x # P /\ x # Q /\ x \in Objs
    BY <1>0, ObjsApart DEF ChainOK
<1>3. form[P] \in Desc /\ form[Q] \in Desc /\ form[P].uid <= heapOps /\ form[Q].uid <= heapOps
      /\ form[P].uid \in Nat /\ form[Q].uid \in Nat
    BY <1>0, UidBound DEF Desc
<1>4. PICK g : g = [form[P] EXCEPT !.proto = Null]
    OBVIOUS
<1>5. PICK q : q = [form[Q] EXCEPT !.inv = TRUE]
    OBVIOUS
<1>6. g \in Desc /\ g.proto = Null /\ g.uid = form[P].uid
    BY <1>3, <1>4 DEF Desc
<1>7. q \in Desc /\ q.proto = form[Q].proto /\ q.uid = form[Q].uid /\ q.inv = TRUE
    BY <1>3, <1>5 DEF Desc
<1>8. PICK F : F = [form EXCEPT ![P] = g, ![Q] = q]
    OBVIOUS
<1>9. Mutate(F, P)
  <2>1. [form EXCEPT ![P].proto = Null, ![Q].inv = TRUE] = F
    BY <1>0, <1>4, <1>5, <1>8
  <2> QED
    BY <2>1 DEF MutateProto
<1>10. F \in [Objs -> Desc] /\ F[P] = g /\ F[Q] = q /\ \A x \in Objs : x # P /\ x # Q => F[x] = form[x]
    BY <1>0, <1>6, <1>7, <1>8
<1>11. (\A x \in Recv : F[x] = form[x]) /\ F[P].proto = Null /\ F[Q].proto = Null
    BY <1>2, <1>6, <1>7, <1>10
<1>12. F[P].uid <= heapOps + 1 /\ F[Q].uid <= heapOps + 1
    BY <1>0, <1>3, <1>6, <1>7, <1>10
<1>13. ASSUME NEW H \in Desc, ~H.inv \/ fam = "accessor", Watched(H) PROVE WatchedIn(F, H)
  <2>1. H.inv = FALSE
    BY <1>1, <1>13 DEF Watched, Desc
  <2> QED
    BY <2>1, <1>7, <1>10 DEF WatchedIn
<1> QED
    BY <1>0, <1>9, <1>10, <1>11, <1>12, <1>13, ProtoMutates

--------------------------------------------------------------------------
(* The collector.                                                           *)

\* The helper in its call, after a collection that moved nothing it holds.
LEMMA PendCollected ==
    ASSUME PendOK, form' = form, pend.op = "set" => Stays, pend' = [pend EXCEPT !.gc = pend # NoPend]
    PROVE  PendOK'
<1>1. CASE pend = NoPend
  <2>1. pend' = NoPend
    BY <1>1 DEF NoPend
  <2> QED
    BY <2>1 DEF PendOK
<1>2. CASE pend # NoPend
  <2>1. /\ pend = [op |-> pend.op, o |-> pend.o, key |-> pend.key, user |-> pend.user, gc |-> pend.gc,
                   ran |-> pend.ran, before |-> pend.before, span |-> pend.span, want |-> pend.want]
        /\ pend.op \in {"get", "set"} /\ pend.o \in Recv /\ pend.key \in Keys
        /\ pend.user \in BOOLEAN /\ pend.ran \in BOOLEAN
        /\ (pend.user => Serves(form, pend.o)) /\ (pend.ran => pend.user)
    BY <1>2 DEF PendOK
  <2>2. ASSUME pend.op = "set"
        PROVE  /\ Held(pend.before) /\ pend.span = Len(place[pend.before].props)
               /\ (pend.want.do = "call" <=> pend.user)
               /\ ~pend.user => place[pend.before] = form[pend.o] /\ pend.want = EngineSet(pend.o)
    BY <1>2, <2>2 DEF PendOK
  <2>3. pend' = [op |-> pend.op, o |-> pend.o, key |-> pend.key, user |-> pend.user, gc |-> TRUE,
                 ran |-> pend.ran, before |-> pend.before, span |-> pend.span, want |-> pend.want]
    BY <1>2, <2>1
  <2>4. PICK o : o = pend.o
    OBVIOUS
  <2>5. PICK b : b = pend.before
    OBVIOUS
  <2>6. /\ pend'.op = pend.op /\ pend'.o = o /\ pend'.key = pend.key /\ pend'.user = pend.user /\ pend'.gc = TRUE
        /\ pend'.ran = pend.ran /\ pend'.before = b /\ pend'.span = pend.span /\ pend'.want = pend.want
    BY <2>3, <2>4, <2>5
  <2>7. pend' = [op |-> pend'.op, o |-> pend'.o, key |-> pend'.key, user |-> pend'.user, gc |-> pend'.gc,
                 ran |-> pend'.ran, before |-> pend'.before, span |-> pend'.span, want |-> pend'.want]
    BY <2>3
  <2>8. pend.op = "set" => Held(b)' /\ place'[b] = place[b]
    BY <2>2, <2>5 DEF Stays, Held
  <2>9. EngineSet(o)' = EngineSet(o)
    BY DEF EngineSet, EngineDefine, HolderOf, KindAt
  <2>10. pend'.user => Serves(form', o)
    BY <2>1, <2>4, <2>6
  <2>11. pend'.op = "set" => /\ Held(b)' /\ pend'.span = Len(place'[b].props)
                             /\ (pend'.want.do = "call" <=> pend'.user)
                             /\ ~pend'.user => place'[b] = form'[o] /\ pend'.want = EngineSet(o)'
    BY <2>2, <2>4, <2>5, <2>6, <2>8, <2>9
  <2> QED
    BY <2>1, <2>4, <2>6, <2>7, <2>10, <2>11 DEF PendOK
<1> QED
    BY <1>1, <1>2

\* Purged rows hold.
LEMMA Purged ==
    ASSUME NightPurgeMovableCaches PROVE RowsOK' /\ CellOK' /\ rowsHoldNursery' = rowsHoldNursery
<1>1. /\ ways' = [w \in 1..Ways |-> NoGet]
      /\ mega' = NoGet /\ gchain' = NoChain /\ accessor' = NoAccessor
      /\ setWay' = NoSet /\ megaSet' = NoSet /\ trans' = NoTrans /\ initRow' = NoTrans
      /\ setAdd' = Marked(setAdd, FALSE) /\ initAdd' = Marked(initAdd, FALSE)
      /\ cell' = NoCell /\ rowsHoldNursery' = rowsHoldNursery
    BY DEF NightPurgeMovableCaches
<1>2. ~setAdd'.current /\ ~initAdd'.current
    BY <1>1 DEF Marked
<1>3. DOMAIN ways' = 1..Ways /\ \A w \in 1..Ways : ways'[w].shape = 0
    BY <1>1 DEF NoGet
<1>4. (\A w \in 1..Ways : GetRowOK(ways[w]))'
    BY <1>3 DEF GetRowOK
<1>5. (GetRowOK(mega) /\ ChainRowOK(gchain) /\ AccessorOK(accessor))'
    BY <1>1 DEF GetRowOK, ChainRowOK, AccessorOK, NoGet, NoChain, NoAccessor
<1>6. (SetRowOK(setWay) /\ SetRowOK(megaSet) /\ TransOK(trans) /\ InitOK(initRow))'
    BY <1>1 DEF SetRowOK, TransOK, InitOK, NoSet, NoTrans
<1>7. CellOK'
    BY <1>1 DEF CellOK, NoCell
<1> QED
    BY <1>1, <1>2, <1>3, <1>4, <1>5, <1>6, <1>7 DEF RowsOK

\* A collection whose purge runs: the heap it leaves is all there is to show.
LEMMA PurgeKeeps ==
    ASSUME PropInv, ~GcInSet, Collects, HeapOK', NightPurgeMovableCaches, UNCHANGED <<fam, form, young, amiss>>,
           pend' = [pend EXCEPT !.gc = pend # NoPend]
    PROVE  PropInv'
<1>1. RowsOK' /\ CellOK' /\ rowsHoldNursery' = rowsHoldNursery
    BY Purged
<1>2. pend.op # "set"
    BY DEF Collects
<1>3. PendOK'
    BY <1>2, PendCollected DEF PropInv
<1>4. ChainOK'
    BY DEF PropInv, ChainOK, OnlyData
<1> QED
    BY <1>1, <1>3, <1>4 DEF PropInv

\* The shapes dead at the start of a collection are no object's.
LEMMA GcBeginKeeps ==
    ASSUME PropInv, ~GcInSet, NEW shrink \in BOOLEAN, GcBegin(shrink) PROVE PropInv'
<1>0. HeapOK /\ UNCHANGED <<form, place, heapOps>>
    BY DEF PropInv, GcBegin
<1>1. PICK D : D = {a \in Addrs : place[a] # Free} \ LiveAddrs
    OBVIOUS
<1>2. gc' = [on |-> TRUE, shrink |-> shrink, cycles |-> gc.cycles + 1, doomed |-> D]
    BY <1>1 DEF GcBegin
<1>3. gc.cycles \in Nat /\ D \in SUBSET Addrs
    BY <1>0, <1>1 DEF HeapOK
<1>4. gc' \in [on : BOOLEAN, shrink : BOOLEAN, doomed : SUBSET Addrs, cycles : Nat] /\ gc'.doomed = D
    BY <1>2, <1>3
<1>5. \A o \in Objs : \E a \in Addrs : place[a] = form[o] /\ a \notin D
    BY <1>0, <1>1 DEF HeapOK, Tree, LiveAddrs
<1>6. Tree(place', form', gc'.doomed)
    BY <1>0, <1>1, <1>4, <1>5 DEF HeapOK, Tree
<1>7. HeapOK'
    BY <1>0, <1>4, <1>6 DEF HeapOK
<1> QED
    BY <1>7, PurgeKeeps DEF GcBegin

\* A sweep frees the doomed places and no other.
LEMMA SweptHeap ==
    ASSUME HeapOK, place' = Swept, UNCHANGED <<form, heapOps>>,
           gc' \in [on : BOOLEAN, shrink : BOOLEAN, doomed : SUBSET Addrs, cycles : Nat], gc'.doomed = {}
    PROVE  HeapOK' /\ Stays
<1>1. \A a \in Addrs : place'[a] = IF a \in gc.doomed THEN Free ELSE place[a]
    BY DEF Swept
<1>2. place \in [Addrs -> Desc \cup {Free}] /\ form \in [Objs -> Desc] /\ heapOps \in Nat
    BY DEF HeapOK
<1>3. place' \in [Addrs -> Desc \cup {Free}]
    BY <1>2 DEF Swept
<1>4. \A a \in Addrs : place'[a].uid <= heapOps
    BY <1>1, <1>2 DEF HeapOK, Free
<1>5. Tree(place', form', gc'.doomed)
    BY <1>1 DEF HeapOK, Tree
<1>6. HeapOK'
    BY <1>2, <1>3, <1>4, <1>5 DEF HeapOK
<1>7. Stays
    BY <1>1 DEF Stays, Held
<1> QED
    BY <1>6, <1>7

\* The live places are ranked apart, and within the addresses.
LEMMA RankIs ==
    ASSUME NEW a \in LiveAddrs
    PROVE  Rank(a) \in Addrs /\ \A b \in LiveAddrs : Rank(b) = Rank(a) => b = a
<1>0. LiveAddrs \subseteq Addrs /\ IsFiniteSet(Addrs) /\ Cardinality(Addrs) = NAddrs /\ NAddrs \in Nat
  <2>1. NAddrs \in Nat /\ LiveAddrs \subseteq Addrs
    BY PropAssumption DEF LiveAddrs
  <2>2. IsFiniteSet(1..NAddrs) /\ Cardinality(1..NAddrs) = NAddrs
    BY <2>1, FS_Interval
  <2> QED
    BY <2>1, <2>2 DEF Addrs
<1> DEFINE Upto(b) == {c \in LiveAddrs : c <= b}
<1>1. \A b : Upto(b) \in SUBSET Addrs /\ Rank(b) = Cardinality(Upto(b))
    BY <1>0 DEF Rank
<1>2. ASSUME NEW b \in LiveAddrs, NEW c \in LiveAddrs, b < c
      PROVE  Upto(b) \subseteq Upto(c) /\ c \in Upto(c) /\ c \notin Upto(b)
  <2>1. b \in Int /\ c \in Int /\ \A d \in LiveAddrs : d \in Int
    BY <1>0 DEF Addrs
  <2>2. c <= c /\ ~(c <= b)
    BY <2>1, <1>2
  <2>3. \A d \in LiveAddrs : d <= b => d <= c
    BY <2>1, <1>2
  <2> QED
    BY <2>2, <2>3
<1>3. \A b \in LiveAddrs : b \in Upto(b) /\ b \in Int
    BY <1>0 DEF Addrs
<1> HIDE DEF Upto
<1>4. \A b : IsFiniteSet(Upto(b)) /\ Cardinality(Upto(b)) \in Nat /\ Cardinality(Upto(b)) <= NAddrs
    BY <1>0, <1>1, FS_Subset, FS_CardinalityType
<1>5. Rank(a) \in Addrs
  <2>1. Cardinality(Upto(a)) # 0
    BY <1>3, <1>4, FS_EmptySet
  <2> QED
    BY <2>1, <1>0, <1>1, <1>4 DEF Addrs
<1>6. ASSUME NEW b \in LiveAddrs, NEW c \in LiveAddrs, b < c PROVE Rank(b) # Rank(c)
  <2>1. Upto(b) \in SUBSET Upto(c) /\ Upto(b) # Upto(c)
    BY <1>2, <1>6
  <2>2. Cardinality(Upto(b)) # Cardinality(Upto(c))
    BY <2>1, <1>4, FS_Subset
  <2> QED
    BY <2>2, <1>1
<1>7. \A b \in LiveAddrs : b # a => b < a \/ a < b
    BY <1>3
<1> QED
    BY <1>5, <1>6, <1>7

\* The live shapes keep their descriptions as they slide, each to one place.
LEMMA CompactedHeap ==
    ASSUME HeapOK, place' = Compacted, UNCHANGED <<form, heapOps>>,
           gc' \in [on : BOOLEAN, shrink : BOOLEAN, doomed : SUBSET Addrs, cycles : Nat], gc'.doomed = {}
    PROVE  HeapOK'
<1>0. place \in [Addrs -> Desc \cup {Free}] /\ form \in [Objs -> Desc] /\ heapOps \in Nat /\ LiveAddrs \subseteq Addrs
    BY DEF HeapOK, LiveAddrs
<1> DEFINE From(a) == CHOOSE b \in LiveAddrs : Rank(b) = a
<1>1. place' = [a \in Addrs |-> IF \E b \in LiveAddrs : Rank(b) = a THEN place[From(a)] ELSE Free]
    BY DEF Compacted
<1>2. \A a : (\E b \in LiveAddrs : Rank(b) = a) => From(a) \in LiveAddrs /\ Rank(From(a)) = a
    OBVIOUS
<1> HIDE DEF From
<1>3. ASSUME NEW a \in Addrs
      PROVE  \/ place'[a] = Free
             \/ From(a) \in LiveAddrs /\ Rank(From(a)) = a /\ place'[a] = place[From(a)]
    BY <1>1, <1>2
<1>4. ASSUME NEW a \in Addrs PROVE place'[a] \in Desc \cup {Free} /\ place'[a].uid <= heapOps
  <2>1. Free.uid <= heapOps
    BY <1>0 DEF Free
  <2> QED
    BY <2>1, <1>0, <1>3 DEF HeapOK
<1>5. place' \in [Addrs -> Desc \cup {Free}]
    BY <1>1, <1>4
<1>6. ASSUME NEW a \in Addrs, NEW b \in Addrs, place'[a] # Free, place'[a] = place'[b] PROVE a = b
  <2>1. /\ From(a) \in LiveAddrs /\ Rank(From(a)) = a /\ place'[a] = place[From(a)]
        /\ From(b) \in LiveAddrs /\ Rank(From(b)) = b /\ place'[b] = place[From(b)]
    BY <1>3, <1>6
  <2>2. \A c, d \in Addrs : place[c] # Free /\ place[c] = place[d] => c = d
    BY DEF HeapOK, Tree
  <2>3. From(a) \in Addrs /\ From(b) \in Addrs /\ place[From(a)] # Free /\ place[From(a)] = place[From(b)]
    BY <2>1, <1>0, <1>6
  <2>4. From(a) = From(b)
    BY <2>2, <2>3
  <2> QED
    BY <2>1, <2>4
<1>7. ASSUME NEW o \in Objs PROVE \E a \in Addrs : place'[a] = form[o]
  <2>1. PICK a \in Addrs : place[a] = form[o]
    BY DEF HeapOK, Tree
  <2>2. a \in LiveAddrs
    BY <2>1 DEF LiveAddrs
  <2>3. Rank(a) \in Addrs /\ From(Rank(a)) = a
    BY <2>2, <1>2, RankIs
  <2>4. place'[Rank(a)] = place[a]
    BY <2>2, <2>3, <1>1
  <2> QED
    BY <2>1, <2>3, <2>4
<1>8. Tree(place', form', gc'.doomed)
    BY <1>6, <1>7 DEF Tree
<1> QED
    BY <1>0, <1>4, <1>5, <1>8 DEF HeapOK

\* A slice sweeps, or compacts and purges.
LEMMA GcSliceKeeps ==
    ASSUME PropInv, ~GcInSet, GcSlice PROVE PropInv'
<1>0. HeapOK /\ UNCHANGED <<fam, form, young, heapOps, amiss>> /\ Collects /\ pend' = [pend EXCEPT !.gc = pend # NoPend]
    BY DEF PropInv, GcSlice
<1>1. gc' \in [on : BOOLEAN, shrink : BOOLEAN, doomed : SUBSET Addrs, cycles : Nat] /\ gc'.doomed = {}
    BY <1>0 DEF HeapOK, GcSlice
<1>2. CASE gc.shrink
  <2>1. HeapOK'
    BY <1>0, <1>1, <1>2, CompactedHeap DEF GcSlice
  <2> QED
    BY <2>1, <1>0, <1>2, PurgeKeeps DEF GcSlice
<1>3. CASE ~gc.shrink
  <2>1. HeapOK' /\ Stays
    BY <1>0, <1>1, <1>3, SweptHeap DEF GcSlice
  <2>2. UNCHANGED <<getRows, setRows>> /\ cell' = NoCell
    BY <1>3 DEF GcSlice
  <2>3. ChainOK'
    BY <1>0 DEF PropInv, ChainOK, OnlyData
  <2>4. WatchStays
    BY <1>0, <2>1 DEF WatchStays, Watched, Reaches, Stays
  <2>5. RowsOK' /\ rowsHoldNursery' = rowsHoldNursery
    BY <2>1, <2>2, <2>4, <1>0, RowsStay DEF PropInv, setRows
  <2>6. CellOK'
    BY <2>2 DEF CellOK, NoCell
  <2>7. PendOK'
    BY <2>1, <1>0, PendCollected DEF PropInv
  <2> QED
    BY <2>1, <2>3, <2>5, <2>6, <2>7, <1>0 DEF PropInv
<1> QED
    BY <1>2, <1>3

\* The last slice does so too, and purges in either case.
LEMMA GcEndKeeps ==
    ASSUME PropInv, ~GcInSet, GcEnd PROVE PropInv'
<1>0. HeapOK /\ UNCHANGED <<fam, form, young, heapOps, amiss>> /\ Collects /\ pend' = [pend EXCEPT !.gc = pend # NoPend]
      /\ NightPurgeMovableCaches
    BY DEF PropInv, GcEnd
<1>1. gc' \in [on : BOOLEAN, shrink : BOOLEAN, doomed : SUBSET Addrs, cycles : Nat] /\ gc'.doomed = {}
    BY <1>0 DEF HeapOK, GcEnd
<1>2. place' = Compacted \/ place' = Swept
    BY DEF GcEnd
<1>3. HeapOK'
    BY <1>0, <1>1, <1>2, CompactedHeap, SweptHeap
<1> QED
    BY <1>0, <1>3, PurgeKeeps

\* A row that holds no nursery pointer outlives the nursery.
LEMMA PtrsTenured ==
    ASSUME NEW r, TransOK(r), ~rowsHoldNursery, Stays, young' = {} PROVE TransOK(r)'
<1>1. CASE r.old = 0
    BY <1>1 DEF TransOK
<1>2. CASE AddOK(r) /\ HopsOK(r) /\ PtrsOK(r)
  <2>1. ASSUME NEW i \in DOMAIN r.ptrs
        PROVE  r.ptrs[i].young = (r.ptrs[i].obj \in {}) /\ ~r.ptrs[i].young
    <3>1. r.ptrs[i].young = (r.ptrs[i].obj \in young) /\ ~r.ptrs[i].young
      BY <1>2 DEF PtrsOK
    <3>2. r.ptrs[i].young = FALSE
      <4>1. CASE r.ptrs[i].obj \in young
        BY <4>1, <3>1
      <4>2. CASE r.ptrs[i].obj \notin young
        <5>1. (r.ptrs[i].obj \in young) = FALSE
          BY <4>2
        <5> QED
          BY <5>1, <3>1, Zenon
      <4> QED
        BY <4>1, <4>2
    <3>3. (r.ptrs[i].obj \in {}) = FALSE
      OBVIOUS
    <3> QED
      BY <3>2, <3>3, Zenon
  <2>2. PtrsOK(r)'
    BY <2>1 DEF PtrsOK
  <2> QED
    BY <1>2, <2>2, AddStays, HopsStay DEF TransOK
<1> QED
    BY <1>1, <1>2 DEF TransOK

\* A minor collection tenures the prototypes and drops the rows that hold one.
LEMMA TenureKeeps ==
    ASSUME PropInv, TenureShapes PROVE PropInv'
<1>0. /\ UNCHANGED <<fam, form, place, gc, heapOps, getRows, setWay, megaSet, initAdd, amiss>>
      /\ young' = {} /\ rowsHoldNursery' = FALSE /\ cell' = NoCell /\ pend' = [pend EXCEPT !.gc = pend # NoPend]
      /\ trans' = (IF rowsHoldNursery THEN NoTrans ELSE trans)
      /\ initRow' = (IF rowsHoldNursery THEN NoTrans ELSE initRow)
      /\ setAdd' = (IF rowsHoldNursery THEN NoTrans ELSE setAdd)
    BY DEF TenureShapes
<1>1. HeapOK' /\ ChainOK' /\ Stays /\ WatchStays
    BY <1>0, StillHeap
<1>2. RowsOK
    BY DEF PropInv
<1>3. /\ DOMAIN ways = 1..Ways /\ (\A w \in 1..Ways : GetRowOK(ways[w])) /\ GetRowOK(mega) /\ ChainRowOK(gchain)
      /\ (fam = "accessor" => AccessorOK(accessor)) /\ SetRowOK(setWay) /\ SetRowOK(megaSet)
      /\ TransOK(trans) /\ InitOK(initRow) /\ (setAdd.current => TransOK(setAdd)) /\ (initAdd.current => InitOK(initAdd))
    BY <1>2 DEF RowsOK
<1>4. ways' = ways /\ mega' = mega /\ gchain' = gchain /\ accessor' = accessor
    BY <1>0 DEF getRows
<1>5. (DOMAIN ways = 1..Ways /\ \A w \in 1..Ways : GetRowOK(ways[w]))'
    BY <1>1, <1>3, <1>4, GetRowStays
<1>6. (GetRowOK(mega) /\ ChainRowOK(gchain) /\ (fam = "accessor" => AccessorOK(accessor)))'
    BY <1>0, <1>1, <1>3, <1>4, GetRowStays, ChainRowStays, AccessorStays
<1>7. (SetRowOK(setWay) /\ SetRowOK(megaSet) /\ (initAdd.current => InitOK(initAdd)))'
    BY <1>0, <1>1, <1>3, SetRowStays, InitStays
<1>8. TransOK(trans)' /\ InitOK(initRow)' /\ (setAdd.current => TransOK(setAdd))'
  <2>1. CASE rowsHoldNursery
    <3>1. trans' = NoTrans /\ initRow' = NoTrans /\ setAdd' = NoTrans
      BY <2>1, <1>0
    <3> QED
      BY <3>1 DEF TransOK, InitOK, NoTrans
  <2>2. CASE ~rowsHoldNursery
    <3>1. trans' = trans /\ initRow' = initRow /\ setAdd' = setAdd
      BY <2>2, <1>0
    <3> QED
      BY <3>1, <2>2, <1>0, <1>1, <1>3, PtrsTenured, InitStays
  <2> QED
    BY <2>1, <2>2
<1>9. RowsOK'
    BY <1>5, <1>6, <1>7, <1>8 DEF RowsOK
<1>10. CellOK'
    BY <1>0 DEF CellOK, NoCell
<1>11. PendOK'
    BY <1>0, <1>1, PendCollected DEF PropInv
<1> QED
    BY <1>0, <1>1, <1>9, <1>10, <1>11 DEF PropInv

--------------------------------------------------------------------------
(* The invariant, and the property.                                         *)

\* The descriptions a behaviour starts with.
LEMMA StartIs ==
    ASSUME NEW qk \in Kinds \cup {"none"}, NEW inv \in BOOLEAN, NEW cut \in BOOLEAN, NEW F, F = StartForm(qk, inv, cut)
    PROVE  /\ F \in [Objs -> Desc] /\ \A x \in Objs : F[x].uid = 0
           /\ \A x \in Recv : F[x] = F[This] /\ F[x].proto = P /\ OnlyData(F[x])
           /\ F[P].proto \in {Q, Null} /\ F[Q].proto = Null
<1>0. /\ P # Q /\ P \in Objs /\ Q \in Objs /\ This \in Recv /\ Recv \subseteq Objs
      /\ \A x \in Recv : x # P /\ x # Q
    BY ObjsApart
<1>1. PICK own : own = <<[n |-> X, k |-> qk]>>
    OBVIOUS
<1>2. qk # "none" => own \in Seq(Prop)
  <2>1. qk # "none" => [n |-> X, k |-> qk] \in Prop
    BY DEF Prop, Names
  <2> QED
    BY <2>1, <1>1
<1>3. PICK e : e = <<>> /\ e \in Seq(Prop) /\ DOMAIN e = {}
  <2>1. <<>> \in Seq(Prop) /\ DOMAIN <<>> = {}
    OBVIOUS
  <2> QED
    BY <2>1
<1> DEFINE pr(x) == IF x = Q \/ (x = P /\ cut) THEN Null ELSE IF x = P THEN Q ELSE P
           ps(x) == IF x = Q /\ qk # "none" THEN own ELSE e
           iv(x) == x = Q /\ inv
<1>4. F = [x \in Objs |-> [proto |-> pr(x), props |-> ps(x), inv |-> iv(x), uid |-> 0]]
    BY <1>1, <1>3 DEF StartForm
<1>5. \A x \in Objs : pr(x) \in {P, Q, Null} /\ ps(x) \in Seq(Prop) /\ iv(x) \in BOOLEAN
    BY <1>2, <1>3
<1>6. \A x \in Recv : pr(x) = P /\ ps(x) = e /\ iv(x) = FALSE
    BY <1>0
<1>7. pr(P) \in {Q, Null} /\ pr(Q) = Null
    BY <1>0
<1> HIDE DEF pr, ps, iv
<1>8. \A x \in Objs : F[x] = [proto |-> pr(x), props |-> ps(x), inv |-> iv(x), uid |-> 0]
    BY <1>4
<1>9. \A x \in Objs : [proto |-> pr(x), props |-> ps(x), inv |-> iv(x), uid |-> 0] \in Desc
    BY <1>5 DEF Desc
<1>10. F \in [Objs -> Desc]
    BY <1>4, <1>9
<1>11. ASSUME NEW x \in Objs PROVE F[x].uid = 0 /\ F[x].proto = pr(x)
  <2>1. PICK a, b, c : F[x] = [proto |-> a, props |-> b, inv |-> c, uid |-> 0] /\ a = pr(x)
    BY <1>8
  <2> QED
    BY <2>1
<1>12. \A x \in Recv : F[x] = [proto |-> P, props |-> e, inv |-> FALSE, uid |-> 0]
    BY <1>0, <1>6, <1>8
<1>13. \A x \in Recv : F[x].props = e
    BY <1>12
<1>14. \A x \in Recv : F[x] = F[This] /\ F[x].proto = P
    BY <1>0, <1>12
<1>15. \A x \in Recv : OnlyData(F[x])
    BY <1>3, <1>13 DEF OnlyData
<1> QED
    BY <1>0, <1>7, <1>10, <1>11, <1>14, <1>15

\* A behaviour starts in the invariant.
LEMMA InitHolds ==
    ASSUME PropInit PROVE PropInv
<1>0. fam \in Families /\ young \subseteq Protos /\ gc = [on |-> FALSE, shrink |-> FALSE, doomed |-> {}, cycles |-> 0]
      /\ heapOps = 0 /\ rowsHoldNursery = FALSE /\ cell = NoCell /\ pend = NoPend /\ amiss = {}
    BY DEF PropInit
<1>1. PICK qk \in StartKinds[fam], inv \in BOOLEAN, cut \in BOOLEAN : form = StartForm(qk, inv, cut)
    BY DEF PropInit
<1>2. qk \in Kinds \cup {"none"}
    BY <1>0, PropAssumption DEF Families, Kinds
<1>3. /\ form \in [Objs -> Desc] /\ \A x \in Objs : form[x].uid = 0
      /\ \A x \in Recv : form[x] = form[This] /\ form[x].proto = P /\ OnlyData(form[x])
      /\ form[P].proto \in {Q, Null} /\ form[Q].proto = Null
    BY <1>1, <1>2, StartIs
<1>4. P \in Objs /\ Q \in Objs /\ This \in Objs /\ \A x \in Objs : x = P \/ x = Q \/ x \in Recv
    BY ObjsApart DEF Objs, Protos
<1>5. PICK p0 : p0 = [a \in Addrs |-> Free]
    OBVIOUS
<1>6. PICK p1 \in Homes(p0, form[P]) : \E p2 \in Homes(p1, form[Q]) : place \in Homes(p2, form[This])
    BY <1>5 DEF PropInit
<1>7. PICK p2 \in Homes(p1, form[Q]) : place \in Homes(p2, form[This])
    BY <1>6
<1>8. Apart(p0) /\ \A a \in Addrs : p0[a] = Free
    BY <1>5 DEF Apart
<1>9. /\ Apart(p1) /\ (\A a \in Addrs : p1[a] = p0[a] \/ p1[a] = form[P]) /\ \E a \in Addrs : p1[a] = form[P]
    BY <1>3, <1>4, <1>8, HomeGiven
<1>10. /\ Apart(p2) /\ (\A a \in Addrs : p2[a] = p1[a] \/ p2[a] = form[Q]) /\ \E a \in Addrs : p2[a] = form[Q]
       /\ \A a \in Addrs : p1[a] # Free => p2[a] = p1[a]
    BY <1>3, <1>4, <1>9, HomeGiven
<1>11. /\ Apart(place) /\ (\A a \in Addrs : place[a] = p2[a] \/ place[a] = form[This]) /\ \E a \in Addrs : place[a] = form[This]
       /\ \A a \in Addrs : p2[a] # Free => place[a] = p2[a]
    BY <1>3, <1>4, <1>7, <1>10, HomeGiven
<1>12. \A x \in Objs : form[x] # Free
    BY <1>3, DescNotFree
<1>13. \A x \in Objs : \E a \in Addrs : place[a] = form[x]
  <2>1. \E a \in Addrs : place[a] = form[P]
    BY <1>4, <1>9, <1>10, <1>11, <1>12
  <2>2. \E a \in Addrs : place[a] = form[Q]
    BY <1>4, <1>10, <1>11, <1>12
  <2> QED
    BY <2>1, <2>2, <1>3, <1>4, <1>11
<1>14. \A a \in Addrs : place[a].uid = 0
  <2>1. \A a \in Addrs : place[a] \in {Free, form[P], form[Q], form[This]}
    BY <1>8, <1>9, <1>10, <1>11
  <2>2. Free.uid = 0 /\ form[P].uid = 0 /\ form[Q].uid = 0 /\ form[This].uid = 0
    BY <1>3, <1>4 DEF Free
  <2> QED
    BY <2>1, <2>2
<1>15. gc.doomed = {} /\ gc \in [on : BOOLEAN, shrink : BOOLEAN, doomed : SUBSET Addrs, cycles : Nat]
    BY <1>0
<1>16. Tree(place, form, gc.doomed)
    BY <1>11, <1>13, <1>15 DEF Tree, Apart
<1>17. HeapOK
  <2>1. heapOps \in Nat /\ \A a \in Addrs : place[a].uid <= heapOps
    BY <1>0, <1>14
  <2> QED
    BY <2>1, <1>3, <1>11, <1>15, <1>16 DEF HeapOK, Apart
<1>18. ChainOK
    BY <1>3 DEF ChainOK
<1>19. RowsOK
  <2>1. /\ ways = [w \in 1..Ways |-> NoGet] /\ mega = NoGet /\ gchain = NoChain /\ accessor = NoAccessor
        /\ setWay = NoSet /\ megaSet = NoSet
        /\ trans = NoTrans /\ initRow = NoTrans /\ setAdd = NoTrans /\ initAdd = NoTrans
    BY DEF PropInit
  <2>2. DOMAIN ways = 1..Ways /\ \A w \in 1..Ways : ways[w] = NoGet
    BY <2>1
  <2> QED
    BY <2>1, <2>2, EmptyRows DEF RowsOK
<1>20. CellOK /\ PendOK
    BY <1>0 DEF CellOK, PendOK, NoCell
<1> QED
    BY <1>0, <1>17, <1>18, <1>19, <1>20 DEF PropInv

\* Every access keeps it.
LEMMA AccessesKeep ==
    ASSUME PropInv, Accesses PROVE PropInv'
<1>1. ASSUME Idle, NEW o \in Recv,
             \/ GetWay(o) \/ GetMega(o) \/ ElemMegaGet(o) \/ LeafMega(o) \/ LeafChain(o)
             \/ GetMiss(o) \/ ElemMiss(o)
             \/ \E kind \in {"get", "set"} : AccessorCall(o, kind)
      PROVE  PropInv'
    BY <1>1, GetWayKeeps, TableGetsKeep, LeafMegaKeeps, GetMissKeeps, AccessorCallKeeps
<1>2. ASSUME Idle, NEW o \in Recv,
             \/ \E first \in BOOLEAN : SetTransition(o, first) \/ SetWayHit(o, first)
             \/ \E key \in Keys : SetMega(o, key)
             \/ HelperTransition(o) \/ HelperSetAdd(o) \/ HelperMegaSet(o) \/ SetMiss(o)
      PROVE  PropInv'
    BY <1>2, SetTransitionKeeps, SetHitsKeep, HelperReplayKeeps, HelperMegaSetKeeps, SetMissKeeps
<1>3. ASSUME Idle, NEW o \in Recv, InitInline(o) \/ InitHelperReplay(o) \/ InitMiss(o)
      PROVE  PropInv'
    BY <1>3, InitReplayKeeps, InitMissKeeps
<1>4. CASE Idle /\ SetOther
    BY <1>4, SetOtherKeeps
<1>5. CASE GetFill \/ SetFill
    BY <1>5, GetFillKeeps, SetFillKeeps
<1> QED
    BY <1>1, <1>2, <1>3, <1>4, <1>5 DEF Accesses

\* So does every mutation.
LEMMA ProgramKeeps ==
    ASSUME PropInv, ~SelfRedefine, ~Reshadow, Program PROVE PropInv'
<1>0. ProtoKinds[fam] \subseteq Kinds
    BY PropAssumption DEF PropInv, Families, Kinds
<1>1. ASSUME NEW o \in Recv, NEW n \in OwnNames[fam], AddProp(o, n, "data") PROVE PropInv'
    BY <1>1, RecvAddKeeps
<1>2. ASSUME NEW o \in Protos, NEW k \in ProtoKinds[fam], AddProp(o, X, k) \/ ChangeProp(o, k) PROVE PropInv'
    BY <1>0, <1>2, ProtoAddKeeps, ChangePropKeeps
<1>3. ASSUME NEW o \in Protos, RemoveProp(o) PROVE PropInv'
    BY <1>3, RemovePropKeeps
<1>4. ASSUME NEW o \in Recv, NewObject(o) PROVE PropInv'
    BY <1>4, NewObjectKeeps
<1>5. CASE MutateProto \/ Displace
    BY <1>5, MutateProtoKeeps, DisplaceKeeps
<1> QED
    BY <1>1, <1>2, <1>3, <1>4, <1>5 DEF Program

\* So does the collector.
LEMMA CollectorKeeps ==
    ASSUME PropInv, ~GcInSet, Collector PROVE PropInv'
BY GcBeginKeeps, GcSliceKeeps, GcEndKeeps, TenureKeeps DEF Collector

\* And a step that changes nothing.
LEMMA StutterKeeps ==
    ASSUME PropInv, UNCHANGED propVars PROVE PropInv'
<1>0. UNCHANGED <<fam, form, place, young, gc, heapOps, getRows, setRows, rowsHoldNursery, cell, pend, amiss>>
    BY DEF propVars, heapVars, setRows
<1>1. HeapOK' /\ ChainOK' /\ Stays /\ WatchStays
    BY <1>0, StillHeap
<1>2. RowsOK'
    BY <1>0, <1>1, RowsStay DEF PropInv
<1>3. CellOK'
    BY <1>0, <1>1, CellStays DEF PropInv
<1>4. PendOK'
  <2>1. /\ (Serves(form, pend.o) <=> Serves(form, pend.o)')
        /\ EngineSet(pend.o)' = EngineSet(pend.o)
        /\ (Held(pend.before) <=> Held(pend.before)')
    BY <1>0 DEF Serves, EngineSet, EngineDefine, HolderOf, KindAt, Held
  <2> QED
    BY <2>1, <1>0 DEF PendOK, PropInv
<1> QED
    BY <1>0, <1>1, <1>2, <1>3, <1>4 DEF PropInv

(* Every inline row does what the engine would do at that moment: the reads, *)
(* writes, literal definitions and accessor calls that the rows serve agree  *)
(* with the engine's own lookup for every set of receivers, every layout,    *)
(* every number of ways and hops and every interleaving of mutations and     *)
(* collections, as long as no collection runs inside a generic set, no       *)
(* accessor replaces the property it serves and no chain the engine has      *)
(* already invalidated is shadowed or cut again below an accessor.           *)
THEOREM PropAgreesAlways ==
    ASSUME ~GcInSet, ~SelfRedefine, ~Reshadow
    PROVE  PropSpec => []PropAgrees
<1>1. PropInit => PropInv
    BY InitHolds
<1>2. PropInv /\ [PropNext]_propVars => PropInv'
    BY AccessesKeep, ProgramKeeps, CollectorKeeps, StutterKeeps DEF PropNext
<1>3. PropInv => PropAgrees
    BY DEF PropInv, PropAgrees, GetAgrees, SetAgrees, InitAgrees, AccessorAgrees, CleanIsQuiet, NoneAmiss
<1> QED
    BY <1>1, <1>2, <1>3, PTL DEF PropSpec
=============================================================================
