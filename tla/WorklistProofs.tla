---------------------------- MODULE WorklistProofs ----------------------------
(***************************************************************************)
(* Proofs about the fixpoint engine, for any cells, tasks, rows, evidence   *)
(* and any transfer functions that satisfy the two assumptions of Worklist. *)
(*                                                                          *)
(* NoMissedWakeup is inductive as it stands: a raise that changes what an   *)
(* evaluated task has read finds that task subscribed and queues it, so     *)
(* only tasks whose view is unchanged are left to be covered, and what      *)
(* leaves the pending raises has arrived in its cell.                       *)
(***************************************************************************)
EXTENDS Worklist, TLAPS

WorkSpec == WorkInit /\ [][WorkNext]_workVars

\* What a task sees is a typed snapshot, so the assumption on Transfer applies to it.
LEMMA ViewType ==
    ASSUME WorkTypeOK, NEW t \in Task
    PROVE /\ View(t) \in [ReadCells[t] -> Value]
          /\ Transfer(t, View(t)) \in Value
          /\ Enters(t, View(t)) \subseteq Row
          /\ Installs(t, View(t)) \subseteq Cell \X Cell
          /\ ReadCells[t] \subseteq Cell
          /\ DstCell[t] \in Cell
  <1>1. ReadCells[t] \subseteq Cell /\ DstCell[t] \in Cell
    BY GraphAssumption
  <1>2. View(t) \in [ReadCells[t] -> Value]
    BY <1>1 DEF WorkTypeOK, View
  <1> QED
    BY <1>1, <1>2, TransferAssumption

LEMMA JoinType ==
    ASSUME NEW v \in Value, NEW w \in Value
    PROVE /\ Join(v, w) \in Value
          /\ Leq(v, Join(v, w)) /\ Leq(w, Join(v, w))
          /\ Join(v, w).ev = v.ev \cup w.ev
  BY DEF Join, Value, Leq

LEMMA TypeInit == WorkInit => WorkTypeOK
  BY GraphAssumption DEF WorkInit, WorkTypeOK

LEMMA EvalType ==
    ASSUME WorkTypeOK, NEW t \in work, Eval(t)
    PROVE WorkTypeOK'
  <1>1. t \in Task
    BY DEF WorkTypeOK
  <1> DEFINE rows == Enters(t, View(t)) \ live
  <1>2. rows \subseteq Row /\ Fresh(t) \subseteq {l \in Cell \X Cell : l[1] # l[2]}
    BY <1>1, ViewType DEF Fresh
  <1>3. UNION {TasksOf[r] : r \in rows} \subseteq Task
    BY <1>2, GraphAssumption
  <1>4. work' \subseteq Task /\ live' \subseteq Row /\ evaluated' \subseteq Task
    BY <1>1, <1>2, <1>3 DEF Eval, Pop, WorkTypeOK
  <1>5. subs' \in [Cell -> SUBSET Task]
    BY <1>1 DEF Eval, Subscribe, WorkTypeOK
  <1>6. links' \subseteq {l \in Cell \X Cell : l[1] # l[2]}
    BY <1>2 DEF Eval, WorkTypeOK
  <1>7. pending' \subseteq Cell \X Value
    <2>1. <<DstCell[t], Transfer(t, View(t))>> \in Cell \X Value
      BY <1>1, ViewType
    <2>2. \A l \in Fresh(t) : <<l[2], ts[l[1]]>> \in Cell \X Value
      BY <1>2 DEF WorkTypeOK
    <2> QED
      BY <2>1, <2>2 DEF Eval
  <1> QED
    BY <1>4, <1>5, <1>6, <1>7 DEF Eval, WorkTypeOK

LEMMA RaiseType ==
    ASSUME WorkTypeOK, NEW p \in pending, Raise(p)
    PROVE WorkTypeOK'
  <1>1. p[1] \in Cell /\ p[2] \in Value /\ ts[p[1]] \in Value /\ subs[p[1]] \subseteq Task
    BY DEF WorkTypeOK
  <1>2. Join(ts[p[1]], p[2]) \in Value
    BY <1>1, JoinType
  <1>3. CASE NoGrowth(ts[p[1]], p[2])
    BY <1>3 DEF Raise, WorkTypeOK
  <1>4. CASE ~NoGrowth(ts[p[1]], p[2])
    <2>1. /\ ts' = [ts EXCEPT ![p[1]] = Join(ts[p[1]], p[2])]
          /\ work' = work \cup subs[p[1]]
          /\ pending' = (pending \ {p})
                \cup {<<d, Join(ts[p[1]], p[2])>> : d \in {e \in Cell : <<p[1], e>> \in links}}
          /\ UNCHANGED <<subs, links, live, evaluated>>
      BY <1>4 DEF Raise
    <2>2. pending' \subseteq Cell \X Value
      <3> SUFFICES ASSUME NEW q \in pending' PROVE q \in Cell \X Value
        OBVIOUS
      <3>1. CASE q \in pending
        BY <3>1 DEF WorkTypeOK
      <3>2. CASE \E d \in Cell : q = <<d, Join(ts[p[1]], p[2])>>
        BY <3>2, <1>2
      <3> QED
        BY <2>1, <3>1, <3>2
    <2>3. ts' \in [Cell -> Value]
      BY <1>1, <1>2, <2>1 DEF WorkTypeOK
    <2> QED
      BY <1>1, <2>1, <2>2, <2>3 DEF WorkTypeOK
  <1> QED
    BY <1>3, <1>4

\* The worklist keeps its types: tasks and rows that exist, links between
\* different cells, values of the lattice.
THEOREM WorkTypeCorrect == WorkSpec => []WorkTypeOK
  <1>1. WorkTypeOK /\ [WorkNext]_workVars => WorkTypeOK'
    <2> SUFFICES ASSUME WorkTypeOK, [WorkNext]_workVars PROVE WorkTypeOK'
      OBVIOUS
    <2>1. CASE \E t \in work : Eval(t)
      BY <2>1, EvalType
    <2>2. CASE \E p \in pending : Raise(p)
      BY <2>2, RaiseType
    <2>3. CASE UNCHANGED workVars
      BY <2>3 DEF WorkTypeOK, workVars
    <2> QED
      BY <2>1, <2>2, <2>3 DEF WorkNext
  <1> QED
    BY TypeInit, <1>1, PTL DEF WorkSpec

-----------------------------------------------------------------------------
(* No growth is missed.                                                     *)

LEMMA InPromised ==
    ASSUME NEW c, NEW q \in pending, q[1] = c
    PROVE q[2].ev \subseteq Promised(c)
  BY DEF Promised

LEMMA WakeupInit == WorkInit => NoMissedWakeup
  BY GraphAssumption DEF WorkInit, NoMissedWakeup

LEMMA EvalWakeup ==
    ASSUME WorkTypeOK, NoMissedWakeup, NEW t \in work, Eval(t)
    PROVE NoMissedWakeup'
  <1> DEFINE rows == Enters(t, View(t)) \ live
             dst == <<DstCell[t], Transfer(t, View(t))>>
  <1>1. t \in Task /\ pending = {} /\ ts' = ts
    BY DEF WorkTypeOK, Eval
  <1>2. /\ work' = (work \ {t}) \cup UNION {TasksOf[r] : r \in rows}
        /\ subs' = Subscribe(t)
        /\ live' = live \cup rows
        /\ links' = links \cup Fresh(t)
        /\ pending' = {dst} \cup {<<l[2], ts[l[1]]>> : l \in {m \in Fresh(t) : ~IsEmpty(ts[m[1]])}}
        /\ evaluated' = evaluated \cup {t}
    BY DEF Eval, Pop
  <1>3. \A s : View(s)' = View(s)
    BY <1>1 DEF View
  <1>4. \A c : ts[c].ev \subseteq Promised(c)' /\ Promised(c) = ts[c].ev
    BY <1>1 DEF Promised
  <1>5. \A s \in evaluated' : \A c \in ReadCells[s] : s \in subs'[c]
    <2> SUFFICES ASSUME NEW s \in evaluated', NEW c \in ReadCells[s] PROVE s \in subs'[c]
      OBVIOUS
    <2>1. s \in Task /\ c \in Cell
      BY <1>1, <1>2, ViewType DEF WorkTypeOK
    <2>2. CASE s = t
      BY <1>2, <2>1, <2>2 DEF Subscribe
    <2>3. CASE s \in evaluated
      BY <1>2, <2>1, <2>3 DEF Subscribe, NoMissedWakeup
    <2> QED
      BY <1>2, <2>2, <2>3
  <1>6. \A s \in evaluated' \ work' :
           /\ Transfer(s, View(s)).ev \subseteq Promised(DstCell[s])'
           /\ Enters(s, View(s)) \subseteq live'
           /\ \A l \in Installs(s, View(s)) : l[1] # l[2] => l \in links'
    <2> SUFFICES ASSUME NEW s \in evaluated' \ work'
                 PROVE /\ Transfer(s, View(s)).ev \subseteq Promised(DstCell[s])'
                       /\ Enters(s, View(s)) \subseteq live'
                       /\ \A l \in Installs(s, View(s)) : l[1] # l[2] => l \in links'
      OBVIOUS
    <2>1. CASE s = t
      <3>1. dst \in pending' /\ dst[1] = DstCell[t] /\ dst[2] = Transfer(t, View(t))
        BY <1>2
      <3>2. Transfer(t, View(t)).ev \subseteq Promised(DstCell[t])'
        BY <3>1 DEF Promised
      <3> QED
        BY <1>2, <2>1, <3>2 DEF Fresh
    <2>2. CASE s # t
      <3>1. s \in evaluated \ work
        BY <1>2, <2>2
      <3>2. Transfer(s, View(s)).ev \subseteq Promised(DstCell[s])
        BY <3>1 DEF NoMissedWakeup
      <3> QED
        BY <1>2, <1>4, <3>1, <3>2 DEF NoMissedWakeup
    <2> QED
      BY <2>1, <2>2
  <1>7. \A l \in links' : IsEmpty(ts[l[1]]) \/ ts[l[1]].ev \subseteq Promised(l[2])'
    <2> SUFFICES ASSUME NEW l \in links', ~IsEmpty(ts[l[1]])
                 PROVE ts[l[1]].ev \subseteq Promised(l[2])'
      OBVIOUS
    <2>1. CASE l \in links
      BY <1>4, <2>1 DEF NoMissedWakeup
    <2>2. CASE l \in Fresh(t)
      <3> DEFINE q == <<l[2], ts[l[1]]>>
      <3>1. q \in pending' /\ q[1] = l[2] /\ q[2] = ts[l[1]]
        BY <1>2, <2>2
      <3> QED
        BY <3>1 DEF Promised
    <2> QED
      BY <1>2, <2>1, <2>2
  <1>8. \A r \in live' : TasksOf[r] \subseteq evaluated' \cup work'
    <2> SUFFICES ASSUME NEW r \in live', NEW s \in TasksOf[r] PROVE s \in evaluated' \cup work'
      OBVIOUS
    <2>1. CASE r \in live
      BY <1>2, <2>1 DEF NoMissedWakeup
    <2>2. CASE r \in rows
      BY <1>2, <2>2
    <2> QED
      BY <1>2, <2>1, <2>2
  <1> QED
    BY <1>1, <1>3, <1>5, <1>6, <1>7, <1>8 DEF NoMissedWakeup, IsEmpty

LEMMA RaiseWakeup ==
    ASSUME WorkTypeOK, NoMissedWakeup, NEW p \in pending, Raise(p)
    PROVE NoMissedWakeup'
  <1> DEFINE cell == p[1]
             new == Join(ts[cell], p[2])
  <1>1. cell \in Cell /\ p[2] \in Value /\ ts[cell] \in Value
    BY DEF WorkTypeOK
  <1>2. new.ev = ts[cell].ev \cup p[2].ev
    BY <1>1, JoinType
  <1>3. UNCHANGED <<subs, links, live, evaluated>>
    BY DEF Raise
  <1>4. CASE NoGrowth(ts[cell], p[2])
    <2>1. pending' = pending \ {p} /\ UNCHANGED <<ts, work>>
      BY <1>4 DEF Raise
    <2>2. \A c : Promised(c) \subseteq Promised(c)'
      BY <1>4, <2>1 DEF Promised, NoGrowth
    <2>3. \A s : View(s)' = View(s)
      BY <2>1 DEF View
    <2> QED
      BY <1>3, <2>1, <2>2, <2>3 DEF NoMissedWakeup, IsEmpty
  <1>5. CASE ~NoGrowth(ts[cell], p[2])
    <2>1. /\ ts' = [ts EXCEPT ![cell] = new]
          /\ work' = work \cup subs[cell]
          /\ pending' = (pending \ {p}) \cup {<<d, new>> : d \in {e \in Cell : <<cell, e>> \in links}}
      BY <1>5 DEF Raise
    <2>2. \A c \in Cell : Promised(c) \subseteq Promised(c)'
      <3> SUFFICES ASSUME NEW c \in Cell, NEW e \in Promised(c) PROVE e \in Promised(c)'
        OBVIOUS
      <3>1. ts[c].ev \subseteq ts'[c].ev
        BY <1>1, <1>2, <2>1 DEF WorkTypeOK
      <3>2. CASE e \in ts[c].ev
        BY <3>1, <3>2 DEF Promised
      <3>3. CASE \E q \in pending : q[1] = c /\ e \in q[2].ev
        <4>1. PICK q \in pending : q[1] = c /\ e \in q[2].ev
          BY <3>3
        <4>2. CASE q = p
          <5>1. e \in ts'[c].ev
            BY <1>1, <1>2, <2>1, <4>1, <4>2 DEF WorkTypeOK
          <5> QED
            BY <5>1 DEF Promised
        <4>3. CASE q # p
          BY <2>1, <4>1, <4>3 DEF Promised
        <4> QED
          BY <4>2, <4>3
      <3> QED
        BY <3>2, <3>3 DEF Promised
    <2>3. \A s \in evaluated' \ work' : s \in evaluated \ work /\ View(s)' = View(s)
      <3> SUFFICES ASSUME NEW s \in evaluated' \ work'
                   PROVE s \in evaluated \ work /\ View(s)' = View(s)
        OBVIOUS
      <3>1. s \in evaluated \ work /\ s \notin subs[cell] /\ s \in Task
        BY <1>3, <2>1 DEF WorkTypeOK
      <3>2. cell \notin ReadCells[s] /\ ReadCells[s] \subseteq Cell
        BY <3>1, GraphAssumption DEF NoMissedWakeup
      <3>3. \A c \in ReadCells[s] : ts'[c] = ts[c]
        BY <2>1, <3>2 DEF WorkTypeOK
      <3> QED
        BY <3>1, <3>3 DEF View
    <2>4. \A l \in links : IsEmpty(ts'[l[1]]) \/ ts'[l[1]].ev \subseteq Promised(l[2])'
      <3> SUFFICES ASSUME NEW l \in links, ~IsEmpty(ts'[l[1]])
                   PROVE ts'[l[1]].ev \subseteq Promised(l[2])'
        OBVIOUS
      <3>1. l \in Cell \X Cell /\ l[1] \in Cell /\ l[2] \in Cell /\ l = <<l[1], l[2]>>
        BY DEF WorkTypeOK
      <3>2. CASE l[1] = cell
        <4> DEFINE q == <<l[2], new>>
        <4>1. q \in pending' /\ q[1] = l[2] /\ q[2] = new
          BY <2>1, <3>1, <3>2
        <4>2. ts'[l[1]] = new
          BY <1>1, <2>1, <3>2 DEF WorkTypeOK
        <4> QED
          BY <4>1, <4>2 DEF Promised
      <3>3. CASE l[1] # cell
        <4>1. ts'[l[1]] = ts[l[1]]
          BY <2>1, <3>1, <3>3 DEF WorkTypeOK
        <4> QED
          BY <2>2, <3>1, <4>1 DEF NoMissedWakeup
      <3> QED
        BY <3>2, <3>3
    <2>5. \A s \in evaluated' \ work' :
             /\ Transfer(s, View(s)').ev \subseteq Promised(DstCell[s])'
             /\ Enters(s, View(s)') \subseteq live'
             /\ \A l \in Installs(s, View(s)') : l[1] # l[2] => l \in links'
      <3> SUFFICES ASSUME NEW s \in evaluated' \ work'
                   PROVE /\ Transfer(s, View(s)').ev \subseteq Promised(DstCell[s])'
                         /\ Enters(s, View(s)') \subseteq live'
                         /\ \A l \in Installs(s, View(s)') : l[1] # l[2] => l \in links'
        OBVIOUS
      <3>1. s \in evaluated \ work /\ View(s)' = View(s) /\ s \in Task
        BY <2>3 DEF WorkTypeOK
      <3>2. DstCell[s] \in Cell
        BY <3>1, GraphAssumption
      <3> QED
        BY <1>3, <2>2, <3>1, <3>2 DEF NoMissedWakeup
    <2> QED
      BY <1>3, <2>1, <2>4, <2>5 DEF NoMissedWakeup, IsEmpty
  <1> QED
    BY <1>4, <1>5

\* No growth is missed, whatever the order in which the tasks are popped and the
\* raises done (engine.rs: read subscribes, raise re-fires, link propagates).
THEOREM WakeupCorrect == WorkSpec => []NoMissedWakeup
  <1>1. WorkTypeOK /\ NoMissedWakeup /\ [WorkNext]_workVars => NoMissedWakeup'
    <2> SUFFICES ASSUME WorkTypeOK, NoMissedWakeup, [WorkNext]_workVars PROVE NoMissedWakeup'
      OBVIOUS
    <2>1. CASE \E t \in work : Eval(t)
      BY <2>1, EvalWakeup
    <2>2. CASE \E p \in pending : Raise(p)
      BY <2>2, RaiseWakeup
    <2>3. CASE UNCHANGED workVars
      BY <2>3 DEF NoMissedWakeup, workVars, View, Promised, IsEmpty
    <2> QED
      BY <2>1, <2>2, <2>3 DEF WorkNext
  <1> QED
    BY WakeupInit, WorkTypeCorrect, <1>1, PTL DEF WorkSpec

\* A drained worklist is a solution: every task of every live row and every
\* standing link is satisfied by the final values.
THEOREM SolvedCorrect == WorkSpec => []Solved
  <1>1. NoMissedWakeup => Solved
    <2> SUFFICES ASSUME NoMissedWakeup, AtRest PROVE Solved
      BY DEF Solved
    <2>1. \A c : Promised(c) = ts[c].ev
      BY DEF AtRest, Promised
    <2>2. \A r \in live : \A t \in TasksOf[r] : t \in evaluated \ work
      BY DEF NoMissedWakeup, AtRest
    <2> QED
      BY <2>1, <2>2 DEF NoMissedWakeup, Solved
  <1> QED
    BY WakeupCorrect, <1>1, PTL

\* Cells only grow: no evaluation and no raise takes back evidence or the unknown
\* flag (TypeSet::join_from).
THEOREM GrowthCorrect == WorkSpec => CellsGrow
  <1>1. WorkTypeOK /\ [WorkNext]_workVars => [Below(ts, ts')]_workVars
    <2> SUFFICES ASSUME WorkTypeOK, WorkNext PROVE Below(ts, ts')
      OBVIOUS
    <2>1. CASE ts' = ts
      BY <2>1 DEF Below, Leq
    <2>2. ASSUME NEW p \in pending, Raise(p), ts' # ts
          PROVE Below(ts, ts')
      <3>1. p[1] \in Cell /\ p[2] \in Value /\ ts[p[1]] \in Value
        BY DEF WorkTypeOK
      <3>2. ts' = [ts EXCEPT ![p[1]] = Join(ts[p[1]], p[2])]
        BY <2>2 DEF Raise
      <3> QED
        BY <3>1, <3>2, JoinType DEF Below, Leq, WorkTypeOK
    <2> QED
      BY <2>1, <2>2 DEF WorkNext, Eval
  <1> QED
    BY WorkTypeCorrect, <1>1, PTL DEF WorkSpec, CellsGrow


-----------------------------------------------------------------------------
(* Nothing is invented: the worklist never rises above a solution of the    *)
(* constraints, so what it drains to is below every one of them.            *)

Seen(t, f) == [c \in ReadCells[t] |-> f[c]]

\* Cell values f, rows L and links K that satisfy the seeds, every task of every row
\* and every link, the unknown flags included.
IsSolution(f, L, K) ==
    /\ f \in [Cell -> Value] /\ Below(SeedOf, f)
    /\ Roots \subseteq L /\ L \subseteq Row
    /\ \A r \in L : \A t \in TasksOf[r] :
         /\ Leq(Transfer(t, Seen(t, f)), f[DstCell[t]])
         /\ Enters(t, Seen(t, f)) \subseteq L
         /\ \A l \in Installs(t, Seen(t, f)) : l[1] # l[2] => l \in K
    /\ \A l \in K : Leq(f[l[1]], f[l[2]])

Under(f, L, K) == Below(ts, f) /\ live \subseteq L /\ links \subseteq K

\* Inductive with what is queued and what is still to be raised.
UnderInv(f, L, K) ==
    /\ Under(f, L, K)
    /\ \A t \in work : \E r \in L : t \in TasksOf[r]
    /\ \A p \in pending : Leq(p[2], f[p[1]])

LEMMA LeqTrans ==
    ASSUME NEW u, NEW v, NEW w, Leq(u, v), Leq(v, w)
    PROVE Leq(u, w)
  BY DEF Leq

LEMMA JoinLeast ==
    ASSUME NEW u \in Value, NEW v \in Value, NEW w \in Value, Leq(u, w), Leq(v, w)
    PROVE Leq(Join(u, v), w)
  BY DEF Join, Leq, Value

\* What a task of a solution's row does below the solution, the solution allows.
LEMMA TaskUnder ==
    ASSUME WorkTypeOK, NEW f, NEW L, NEW K, IsSolution(f, L, K), Below(ts, f),
           NEW r \in L, NEW t \in TasksOf[r]
    PROVE /\ Leq(Transfer(t, View(t)), f[DstCell[t]])
          /\ Enters(t, View(t)) \subseteq L
          /\ \A l \in Installs(t, View(t)) : l[1] # l[2] => l \in K
  <1>1. t \in Task
    BY GraphAssumption DEF IsSolution
  <1>2. View(t) \in [ReadCells[t] -> Value] /\ ReadCells[t] \subseteq Cell
    BY <1>1, ViewType
  <1>3. Seen(t, f) \in [ReadCells[t] -> Value]
    BY <1>2 DEF IsSolution, Seen
  <1>4. \A c \in ReadCells[t] : Leq(View(t)[c], Seen(t, f)[c])
    BY <1>2 DEF View, Seen, Below
  <1>5. /\ Leq(Transfer(t, View(t)), Transfer(t, Seen(t, f)))
        /\ Enters(t, View(t)) \subseteq Enters(t, Seen(t, f))
        /\ Installs(t, View(t)) \subseteq Installs(t, Seen(t, f))
    BY <1>1, <1>2, <1>3, <1>4, TransferAssumption
  <1>6. /\ Leq(Transfer(t, Seen(t, f)), f[DstCell[t]])
        /\ Enters(t, Seen(t, f)) \subseteq L
        /\ \A l \in Installs(t, Seen(t, f)) : l[1] # l[2] => l \in K
    BY DEF IsSolution
  <1>7. Leq(Transfer(t, View(t)), f[DstCell[t]])
    BY <1>5, <1>6, LeqTrans
  <1> QED
    BY <1>5, <1>6, <1>7

LEMMA EvalUnder ==
    ASSUME WorkTypeOK, NEW f, NEW L, NEW K, IsSolution(f, L, K), UnderInv(f, L, K),
           NEW t \in work, Eval(t)
    PROVE UnderInv(f, L, K)'
  <1>1. PICK r \in L : t \in TasksOf[r]
    BY DEF UnderInv
  <1>2. Below(ts, f) /\ live \subseteq L /\ links \subseteq K
    BY DEF UnderInv, Under
  <1>3. /\ Leq(Transfer(t, View(t)), f[DstCell[t]])
        /\ Enters(t, View(t)) \subseteq L
        /\ \A l \in Installs(t, View(t)) : l[1] # l[2] => l \in K
    BY <1>1, <1>2, TaskUnder
  <1>4. Fresh(t) \subseteq K
    BY <1>3 DEF Fresh
  <1>5. Under(f, L, K)'
    BY <1>2, <1>3, <1>4 DEF Eval, Under
  <1>6. \A s \in work' : \E q \in L : s \in TasksOf[q]
    BY <1>3 DEF Eval, Pop, UnderInv
  <1>7. \A p \in pending' : Leq(p[2], f[p[1]])
    <2> SUFFICES ASSUME NEW p \in pending' PROVE Leq(p[2], f[p[1]])
      OBVIOUS
    <2>1. CASE p = <<DstCell[t], Transfer(t, View(t))>>
      BY <2>1, <1>3
    <2>2. CASE \E l \in Fresh(t) : p = <<l[2], ts[l[1]]>>
      <3>1. PICK l \in Fresh(t) : p = <<l[2], ts[l[1]]>>
        BY <2>2
      <3>2. l \in Cell \X Cell
        <4>1. t \in Task
          BY DEF WorkTypeOK
        <4> QED
          BY <3>1, <4>1, ViewType DEF Fresh
      <3>3. Leq(ts[l[1]], f[l[1]])
        BY <1>2, <3>2 DEF Below
      <3>4. Leq(f[l[1]], f[l[2]])
        BY <1>4 DEF IsSolution
      <3> QED
        BY <3>1, <3>3, <3>4, LeqTrans
    <2> QED
      BY <2>1, <2>2 DEF Eval
  <1> QED
    BY <1>5, <1>6, <1>7 DEF UnderInv

LEMMA RaiseUnder ==
    ASSUME WorkTypeOK, NoMissedWakeup, NEW f, NEW L, NEW K, IsSolution(f, L, K), UnderInv(f, L, K),
           \A c \in Cell : \A s \in subs[c] : \E r \in L : s \in TasksOf[r],
           NEW p \in pending, Raise(p)
    PROVE UnderInv(f, L, K)'
  <1> DEFINE cell == p[1]
             new == Join(ts[cell], p[2])
  <1>1. cell \in Cell /\ p[2] \in Value /\ ts[cell] \in Value /\ f[cell] \in Value
    BY DEF WorkTypeOK, IsSolution
  <1>2. Leq(new, f[cell])
    <2>1. Leq(ts[cell], f[cell]) /\ Leq(p[2], f[cell])
      BY <1>1 DEF UnderInv, Under, Below
    <2> QED
      BY <1>1, <2>1, JoinLeast
  <1>3. CASE NoGrowth(ts[cell], p[2])
    BY <1>3 DEF Raise, UnderInv, Under, Below
  <1>4. CASE ~NoGrowth(ts[cell], p[2])
    <2>1. /\ ts' = [ts EXCEPT ![cell] = new]
          /\ work' = work \cup subs[cell]
          /\ pending' = (pending \ {p}) \cup {<<d, new>> : d \in {e \in Cell : <<cell, e>> \in links}}
          /\ UNCHANGED <<links, live>>
      BY <1>4 DEF Raise
    <2>2. Below(ts', f)
      BY <1>1, <1>2, <2>1 DEF UnderInv, Under, Below, WorkTypeOK
    <2>3. \A q \in pending' : Leq(q[2], f[q[1]])
      <3> SUFFICES ASSUME NEW q \in pending' PROVE Leq(q[2], f[q[1]])
        OBVIOUS
      <3>1. CASE q \in pending
        BY <3>1 DEF UnderInv
      <3>2. CASE \E d \in Cell : <<cell, d>> \in links /\ q = <<d, new>>
        <4>1. PICK d \in Cell : <<cell, d>> \in links /\ q = <<d, new>>
          BY <3>2
        <4> DEFINE l == <<cell, d>>
        <4>2. l \in K /\ l[1] = cell /\ l[2] = d
          BY <4>1 DEF UnderInv, Under
        <4> HIDE DEF l
        <4>3. Leq(f[cell], f[d])
          BY <4>2 DEF IsSolution
        <4> QED
          BY <1>2, <4>1, <4>3, LeqTrans
      <3> QED
        BY <2>1, <3>1, <3>2
    <2> QED
      BY <1>1, <2>1, <2>2, <2>3 DEF UnderInv, Under
  <1> QED
    BY <1>3, <1>4

\* Only tasks of live rows are queued, evaluated or subscribed.
LEMMA SubsUnder ==
    ASSUME NEW f, NEW L, NEW K, WorkTypeOK, UnderInv(f, L, K), [WorkNext]_workVars,
           \A c \in Cell : \A s \in subs[c] : \E r \in L : s \in TasksOf[r]
    PROVE \A c \in Cell : \A s \in subs'[c] : \E r \in L : s \in TasksOf[r]
  <1>1. CASE subs' = subs
    BY <1>1
  <1>2. ASSUME NEW t \in work, Eval(t)
        PROVE \A c \in Cell : \A s \in subs'[c] : \E r \in L : s \in TasksOf[r]
    BY <1>2 DEF Eval, Subscribe, UnderInv
  <1> QED
    BY <1>1, <1>2 DEF WorkNext, Raise, workVars

\* Whatever the order of evaluation, every value, row and link the analysis ever holds
\* is contained in every solution of its constraints: together with Solved, it drains to
\* evidence all of which is forced by the seeds and the constraints.
THEOREM LeastCorrect ==
    ASSUME NEW CONSTANT f, NEW CONSTANT L, NEW CONSTANT K, IsSolution(f, L, K)
    PROVE WorkSpec => []Under(f, L, K)
  <1> DEFINE Inv == /\ UnderInv(f, L, K)
                    /\ \A c \in Cell : \A s \in subs[c] : \E r \in L : s \in TasksOf[r]
  <1>1. WorkInit => Inv
    BY GraphAssumption DEF WorkInit, UnderInv, Under, IsSolution
  <1>2. WorkTypeOK /\ NoMissedWakeup /\ Inv /\ [WorkNext]_workVars => Inv'
    <2> SUFFICES ASSUME WorkTypeOK, NoMissedWakeup, Inv, [WorkNext]_workVars PROVE Inv'
      OBVIOUS
    <2>1. CASE \E t \in work : Eval(t)
      BY <2>1, EvalUnder, SubsUnder
    <2>2. CASE \E p \in pending : Raise(p)
      BY <2>2, RaiseUnder, SubsUnder
    <2>3. CASE UNCHANGED workVars
      BY <2>3 DEF UnderInv, Under, Below, workVars
    <2> QED
      BY <2>1, <2>2, <2>3 DEF WorkNext
  <1>3. Inv => Under(f, L, K)
    BY DEF UnderInv
  <1> HIDE DEF Inv
  <1> QED
    BY <1>1, <1>2, <1>3, WorkTypeCorrect, WakeupCorrect, PTL DEF WorkSpec

=============================================================================
