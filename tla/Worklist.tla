------------------------------- MODULE Worklist -------------------------------
(***************************************************************************)
(* The incremental fixpoint engine of compiler/src/likelier/engine.rs:     *)
(* cells hold evidence, constraints evaluated at a context read cells      *)
(* (which subscribes them) and raise others, standing links propagate a    *)
(* raise at once, and evaluations instantiate further rows (a script at a  *)
(* context) and install further links.                                     *)
(*                                                                         *)
(* A task is a constraint at a context.  A value is a set of evidence and  *)
(* the unknown flag.  The worklist is the code's inq set: every order of   *)
(* popping is allowed, the code's FIFO order among them.  The recursion of *)
(* raise is the set of raises still to do; nothing is popped until it is   *)
(* empty.                                                                  *)
(***************************************************************************)
EXTENDS Naturals, FiniteSets

CONSTANTS Cell, Task, Row, Evidence,
          Shadow,         \* the evidence is_empty() does not look at (range, interval)
          ReadCells,      \* the cells a task reads
          DstCell,        \* the cell it raises
          TasksOf,        \* the tasks of a row
          Roots,          \* the rows instantiated before the fixpoint runs
          SeedOf,         \* the evidence of the initial state
          Transfer(_, _), \* what a task computes from the cells it reads
          Enters(_, _),   \* the rows its evaluation instantiates
          Installs(_, _)  \* the links its evaluation installs

Value == [ev : SUBSET Evidence, unk : BOOLEAN]
Leq(v, w) == v.ev \subseteq w.ev /\ (v.unk => w.unk)
Below(f, g) == \A c \in Cell : Leq(f[c], g[c])

ASSUME GraphAssumption ==
    /\ ReadCells \in [Task -> SUBSET Cell]
    /\ DstCell \in [Task -> Cell]
    /\ TasksOf \in [Row -> SUBSET Task]
    /\ Roots \subseteq Row
    /\ SeedOf \in [Cell -> Value]
    /\ Shadow \subseteq Evidence

\* What a task does depends on the cells it reads, and grows with them.
ASSUME TransferAssumption ==
    \A t \in Task : \A f, g \in [ReadCells[t] -> Value] :
       /\ Transfer(t, f) \in Value
       /\ Enters(t, f) \subseteq Row
       /\ Installs(t, f) \subseteq Cell \X Cell
       /\ (\A c \in ReadCells[t] : Leq(f[c], g[c])) =>
            /\ Leq(Transfer(t, f), Transfer(t, g))
            /\ Enters(t, f) \subseteq Enters(t, g)
            /\ Installs(t, f) \subseteq Installs(t, g)

VARIABLES
    ts,         \* cell -> value
    work,       \* the queued tasks (worklist and inq)
    subs,       \* cell -> the tasks to re-fire when it grows
    links,      \* the standing cell-to-cell edges
    live,       \* the instantiated rows (live_ctxs)
    pending,    \* the raises still to be done: <<cell, value>>
    evaluated   \* the tasks evaluated at least once (history)

workVars == <<ts, work, subs, links, live, pending, evaluated>>

-----------------------------------------------------------------------------
\* The snapshot of the cells a task reads.
View(t) == [c \in ReadCells[t] |-> ts[c]]

Bottom == [ev |-> {}, unk |-> FALSE]

\* is_empty(): nothing but range or interval evidence ever flowed here.
IsEmpty(v) == v.ev \subseteq Shadow /\ ~v.unk

\* Mutant: the unknown flag is replaced, not joined.
JoinKnown(v, w) == [ev |-> v.ev \cup w.ev, unk |-> w.unk]

\* TypeSet::join_from
Join(v, w) == [ev |-> v.ev \cup w.ev, unk |-> v.unk \/ w.unk]

\* Mutant: the roots are marked live without queueing their tasks.
WorkInitUnqueued == /\ ts = SeedOf /\ live = Roots /\ work = {}
                /\ subs = [c \in Cell |-> {}] /\ links = {} /\ pending = {} /\ evaluated = {}

\* solve(): every root row is instantiated; seeds were raised before.
WorkInit == /\ ts = SeedOf
            /\ live = Roots
            /\ work = UNION {TasksOf[r] : r \in Roots}
            /\ subs = [c \in Cell |-> {}]
            /\ links = {}
            /\ pending = {}
            /\ evaluated = {}

\* read(): the reader is subscribed to every cell it reads.
Subscribe(t) == [c \in Cell |-> IF c \in ReadCells[t] THEN subs[c] \cup {t} ELSE subs[c]]

\* pop(): the task leaves the queue (and inq) before it is evaluated.
\* Mutant: a popped task stays queued.
PopKeep(t) == work
Pop(t) == work \ {t}

\* link(): a self link and a link already standing are ignored.
Fresh(t) == {l \in Installs(t, View(t)) : l[1] # l[2]} \ links

\* pop() and the evaluation: reads subscribe, fresh rows are enqueued, fresh links
\* propagate their source, the destination is raised.
Eval(t) ==
    LET rows == Enters(t, View(t)) \ live
        fresh == Fresh(t)
    IN /\ pending = {}
       /\ t \in work
       /\ work' = Pop(t) \cup UNION {TasksOf[r] : r \in rows}
       /\ subs' = Subscribe(t)
       /\ live' = live \cup rows
       /\ links' = links \cup fresh
       /\ pending' = {<<DstCell[t], Transfer(t, View(t))>>}
                       \cup {<<l[2], ts[l[1]]>> : l \in {m \in fresh : ~IsEmpty(ts[m[1]])}}
       /\ evaluated' = evaluated \cup {t}
       /\ UNCHANGED ts

\* raise(): the no-growth fast path does not look at the unknown flag; growth
\* re-fires the subscribers and is raised through the links.
NoGrowth(cur, v) == v.ev \subseteq cur.ev

\* Mutant: the raise is not passed on through the links.
RaiseUnlinked(p) ==
    LET new == Join(ts[p[1]], p[2])
    IN /\ p \in pending
       /\ pending' = pending \ {p}
       /\ ts' = [ts EXCEPT ![p[1]] = new]
       /\ work' = IF new = ts[p[1]] THEN work ELSE work \cup subs[p[1]]
       /\ UNCHANGED <<subs, links, live, evaluated>>

Raise(p) ==
    LET cell == p[1]
        new == Join(ts[cell], p[2])
    IN /\ p \in pending
       /\ IF NoGrowth(ts[cell], p[2])
          THEN pending' = pending \ {p} /\ UNCHANGED <<ts, work>>
          ELSE /\ ts' = [ts EXCEPT ![cell] = new]
               /\ work' = work \cup subs[cell]
               /\ pending' = (pending \ {p})
                               \cup {<<d, new>> : d \in {e \in Cell : <<cell, e>> \in links}}
       /\ UNCHANGED <<subs, links, live, evaluated>>

WorkNext == (\E t \in work : Eval(t)) \/ (\E p \in pending : Raise(p))

\* The loop of solve() runs while it can; nothing else runs beside it.
WorkFairness == WF_workVars(WorkNext)

-----------------------------------------------------------------------------
WorkTypeOK ==
    /\ ts \in [Cell -> Value]
    /\ work \subseteq Task
    /\ subs \in [Cell -> SUBSET Task]
    /\ links \subseteq {l \in Cell \X Cell : l[1] # l[2]}
    /\ live \subseteq Row
    /\ pending \subseteq Cell \X Value
    /\ evaluated \subseteq Task

AtRest == work = {} /\ pending = {}

\* What is promised to a cell: what it holds and what is still to be raised into it.
Promised(c) == ts[c].ev \cup UNION {p[2].ev : p \in {q \in pending : q[1] = c}}

\* The inductive invariant behind Solved: every evaluated task that is not queued
\* again is covered by what its destination holds or is about to receive, every
\* link likewise, and a task re-fires because it is subscribed to all it read.
NoMissedWakeup ==
    /\ \A t \in evaluated : \A c \in ReadCells[t] : t \in subs[c]
    /\ \A t \in evaluated \ work :
         /\ Transfer(t, View(t)).ev \subseteq Promised(DstCell[t])
         /\ Enters(t, View(t)) \subseteq live
         /\ \A l \in Installs(t, View(t)) : l[1] # l[2] => l \in links
    /\ \A l \in links : IsEmpty(ts[l[1]]) \/ ts[l[1]].ev \subseteq Promised(l[2])
    /\ \A r \in live : TasksOf[r] \subseteq evaluated \cup work

\* When the worklist has drained, every task of every live row has been evaluated
\* on the final values and every constraint and every link is satisfied: no growth
\* was missed between a read and the raise that used it.
Solved ==
    AtRest =>
      /\ \A r \in live : \A t \in TasksOf[r] :
           /\ Transfer(t, View(t)).ev \subseteq ts[DstCell[t]].ev
           /\ Enters(t, View(t)) \subseteq live
      /\ \A l \in links : IsEmpty(ts[l[1]]) \/ ts[l[1]].ev \subseteq ts[l[2]].ev

\* Cells only grow, so evidence used by an earlier evaluation is never retracted.
CellsGrow == [][Below(ts, ts')]_workVars

\* The worklist drains (the loop of solve() ends) and stays drained.
Drains == <>[]AtRest
=============================================================================
