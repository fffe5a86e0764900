--------------------------- MODULE ValueStackProofs ---------------------------
(***************************************************************************)
(* The value stack for every program: any bodies, calls, splices and       *)
(* limits.  The code takes one thing on trust, that no body uses more than *)
(* the headroom it was entered with.  It is first assumed of the run        *)
(* ([]WithinLimit), then proved from a bound on the slots of the bodies and *)
(* of what is spliced into them (HeadroomSuffices).                         *)
(*                                                                          *)
(* Inv says that activations are stacked: each one's frames, operands and  *)
(* staged arguments lie under its End, and everything above it starts at or *)
(* over that.  A step changes only the last activation or two, and memory   *)
(* only from the last one's sp upward, so what is known of the others stays *)
(* (SwapStack, PushStack, PopStack).  Fits adds how far each activation may *)
(* still grow: its operands up to its body's depth, and a bounded number of *)
(* splices.                                                                 *)
(***************************************************************************)
EXTENDS ValueStack, SequenceTheorems, TLAPS

Mem == [0..VLimit -> Value]
Agree(m, m2, n) == \A k \in 0..VLimit : k < n => m2[k] = m[k]
LiveBelow(m, n) == \A k \in 0..VLimit : k < n => m[k] \in LiveValue

Carriers == UNION {[S -> LiveValue] : S \in SUBSET Nat}
SegType == [body : DOMAIN Code, base : Nat, nformals : Nat, depth : Nat, operands : Nat,
            wrote : BOOLEAN, passed : Seq(LiveValue), carried : Carriers]
ActType == [body : DOMAIN Code, sp : Nat, argc : Nat, kind : {"engine", "direct", "resume"}, saved : Nat,
            passed : Seq(LiveValue), wrote : BOOLEAN, segs : Seq(SegType), ops : Seq(Value),
            mode : {"entry", "run", "helper", "call"}, want : {"op", "env", "args", "splice", "new"},
            need : Nat, top : Nat, target : DOMAIN Code, actuals : Seq(LiveValue)]

\* The end of what an activation needs to find again.
End(a) == IF a.mode = "run" THEN View(a).operands
          ELSE IF a.mode = "helper" THEN a.top
          ELSE IF a.mode = "call" THEN TopOff(a) - a.need
          ELSE a.sp + 2 + IF a.kind = "resume" THEN Code[a.body].nargs + 3 ELSE a.argc

\* The three clauses of FrameAsCalled, for one frame.
ViewHolds(m, v) ==
    /\ \A k \in 1..v.seen :
         (IF k \in DOMAIN v.carried THEN v.carried[k] ELSE m[v.base + 1 + k])
           = (IF k \in DOMAIN v.passed THEN v.passed[k] ELSE Undef)
    /\ m[v.rval] = Undef
    /\ ~v.wrote => \A k \in 1..Code[v.body].nlocals : m[v.locals + k - 1] = Undef

\* Splices lie one above the other, each over the operands it popped.
SegsNest(a) ==
    \A i \in 1..Len(a.segs) :
        /\ RootView(a).operands <= a.segs[i].base
        /\ \A j \in 1..(i - 1) : enter_frame_view(a.segs[j]).operands <= a.segs[i].base
        /\ a.segs[i].operands + a.segs[i].depth <= a.segs[i].base
NoSurplus(a) == \A k \in DOMAIN a.actuals : k > Code[a.target].nargs => ~Raw(a.actuals[k])

\* What an activation's record says about itself.
ActShape(a) ==
    /\ a.argc = Len(a.passed)
    /\ a.kind = "resume" => a.passed = <<>> /\ Code[a.body].gen
    /\ SegsNest(a)
    /\ a.mode = "entry" => a.segs = <<>> /\ a.ops = <<>> /\ a.need = 0 /\ a.wrote = FALSE
    /\ a.mode \in {"helper", "call"} => a.need <= Len(a.ops)
    /\ a.mode = "helper" =>
         /\ a.want \in {"op", "env", "args", "new"} => a.top = TopOff(a)
         /\ a.want \in {"env", "args"} => a.segs = <<>> /\ a.ops = <<>> /\ a.need = 0
         /\ a.want = "env" => Code[a.body].env # "none"
         /\ a.want = "args" => NeedsArgsObj(a.body)
         /\ a.want = "splice" => a.top = TopOff(a) + Len(a.actuals) + 3 /\ (RawSurplus \/ NoSurplus(a))
         /\ a.want = "new" => a.need = Len(a.actuals) + 3
    /\ End(a) <= VLimit

\* Where a construct staged its arguments.
StagedAt(a) == IF a.want = "splice" THEN TopOff(a) ELSE TopOff(a) - a.need
Staged(m, a) ==
    \A k \in 1..Len(a.actuals) :
        m[StagedAt(a) + 1 + k] = IF a.want = "splice" /\ Raw(a.actuals[k]) THEN Undef ELSE a.actuals[k]
Entered(m, a) ==
    IF a.kind = "resume" THEN \A k \in 1..Code[a.body].nargs : m[a.sp + 1 + k] = Undef
    ELSE \A k \in 1..a.argc : m[a.sp + 1 + k] = a.passed[k]

\* What memory holds for an activation.
ActMem(m, a) ==
    /\ a.mode # "entry" /\ ~RawSurplus => \A v \in Views(a) : ViewHolds(m, v)
    /\ a.mode = "entry" => Entered(m, a)
    /\ a.mode = "helper" /\ a.want \in {"splice", "new"} => Staged(m, a)

Stacked(m, st) ==
    /\ m \in Mem /\ st \in Seq(ActType)
    /\ \A i \in 1..Len(st) : ActShape(st[i]) /\ ActMem(m, st[i])
    /\ \A i \in 1..Len(st) : \A j \in 1..(i - 1) : End(st[j]) <= st[i].sp
    /\ \A i \in 2..Len(st) : st[i - 1].mode = IF st[i].kind = "direct" THEN "call" ELSE "helper"
    /\ \A i \in 1..Len(st) : IF st[i].kind = "direct" THEN i > 1
                             ELSE st[i].saved = IF i = 1 THEN 0 ELSE st[i - 1].top

OpsLive(a) == \A k \in DOMAIN a.ops : a.ops[k] \in LiveValue
Settled(m, vt, st) ==
    /\ vt \in Nat
    /\ st = <<>> => vt = 0
    /\ st # <<>> => LET a == st[Len(st)]
                    IN /\ a.mode # "call"
                       /\ a.mode = "helper" => vt = a.top
                       /\ LiveBelow(m, End(a))
                       /\ a.mode = "run" => OpsLive(a)
Inv == Stacked(mem, acts) /\ Settled(mem, vtop, acts)

-----------------------------------------------------------------------------
(* Values, memory and sequences.                                            *)

\* What the program stores is live, and live values are values.
LEMMA Values ==
    /\ Undef \in LiveValue /\ ~Raw(Undef)
    /\ \A n \in Nat : Ptr(n) \in LiveValue /\ <<"i", n>> \in LiveValue
    /\ \A v \in LiveValue : v \in Value
    /\ \A v \in Value : Left(v) \in Value
    /\ \A v \in LiveValue : v[1] # "s"
BY DEF Undef, Ptr, Raw, LiveValue, Value, Left

\* Fill writes a range and nothing else.
LEMMA FillFacts ==
    ASSUME NEW m \in Mem, NEW from \in Nat, NEW n \in Int, NEW v \in Value
    PROVE  /\ Fill(m, from, n, v) \in Mem
           /\ \A k \in 0..VLimit : Fill(m, from, n, v)[k] = IF k >= from /\ k < from + n THEN v ELSE m[k]
BY DEF Fill, Mem

\* Write writes a sequence and nothing else.
LEMMA WriteFacts ==
    ASSUME NEW m \in Mem, NEW from \in Nat, NEW vs \in Seq(Value)
    PROVE  /\ Write(m, from, vs) \in Mem
           /\ \A k \in 0..VLimit :
                Write(m, from, vs)[k] = IF k >= from /\ k < from + Len(vs) THEN vs[k - from + 1] ELSE m[k]
<1>1. \A k \in 0..VLimit : k >= from /\ k < from + Len(vs) => k - from + 1 \in 1..Len(vs) /\ vs[k - from + 1] \in Value
  BY StackAssumption
<1>. QED BY <1>1 DEF Write, Mem

\* One slot.
LEMMA PutFacts ==
    ASSUME NEW m \in Mem, NEW at \in Nat, NEW v \in Value
    PROVE  /\ [m EXCEPT ![at] = v] \in Mem
           /\ \A k \in 0..VLimit : [m EXCEPT ![at] = v][k] = IF k = at THEN v ELSE m[k]
BY DEF Mem

\* ReadSlots gives the slots in order.
LEMMA ReadFacts ==
    ASSUME NEW m \in Mem, NEW from \in Nat, NEW n \in Nat, from + n <= VLimit + 1
    PROVE  /\ ReadSlots(m, from, n) \in Seq(Value) /\ Len(ReadSlots(m, from, n)) = n
           /\ \A i \in 1..n : from + i - 1 \in 0..VLimit /\ ReadSlots(m, from, n)[i] = m[from + i - 1]
<1>1. \A i \in 1..n : from + i - 1 \in 0..VLimit /\ m[from + i - 1] \in Value
  BY StackAssumption DEF Mem
<1>. QED BY <1>1 DEF ReadSlots

\* The fields of an activation.
LEMMA Fields ==
    ASSUME NEW a \in ActType
    PROVE  /\ a.body \in DOMAIN Code /\ a.sp \in Nat /\ a.argc \in Nat /\ a.saved \in Nat /\ a.need \in Nat /\ a.top \in Nat
           /\ a.target \in DOMAIN Code /\ a.kind \in {"engine", "direct", "resume"}
           /\ a.mode \in {"entry", "run", "helper", "call"} /\ a.want \in {"op", "env", "args", "splice", "new"}
           /\ a.passed \in Seq(LiveValue) /\ a.segs \in Seq(SegType) /\ a.ops \in Seq(Value) /\ a.actuals \in Seq(LiveValue)
           /\ Len(a.passed) \in Nat /\ Len(a.segs) \in Nat /\ Len(a.ops) \in Nat /\ Len(a.actuals) \in Nat
           /\ a.wrote \in BOOLEAN
           /\ Code[a.body].nargs \in Nat /\ Code[a.body].nlocals \in Nat
           /\ Code[a.target].nargs \in Nat /\ Code[a.target].nlocals \in Nat
<1>1. /\ a.body \in DOMAIN Code /\ a.sp \in Nat /\ a.argc \in Nat /\ a.saved \in Nat /\ a.need \in Nat /\ a.top \in Nat
      /\ a.target \in DOMAIN Code
  BY DEF ActType
<1>2. /\ a.kind \in {"engine", "direct", "resume"} /\ a.mode \in {"entry", "run", "helper", "call"}
      /\ a.want \in {"op", "env", "args", "splice", "new"} /\ a.wrote \in BOOLEAN
  BY DEF ActType
<1>3. a.passed \in Seq(LiveValue) /\ a.segs \in Seq(SegType) /\ a.ops \in Seq(Value) /\ a.actuals \in Seq(LiveValue)
  BY DEF ActType
<1>4. Len(a.passed) \in Nat /\ Len(a.segs) \in Nat /\ Len(a.ops) \in Nat /\ Len(a.actuals) \in Nat
  BY <1>3
<1>. QED BY <1>1, <1>2, <1>3, <1>4, CodeAssumption

-----------------------------------------------------------------------------
(* The layout of a frame.                                                   *)

ViewShape(v) ==
    /\ v.body \in DOMAIN Code /\ Code[v.body].nlocals \in Nat
    /\ v.base \in Nat /\ v.seen \in Nat /\ v.locals = v.base + 2 + v.seen
    /\ v.rval \in Nat /\ v.rval >= v.locals + Code[v.body].nlocals /\ v.operands = v.rval + 1

\* An activation's own frame: arguments, locals, then the optional slots.
LEMMA RootShape ==
    ASSUME NEW a \in ActType
    PROVE  LET v == RootView(a)
           IN /\ ViewShape(v) /\ v.base = a.sp /\ v.body = a.body /\ v.operands \in Nat
              /\ v.passed = a.passed /\ v.carried = <<>> /\ (v.wrote <=> a.wrote)
              /\ v.seen = IF NeedsArgsObj(a.body) /\ a.argc > Code[a.body].nargs THEN a.argc ELSE Code[a.body].nargs
              /\ v.env = v.locals + Code[a.body].nlocals
              /\ v.args = v.env + IF Code[a.body].env # "none" THEN 1 ELSE 0
              /\ v.nt = v.args + IF NeedsArgsObj(a.body) THEN 1 ELSE 0
              /\ v.env \in Nat /\ v.args \in Nat /\ v.nt \in Nat /\ v.nt <= v.rval
<1>1. /\ a.body \in DOMAIN Code /\ a.sp \in Nat /\ a.argc \in Nat
      /\ Code[a.body].nargs \in Nat /\ Code[a.body].nlocals \in Nat
  BY CodeAssumption DEF ActType
<1>. DEFINE n == Code[a.body].nargs
            c == Code[a.body]
<1>2. vp(a) = a.sp + (IF NeedsArgsObj(a.body) /\ a.argc > n THEN a.argc - n ELSE 0)
  BY DEF vp
<1>3. (IF NeedsArgsObj(a.body) THEN Larger(n, a.argc) ELSE n)
        = IF NeedsArgsObj(a.body) /\ a.argc > n THEN a.argc ELSE n
  BY <1>1 DEF Larger
<1>4. vp(a) + 2 + n = a.sp + 2 + (IF NeedsArgsObj(a.body) /\ a.argc > n THEN a.argc ELSE n)
  BY <1>1, <1>2
<1>. DEFINE v == RootView(a)
            s == IF NeedsArgsObj(a.body) /\ a.argc > n THEN a.argc ELSE n
<1>5. s \in Nat
  BY <1>1
<1>6. /\ v.base = a.sp /\ v.body = a.body /\ v.seen = s /\ v.passed = a.passed /\ v.carried = <<>>
      /\ (v.wrote <=> a.wrote) /\ v.locals = vp(a) + 2 + n
  BY <1>3 DEF RootView
<1>7. /\ v.env = vp(a) + 2 + n + c.nlocals
      /\ v.args = v.env + IF c.env # "none" THEN 1 ELSE 0
      /\ v.nt = v.args + IF NeedsArgsObj(a.body) THEN 1 ELSE 0
  BY DEF RootView
<1>8. v.rval = v.nt + (IF c.nt THEN 1 ELSE 0) /\ v.operands = v.rval + 1
  BY DEF RootView
<1>. HIDE DEF v, s
<1>9. /\ v.locals = v.base + 2 + v.seen /\ v.base \in Nat /\ v.seen \in Nat /\ v.env = v.locals + c.nlocals
      /\ v.locals \in Nat /\ c.nlocals \in Nat
  <2>1. v.locals = a.sp + 2 + s
    BY <1>4, <1>6 DEF s
  <2>. QED BY <1>1, <1>5, <1>6, <1>7, <2>1
<1>10. /\ v.env \in Nat /\ v.args \in Nat /\ v.args >= v.env /\ v.nt \in Nat /\ v.nt >= v.args
       /\ v.rval \in Nat /\ v.rval >= v.nt /\ v.operands \in Nat
  BY <1>7, <1>8, <1>9
<1>11. v.rval >= v.locals + c.nlocals
  BY <1>9, <1>10
<1>12. ViewShape(v)
  BY <1>1, <1>6, <1>8, <1>9, <1>10, <1>11 DEF ViewShape
<1>13. v.seen = IF NeedsArgsObj(a.body) /\ a.argc > n THEN a.argc ELSE n
  BY <1>6 DEF s
<1>. QED BY <1>6, <1>7, <1>9, <1>10, <1>12, <1>13 DEF v

\* A spliced frame.
LEMMA SegShape ==
    ASSUME NEW s \in SegType
    PROVE  LET v == enter_frame_view(s)
           IN /\ ViewShape(v) /\ v.base = s.base /\ v.body = s.body /\ v.operands \in Nat
              /\ v.passed = s.passed /\ v.carried = s.carried /\ (v.wrote <=> s.wrote) /\ v.seen = s.nformals
              /\ v.rval = v.locals + Code[s.body].nlocals
BY CodeAssumption DEF SegType, enter_frame_view, ViewShape

\* The innermost view, and its place over the others.
LEMMA ViewFacts ==
    ASSUME NEW a \in ActType, SegsNest(a)
    PROVE  /\ ViewShape(View(a)) /\ View(a) \in Views(a) /\ View(a).operands \in Nat /\ TopOff(a) \in Nat
           /\ TopOff(a) = View(a).operands + Len(a.ops) /\ a.sp <= View(a).base /\ View(a).base + 3 <= View(a).operands
           /\ \A v \in Views(a) : ViewShape(v) /\ a.sp <= v.base /\ v.operands <= View(a).operands
                                  /\ (v = View(a) \/ v.operands <= View(a).base)
<1>1. a.segs \in Seq(SegType) /\ a.ops \in Seq(Value) /\ a.sp \in Nat
  BY DEF ActType
<1>2. ViewShape(RootView(a)) /\ RootView(a).base = a.sp
  BY RootShape
<1>3. \A i \in 1..Len(a.segs) : a.segs[i] \in SegType /\ ViewShape(enter_frame_view(a.segs[i]))
                                /\ enter_frame_view(a.segs[i]).base = a.segs[i].base
  BY <1>1, SegShape
<1>4. \A v : ViewShape(v) => v.base + 3 <= v.operands /\ v.operands \in Nat /\ v.base \in Nat
  BY DEF ViewShape
<1>5. CASE a.segs = <<>>
  <2>1. View(a) = RootView(a) /\ Views(a) = {RootView(a)}
    BY <1>5 DEF View, Views
  <2>. QED BY <2>1, <1>1, <1>2, <1>4 DEF TopOff
<1>6. CASE a.segs # <<>>
  <2>. DEFINE n == Len(a.segs)
  <2>1. n \in 1..Len(a.segs) /\ n \in Nat /\ DOMAIN a.segs = 1..n
    BY <1>1, <1>6
  <2>2. View(a) = enter_frame_view(a.segs[n])
    BY <1>6 DEF View
  <2>3. View(a) \in Views(a)
    BY <2>1, <2>2 DEF Views
  <2>4. RootView(a).operands <= View(a).base
    BY <1>3, <2>1, <2>2 DEF SegsNest
  <2>5. ASSUME NEW j \in 1..n PROVE enter_frame_view(a.segs[j]) = View(a) \/ enter_frame_view(a.segs[j]).operands <= View(a).base
    <3>1. CASE j = n
      BY <3>1, <2>2
    <3>2. CASE j # n
      BY <3>2, <1>3, <2>1, <2>2 DEF SegsNest
    <3>. QED BY <3>1, <3>2
  <2>6. ASSUME NEW j \in 1..n PROVE a.sp <= enter_frame_view(a.segs[j]).base
    <3>1. RootView(a).operands <= a.segs[j].base
      BY DEF SegsNest
    <3>. QED BY <3>1, <1>1, <1>2, <1>3, <1>4
  <2>7. ViewShape(View(a)) /\ a.sp <= View(a).base
    BY <1>3, <2>1, <2>2, <2>6
  <2>8. \A v \in Views(a) : ViewShape(v) /\ a.sp <= v.base /\ (v = View(a) \/ v.operands <= View(a).base)
    BY <1>1, <1>2, <1>3, <2>1, <2>4, <2>5, <2>6, <2>7 DEF Views
  <2>9. \A v \in Views(a) : v.operands <= View(a).operands
    BY <2>8, <2>7, <1>4
  <2>. HIDE DEF n
  <2>. QED BY <1>1, <1>4, <2>3, <2>7, <2>8, <2>9 DEF TopOff
<1>. QED BY <1>5, <1>6
-----------------------------------------------------------------------------
(* What a change of memory above a frame leaves alone.                      *)

\* A frame's clauses only read the frame.
LEMMA HoldsBelow ==
    ASSUME NEW v, ViewShape(v), NEW m \in Mem, NEW m2 \in Mem, v.operands <= VLimit,
           Agree(m, m2, v.operands), ViewHolds(m, v)
    PROVE  ViewHolds(m2, v)
<1>1. \A k \in Nat : k < v.operands => m2[k] = m[k]
  BY StackAssumption DEF Agree, ViewShape
<1>2. v.rval \in Nat /\ v.rval < v.operands
  BY DEF ViewShape
<1>3. ASSUME NEW k \in 1..v.seen PROVE m2[v.base + 1 + k] = m[v.base + 1 + k]
  BY <1>1 DEF ViewShape
<1>4. ASSUME NEW k \in 1..Code[v.body].nlocals PROVE m2[v.locals + k - 1] = m[v.locals + k - 1]
  BY <1>1 DEF ViewShape
<1>. QED BY <1>1, <1>2, <1>3, <1>4 DEF ViewHolds

\* End, mode by mode.
LEMMA EndCases ==
    ASSUME NEW a
    PROVE  /\ a.mode = "run" => End(a) = View(a).operands
           /\ a.mode = "helper" => End(a) = a.top
           /\ a.mode = "call" => End(a) = TopOff(a) - a.need
           /\ a.mode = "entry" /\ a.kind = "resume" => End(a) = a.sp + 2 + (Code[a.body].nargs + 3)
           /\ a.mode = "entry" /\ a.kind # "resume" => End(a) = a.sp + 2 + a.argc
<1>1. a.mode = "run" => End(a) = View(a).operands
  BY DEF End
<1>2. a.mode = "helper" => End(a) = a.top
  BY DEF End
<1>3. a.mode = "call" => End(a) = TopOff(a) - a.need
  BY DEF End
<1>4. a.mode = "entry" /\ a.kind = "resume" => End(a) = a.sp + 2 + (Code[a.body].nargs + 3)
  BY DEF End
<1>5. a.mode = "entry" /\ a.kind # "resume" => End(a) = a.sp + 2 + a.argc
  BY DEF End
<1>. QED BY <1>1, <1>2, <1>3, <1>4, <1>5

\* An activation reaches from its sp to its End.
LEMMA EndFacts ==
    ASSUME NEW a \in ActType, ActShape(a)
    PROVE  /\ End(a) \in Nat /\ a.sp <= End(a) /\ End(a) <= VLimit /\ SegsNest(a)
           /\ a.mode # "entry" => View(a).operands <= End(a)
           /\ a.mode # "entry" => \A v \in Views(a) : v.operands <= End(a)
           /\ a.mode = "helper" => a.top >= TopOff(a)
           /\ a.mode \in {"helper", "call"} => TopOff(a) - a.need <= End(a)
<1>1. SegsNest(a) /\ End(a) <= VLimit
  BY DEF ActShape
<1>2. a.sp \in Nat /\ a.top \in Nat /\ a.need \in Nat /\ a.argc \in Nat /\ Code[a.body].nargs \in Nat
  BY CodeAssumption DEF ActType
<1>9. a.mode \in {"entry", "run", "helper", "call"} /\ a.want \in {"op", "env", "args", "splice", "new"}
  BY DEF ActType
<1>10. Len(a.ops) \in Nat /\ Len(a.actuals) \in Nat
  BY DEF ActType
<1>3. /\ View(a).operands \in Nat /\ TopOff(a) \in Nat /\ TopOff(a) = View(a).operands + Len(a.ops)
      /\ View(a).base + 3 <= View(a).operands /\ a.sp <= View(a).base /\ View(a).base \in Nat
      /\ \A v \in Views(a) : v.operands \in Nat /\ v.operands <= View(a).operands
  BY <1>1, ViewFacts DEF ViewShape
<1>4. ASSUME NEW e \in Nat, End(a) = e, View(a).operands <= e PROVE \A v \in Views(a) : v.operands <= End(a)
  BY <1>3, <1>4
<1>5. CASE a.mode = "run"
  <2>1. End(a) = View(a).operands
    BY <1>5, EndCases
  <2>2. View(a).operands <= End(a) /\ End(a) \in Nat /\ a.sp <= End(a)
    BY <1>2, <1>3, <2>1
  <2>. QED BY <1>1, <1>4, <1>5, <2>2
<1>6. CASE a.mode = "helper"
  <2>1. a.top >= TopOff(a)
    <3>1. CASE a.want = "splice"
      <4>1. a.top = TopOff(a) + Len(a.actuals) + 3
        BY <1>6, <3>1 DEF ActShape
      <4>. QED BY <1>3, <1>10, <4>1
    <3>2. CASE a.want # "splice"
      <4>1. a.top = TopOff(a)
        BY <1>6, <1>9, <3>2 DEF ActShape
      <4>. QED BY <1>3, <4>1
    <3>. QED BY <3>1, <3>2
  <2>2. End(a) = a.top
    BY <1>6, EndCases
  <2>4. View(a).operands <= a.top
    BY <1>2, <1>3, <2>1
  <2>5. a.sp <= a.top
    BY <1>2, <1>3, <2>1
  <2>6. TopOff(a) - a.need <= a.top
    BY <1>2, <1>3, <2>1
  <2>3. View(a).operands <= End(a) /\ End(a) \in Nat /\ a.sp <= End(a) /\ TopOff(a) - a.need <= End(a)
    BY <1>2, <2>2, <2>4, <2>5, <2>6
  <2>. QED BY <1>1, <1>4, <1>6, <2>1, <2>3
<1>7. CASE a.mode = "call"
  <2>1. a.need <= Len(a.ops)
    BY <1>7 DEF ActShape
  <2>2. End(a) = TopOff(a) - a.need
    BY <1>7, EndCases
  <2>4. TopOff(a) - a.need \in Nat /\ View(a).operands <= TopOff(a) - a.need /\ a.sp <= TopOff(a) - a.need
    <3>1. View(a).operands \in Nat /\ TopOff(a) = View(a).operands + Len(a.ops) /\ a.sp <= View(a).operands
      BY <1>2, <1>3
    <3>2. a.need \in Nat /\ a.sp \in Nat
      BY <1>2
    <3>. QED BY <1>10, <2>1, <3>1, <3>2
  <2>3. View(a).operands <= End(a) /\ End(a) \in Nat /\ a.sp <= End(a) /\ TopOff(a) - a.need <= End(a)
    BY <2>2, <2>4
  <2>. QED BY <1>1, <1>4, <1>7, <2>3
<1>8. CASE a.mode = "entry"
  <2>1. End(a) \in Nat /\ a.sp <= End(a)
    <3>1. CASE a.kind = "resume"
      <4>1. a.sp + 2 + (Code[a.body].nargs + 3) \in Nat /\ a.sp <= a.sp + 2 + (Code[a.body].nargs + 3)
        BY <1>2
      <4>. QED BY <1>8, <3>1, <4>1, EndCases
    <3>2. CASE a.kind # "resume"
      <4>1. a.sp + 2 + a.argc \in Nat /\ a.sp <= a.sp + 2 + a.argc
        BY <1>2
      <4>. QED BY <1>8, <3>2, <4>1, EndCases
    <3>. QED BY <3>1, <3>2
  <2>. QED BY <1>1, <1>8, <2>1
<1>. QED BY <1>9, <1>5, <1>6, <1>7, <1>8

\* What memory holds for an activation lies under its End.
LEMMA MemBelow ==
    ASSUME NEW a \in ActType, ActShape(a), NEW m \in Mem, NEW m2 \in Mem,
           Agree(m, m2, End(a)), ActMem(m, a)
    PROVE  ActMem(m2, a)
<1>1. End(a) \in Nat /\ End(a) <= VLimit /\ SegsNest(a) /\ a.sp \in Nat /\ a.argc \in Nat
      /\ Code[a.body].nargs \in Nat /\ Len(a.actuals) \in Nat /\ a.need \in Nat /\ Len(a.ops) \in Nat /\ a.top \in Nat
  BY EndFacts, CodeAssumption DEF ActType
<1>2. \A k \in Nat : k < End(a) => m2[k] = m[k]
  BY <1>1, StackAssumption DEF Agree
<1>3. ASSUME a.mode # "entry", ~RawSurplus, NEW v \in Views(a) PROVE ViewHolds(m2, v)
  <2>1. ViewShape(v) /\ v.operands <= End(a) /\ v.operands \in Nat
    BY <1>1, <1>3, ViewFacts, EndFacts DEF ViewShape
  <2>2. ViewHolds(m, v)
    BY <1>3 DEF ActMem
  <2>3. Agree(m, m2, v.operands) /\ v.operands <= VLimit
    BY <1>1, <2>1, StackAssumption DEF Agree
  <2>. QED BY <2>1, <2>2, <2>3, HoldsBelow
<1>4. ASSUME a.mode = "entry" PROVE Entered(m2, a)
  <2>1. Entered(m, a)
    BY <1>4 DEF ActMem
  <2>2. CASE a.kind = "resume"
    <3>1. \A k \in 1..Code[a.body].nargs : a.sp + 1 + k \in Nat /\ a.sp + 1 + k < End(a)
      <4>1. End(a) = a.sp + 2 + (Code[a.body].nargs + 3)
        BY <1>4, <2>2, EndCases
      <4>2. \A k \in 1..Code[a.body].nargs : a.sp + 1 + k \in Nat /\ a.sp + 1 + k < a.sp + 2 + (Code[a.body].nargs + 3)
        <5>1. a.sp \in Nat /\ a.argc \in Nat /\ Code[a.body].nargs \in Nat
          BY <1>1
        <5>. QED BY <5>1
      <4>. QED BY <4>1, <4>2
    <3>. QED BY <1>2, <2>1, <2>2, <3>1 DEF Entered
  <2>3. CASE a.kind # "resume"
    <3>1. \A k \in 1..a.argc : a.sp + 1 + k \in Nat /\ a.sp + 1 + k < End(a)
      <4>1. End(a) = a.sp + 2 + a.argc
        BY <1>4, <2>3, EndCases
      <4>2. \A k \in 1..a.argc : a.sp + 1 + k \in Nat /\ a.sp + 1 + k < a.sp + 2 + a.argc
        <5>1. a.sp \in Nat /\ a.argc \in Nat /\ Code[a.body].nargs \in Nat
          BY <1>1
        <5>. QED BY <5>1
      <4>. QED BY <4>1, <4>2
    <3>. QED BY <1>2, <2>1, <2>3, <3>1 DEF Entered
  <2>. QED BY <2>2, <2>3
<1>5. ASSUME a.mode = "helper", a.want \in {"splice", "new"} PROVE Staged(m2, a)
  <2>1. Staged(m, a)
    BY <1>5 DEF ActMem
  <2>2. TopOff(a) \in Nat /\ End(a) = a.top /\ StagedAt(a) \in Nat /\ StagedAt(a) + Len(a.actuals) + 3 = a.top
    <3>1. TopOff(a) \in Nat /\ TopOff(a) = View(a).operands + Len(a.ops) /\ View(a).operands \in Nat
      BY <1>1, ViewFacts
    <3>2. End(a) = a.top
      BY <1>5, EndCases
    <3>3. CASE a.want = "splice"
      BY <1>1, <1>5, <3>1, <3>2, <3>3 DEF ActShape, StagedAt
    <3>4. CASE a.want = "new"
      <4>1. a.top = TopOff(a) /\ a.need = Len(a.actuals) + 3 /\ a.need <= Len(a.ops)
        BY <1>5, <3>4 DEF ActShape
      <4>2. StagedAt(a) = TopOff(a) - a.need
        BY <3>4 DEF StagedAt
      <4>3. TopOff(a) - a.need \in Nat /\ TopOff(a) - a.need + Len(a.actuals) + 3 = TopOff(a)
        <5>1. a.need \in Nat /\ Len(a.ops) \in Nat /\ Len(a.actuals) \in Nat
          BY <1>1
        <5>2. TopOff(a) - a.need \in Nat
          <6>1. a.need <= Len(a.ops)
            BY <4>1
          <6>. QED BY <3>1, <5>1, <6>1
        <5>3. a.need = Len(a.actuals) + 3 /\ TopOff(a) \in Nat
          BY <3>1, <4>1
        <5>. QED BY <5>1, <5>2, <5>3
      <4>. QED BY <3>1, <3>2, <4>1, <4>2, <4>3
    <3>. QED BY <1>5, <3>3, <3>4
  <2>3. \A k \in 1..Len(a.actuals) : StagedAt(a) + 1 + k \in Nat /\ StagedAt(a) + 1 + k < End(a)
    BY <1>1, <2>2, SMTT(40)
  <2>. QED BY <1>2, <2>1, <2>3 DEF Staged
<1>. QED BY <1>3, <1>4, <1>5 DEF ActMem
-----------------------------------------------------------------------------
(* The stack of activations.                                                *)

\* The first n of a sequence.
LEMMA HeadSeq ==
    ASSUME NEW S, NEW st \in Seq(S), NEW n \in Nat, n <= Len(st)
    PROVE  LET h == SubSeq(st, 1, n)
           IN h \in Seq(S) /\ Len(h) = n /\ \A i \in 1..n : h[i] = st[i]
<1>1. n \in Int /\ 1 \in Int /\ n - 1 + 1 = n /\ \A i \in 1..n : 1 + i - 1 = i /\ st[i] \in S
  OBVIOUS
<1>2. n = IF 1 <= n THEN n - 1 + 1 ELSE 0
  OBVIOUS
<1>. QED BY <1>1, <1>2, SubSeqProperties

\* A sequence without its last element.
LEMMA PopSeq ==
    ASSUME NEW S, NEW st \in Seq(S), st # <<>>
    PROVE  LET h == SubSeq(st, 1, Len(st) - 1)
           IN /\ h \in Seq(S) /\ Len(h) = Len(st) - 1 /\ Len(st) \in Nat /\ Len(st) >= 1
              /\ \A i \in 1..(Len(st) - 1) : h[i] = st[i]
<1>1. Len(st) \in Nat /\ Len(st) >= 1 /\ Len(st) - 1 \in Nat /\ Len(st) - 1 <= Len(st)
  OBVIOUS
<1>. QED BY <1>1, HeadSeq

Swapped(st, b) == SubSeq(st, 1, Len(st) - 1) \o <<b>>

\* A sequence with its last element replaced.
LEMMA SwapSeq ==
    ASSUME NEW S, NEW st \in Seq(S), st # <<>>, NEW b \in S
    PROVE  /\ Swapped(st, b) \in Seq(S) /\ Len(Swapped(st, b)) = Len(st) /\ Swapped(st, b) # <<>>
           /\ Len(st) \in Nat /\ Len(st) >= 1
           /\ \A i \in 1..Len(st) : Swapped(st, b)[i] = IF i = Len(st) THEN b ELSE st[i]
<1>. DEFINE n == Len(st)
            h == SubSeq(st, 1, n - 1)
<1>1. h \in Seq(S) /\ Len(h) = n - 1 /\ n \in Nat /\ n >= 1 /\ \A i \in 1..(n - 1) : h[i] = st[i]
  BY PopSeq
<1>4. Swapped(st, b) = h \o <<b>>
  BY DEF Swapped
<1>. HIDE DEF h, n
<1>3. h \o <<b>> \in Seq(S) /\ Len(h \o <<b>>) = n /\ \A i \in 1..n : (h \o <<b>>)[i] = IF i <= n - 1 THEN h[i] ELSE b
  BY <1>1
<1>5. \A i \in 1..n : (h \o <<b>>)[i] = IF i = n THEN b ELSE st[i]
  BY <1>1, <1>3
<1>6. h \o <<b>> # <<>>
  BY <1>1, <1>3
<1>. QED BY <1>1, <1>3, <1>4, <1>5, <1>6 DEF n

\* A sequence with one more element.
LEMMA PushSeq ==
    ASSUME NEW S, NEW st \in Seq(S), NEW c \in S
    PROVE  /\ Append(st, c) \in Seq(S) /\ Len(Append(st, c)) = Len(st) + 1 /\ Len(st) \in Nat
           /\ Append(st, c) # <<>>
           /\ Append(st, c)[Len(st) + 1] = c
           /\ \A i \in 1..Len(st) : Append(st, c)[i] = st[i]
OBVIOUS

\* The innermost activation and memory from its sp up may change.
LEMMA SwapStack ==
    ASSUME NEW m, NEW st, Stacked(m, st), st # <<>>,
           NEW m2 \in Mem, NEW b \in ActType, ActShape(b), ActMem(m2, b),
           b.sp = st[Len(st)].sp, b.kind = st[Len(st)].kind, b.saved = st[Len(st)].saved,
           Agree(m, m2, b.sp)
    PROVE  Stacked(m2, Swapped(st, b))
<1>. DEFINE n == Len(st)
            w == Swapped(st, b)
<1>1. st \in Seq(ActType) /\ m \in Mem
  BY DEF Stacked
<1>2. w \in Seq(ActType) /\ Len(w) = n /\ n \in Nat /\ n >= 1
      /\ \A i \in 1..n : w[i] = IF i = n THEN b ELSE st[i]
  BY <1>1, SwapSeq
<1>. HIDE DEF w
<1>3. ASSUME NEW i \in 1..n PROVE ActShape(w[i]) /\ ActMem(m2, w[i])
  <2>1. CASE i = n
    BY <1>2, <2>1
  <2>2. CASE i # n
    <3>1. w[i] = st[i] /\ st[i] \in ActType /\ ActShape(st[i]) /\ ActMem(m, st[i])
      BY <1>1, <1>2, <2>2 DEF Stacked
    <3>2. End(st[i]) <= st[n].sp
      BY <1>2, <2>2 DEF Stacked
    <3>3. Agree(m, m2, End(st[i]))
      <4>1. End(st[i]) \in Nat
        BY <3>1, EndFacts
      <4>2. b.sp \in Nat /\ End(st[i]) <= b.sp
        BY <3>2 DEF ActType
      <4>. QED BY <4>1, <4>2, StackAssumption DEF Agree
    <3>. QED BY <1>1, <3>1, <3>3, MemBelow
  <2>. QED BY <2>1, <2>2
<1>4. ASSUME NEW i \in 1..n, NEW j \in 1..(i - 1) PROVE End(w[j]) <= w[i].sp
  <2>1. w[j] = st[j] /\ w[i].sp = st[i].sp
    BY <1>2
  <2>. QED BY <2>1 DEF Stacked
<1>5. ASSUME NEW i \in 2..n PROVE w[i - 1].mode = IF w[i].kind = "direct" THEN "call" ELSE "helper"
  <2>1. w[i - 1] = st[i - 1] /\ w[i].kind = st[i].kind
    BY <1>2
  <2>. QED BY <2>1 DEF Stacked
<1>6. ASSUME NEW i \in 1..n PROVE IF w[i].kind = "direct" THEN i > 1
                                  ELSE w[i].saved = IF i = 1 THEN 0 ELSE w[i - 1].top
  <2>1. w[i].kind = st[i].kind /\ w[i].saved = st[i].saved /\ (i # 1 => w[i - 1] = st[i - 1])
    BY <1>2
  <2>2. IF st[i].kind = "direct" THEN i > 1 ELSE st[i].saved = IF i = 1 THEN 0 ELSE st[i - 1].top
    BY DEF Stacked
  <2>. QED BY <2>1, <2>2
<1>7. Stacked(m2, w)
  BY <1>2, <1>3, <1>4, <1>5, <1>6 DEF Stacked
<1>. QED BY <1>7 DEF w

\* Memory alone may change from the innermost activation's End up.
LEMMA MemStack ==
    ASSUME NEW m, NEW st, Stacked(m, st), NEW m2 \in Mem,
           st # <<>> => Agree(m, m2, End(st[Len(st)]))
    PROVE  Stacked(m2, st)
<1>1. st \in Seq(ActType) /\ m \in Mem
  BY DEF Stacked
<1>2. ASSUME NEW i \in 1..Len(st) PROVE ActMem(m2, st[i])
  <2>. DEFINE n == Len(st)
  <2>1. n \in Nat /\ n >= 1 /\ n \in 1..n /\ st # <<>>
    BY <1>1
  <2>2. st[i] \in ActType /\ st[n] \in ActType /\ ActShape(st[i]) /\ ActShape(st[n]) /\ ActMem(m, st[i])
    BY <1>1, <2>1 DEF Stacked
  <2>3. End(st[i]) \in Nat /\ End(st[n]) \in Nat /\ st[n].sp <= End(st[n]) /\ st[n].sp \in Nat
    BY <2>2, EndFacts DEF ActType
  <2>4. End(st[i]) <= End(st[n])
    <3>1. CASE i = n
      BY <2>3, <3>1
    <3>2. CASE i # n
      <4>1. End(st[i]) <= st[n].sp
        BY <2>1, <3>2 DEF Stacked
      <4>. QED BY <2>3, <4>1
    <3>. QED BY <3>1, <3>2
  <2>5. Agree(m, m2, End(st[i]))
    BY <2>1, <2>3, <2>4, StackAssumption DEF Agree
  <2>. QED BY <1>1, <2>2, <2>5, MemBelow
<1>. QED BY <1>2 DEF Stacked

\* A new activation on top.
LEMMA PushStack ==
    ASSUME NEW m, NEW st, Stacked(m, st), NEW m2 \in Mem, NEW c \in ActType, ActShape(c), ActMem(m2, c),
           Agree(m, m2, c.sp),
           st # <<>> => /\ End(st[Len(st)]) <= c.sp
                        /\ st[Len(st)].mode = IF c.kind = "direct" THEN "call" ELSE "helper",
           IF c.kind = "direct" THEN st # <<>>
           ELSE c.saved = IF st = <<>> THEN 0 ELSE st[Len(st)].top
    PROVE  Stacked(m2, Append(st, c))
<1>. DEFINE n == Len(st)
            w == Append(st, c)
<1>1. st \in Seq(ActType) /\ m \in Mem
  BY DEF Stacked
<1>2. w \in Seq(ActType) /\ Len(w) = n + 1 /\ n \in Nat /\ w[n + 1] = c /\ \A i \in 1..n : w[i] = st[i]
  BY <1>1, PushSeq
<1>. HIDE DEF w
<1>3. st = <<>> <=> n = 0
  BY <1>1
<1>4. ASSUME n # 0 PROVE /\ st[n] \in ActType /\ ActShape(st[n]) /\ End(st[n]) \in Nat /\ st[n].sp <= End(st[n])
                         /\ st[n].sp \in Nat /\ End(st[n]) <= c.sp /\ c.sp \in Nat
  <2>1. st[n] \in ActType /\ ActShape(st[n])
    BY <1>1, <1>2, <1>4 DEF Stacked
  <2>2. End(st[n]) \in Nat /\ st[n].sp <= End(st[n])
    BY <2>1, EndFacts
  <2>. QED BY <1>3, <1>4, <2>1, <2>2 DEF ActType
<1>5. Stacked(m2, st)
  <2>1. ASSUME st # <<>> PROVE Agree(m, m2, End(st[Len(st)]))
    <3>1. End(st[n]) \in Nat /\ End(st[n]) <= c.sp /\ c.sp \in Nat
      BY <1>3, <1>4, <2>1
    <3>. QED BY <3>1, StackAssumption DEF Agree
  <2>. QED BY <2>1, MemStack
<1>6. ASSUME NEW i \in 1..(n + 1) PROVE ActShape(w[i]) /\ ActMem(m2, w[i])
  <2>1. CASE i = n + 1
    BY <1>2, <2>1
  <2>2. CASE i # n + 1
    <3>1. i \in 1..n
      BY <1>2, <2>2
    <3>. QED BY <1>2, <1>5, <3>1 DEF Stacked
  <2>. QED BY <2>1, <2>2
<1>7. ASSUME NEW i \in 1..(n + 1), NEW j \in 1..(i - 1) PROVE End(w[j]) <= w[i].sp
  <2>0. j \in 1..n
    BY <1>2
  <2>1. CASE i = n + 1
    <3>1. w[i] = c /\ w[j] = st[j]
      BY <1>2, <2>0, <2>1
    <3>2. CASE j = n
      BY <1>2, <1>4, <2>0, <3>1, <3>2
    <3>3. CASE j # n
      <4>1. n \in 1..n /\ j \in 1..(n - 1)
        BY <1>2, <2>0, <3>3
      <4>2. End(st[j]) <= st[n].sp
        BY <4>1 DEF Stacked
      <4>3. st[j] \in ActType /\ ActShape(st[j])
        BY <1>1, <2>0 DEF Stacked
      <4>4. End(st[j]) \in Nat
        BY <4>3, EndFacts
      <4>5. n # 0
        BY <4>1, <1>2
      <4>. QED BY <1>4, <3>1, <4>2, <4>4, <4>5
    <3>. QED BY <3>2, <3>3
  <2>2. CASE i # n + 1
    <3>1. i \in 1..n /\ w[i] = st[i] /\ w[j] = st[j]
      BY <1>2, <2>0, <2>2
    <3>. QED BY <3>1 DEF Stacked
  <2>. QED BY <2>1, <2>2
<1>8. ASSUME NEW i \in 2..(n + 1) PROVE w[i - 1].mode = IF w[i].kind = "direct" THEN "call" ELSE "helper"
  <2>1. CASE i = n + 1
    <3>1. w[i] = c /\ w[i - 1] = st[n] /\ n # 0
      BY <1>2, <2>1
    <3>. QED BY <1>3, <3>1
  <2>2. CASE i # n + 1
    <3>1. i \in 2..n /\ w[i] = st[i] /\ w[i - 1] = st[i - 1]
      BY <1>2, <2>2
    <3>. QED BY <3>1 DEF Stacked
  <2>. QED BY <2>1, <2>2
<1>9. ASSUME NEW i \in 1..(n + 1) PROVE IF w[i].kind = "direct" THEN i > 1
                                        ELSE w[i].saved = IF i = 1 THEN 0 ELSE w[i - 1].top
  <2>1. CASE i = n + 1
    <3>1. w[i] = c /\ (n # 0 => w[i - 1] = st[n]) /\ (i = 1 <=> n = 0) /\ (n # 0 => i > 1)
      BY <1>2, <2>1
    <3>. QED BY <1>3, <3>1
  <2>2. CASE i # n + 1
    <3>1. i \in 1..n /\ w[i] = st[i] /\ (i # 1 => w[i - 1] = st[i - 1])
      BY <1>2, <2>2
    <3>2. IF st[i].kind = "direct" THEN i > 1 ELSE st[i].saved = IF i = 1 THEN 0 ELSE st[i - 1].top
      BY <3>1 DEF Stacked
    <3>. QED BY <3>1, <3>2
  <2>. QED BY <2>1, <2>2
<1>10. Stacked(m2, w)
  BY <1>2, <1>6, <1>7, <1>8, <1>9 DEF Stacked
<1>. QED BY <1>10 DEF w

\* The innermost activation leaves.
LEMMA PopStack ==
    ASSUME NEW m, NEW st, Stacked(m, st), st # <<>>
    PROVE  Stacked(m, SubSeq(st, 1, Len(st) - 1))
<1>. DEFINE n == Len(st)
            w == SubSeq(st, 1, Len(st) - 1)
<1>1. st \in Seq(ActType) /\ m \in Mem
  BY DEF Stacked
<1>2. w \in Seq(ActType) /\ Len(w) = n - 1 /\ n \in Nat /\ n >= 1 /\ \A i \in 1..(n - 1) : w[i] = st[i]
  BY <1>1, PopSeq
<1>. HIDE DEF w
<1>3. \A i \in 1..(n - 1) : i \in 1..n /\ ActShape(w[i]) /\ ActMem(m, w[i])
  BY <1>2 DEF Stacked
<1>4. ASSUME NEW i \in 1..(n - 1), NEW j \in 1..(i - 1) PROVE End(w[j]) <= w[i].sp
  <2>1. i \in 1..n /\ w[i] = st[i] /\ w[j] = st[j]
    BY <1>2
  <2>. QED BY <2>1 DEF Stacked
<1>5. ASSUME NEW i \in 2..(n - 1) PROVE w[i - 1].mode = IF w[i].kind = "direct" THEN "call" ELSE "helper"
  <2>1. i \in 2..n /\ w[i] = st[i] /\ w[i - 1] = st[i - 1]
    BY <1>2
  <2>. QED BY <2>1 DEF Stacked
<1>6. ASSUME NEW i \in 1..(n - 1) PROVE IF w[i].kind = "direct" THEN i > 1
                                        ELSE w[i].saved = IF i = 1 THEN 0 ELSE w[i - 1].top
  <2>1. i \in 1..n /\ w[i] = st[i] /\ (i # 1 => w[i - 1] = st[i - 1])
    BY <1>2
  <2>2. IF st[i].kind = "direct" THEN i > 1 ELSE st[i].saved = IF i = 1 THEN 0 ELSE st[i - 1].top
    BY <2>1 DEF Stacked
  <2>. QED BY <2>1, <2>2
<1>7. Stacked(m, w)
  BY <1>1, <1>2, <1>3, <1>4, <1>5, <1>6 DEF Stacked
<1>. QED BY <1>7 DEF w
-----------------------------------------------------------------------------
(* Steps that keep the frame of the innermost activation.                   *)

SameFrame(a, b) ==
    /\ b.body = a.body /\ b.sp = a.sp /\ b.argc = a.argc /\ b.passed = a.passed /\ b.wrote = a.wrote
    /\ b.segs = a.segs /\ b.kind = a.kind /\ b.saved = a.saved

\* An activation's frames depend on its frame fields alone.
LEMMA SameViews ==
    ASSUME NEW a, NEW b, SameFrame(a, b)
    PROVE  /\ RootView(b) = RootView(a) /\ View(b) = View(a) /\ Views(b) = Views(a)
           /\ (SegsNest(b) <=> SegsNest(a)) /\ TopOff(b) = View(a).operands + Len(b.ops)
<1>1. RootView(b) = RootView(a)
  BY DEF SameFrame, RootView, vp
<1>2. View(b) = View(a) /\ Views(b) = Views(a)
  BY <1>1 DEF SameFrame, View, Views
<1>3. SegsNest(b) <=> SegsNest(a)
  BY <1>1 DEF SameFrame, SegsNest
<1>. QED BY <1>1, <1>2, <1>3 DEF TopOff

\* The frame stays good when memory changes from its operands up.
LEMMA FrameKept ==
    ASSUME NEW a \in ActType, ActShape(a), a.mode # "entry", NEW m \in Mem, NEW m2 \in Mem, ActMem(m, a),
           Agree(m, m2, View(a).operands), NEW b \in ActType, SameFrame(a, b)
    PROVE  /\ b.argc = Len(b.passed) /\ (b.kind = "resume" => b.passed = <<>> /\ Code[b.body].gen) /\ SegsNest(b)
           /\ View(b) = View(a) /\ Views(b) = Views(a) /\ View(a).operands \in Nat /\ View(a).operands <= VLimit
           /\ b.sp \in Nat /\ b.sp <= View(a).operands
           /\ TopOff(b) = View(a).operands + Len(b.ops) /\ TopOff(b) \in Nat /\ Len(b.ops) \in Nat
           /\ ~RawSurplus => \A v \in Views(b) : ViewHolds(m2, v)
<1>1. b.argc = Len(b.passed) /\ (b.kind = "resume" => b.passed = <<>> /\ Code[b.body].gen)
  BY DEF ActShape, SameFrame
<1>2. SegsNest(b) /\ SegsNest(a) /\ View(b) = View(a) /\ Views(b) = Views(a) /\ TopOff(b) = View(a).operands + Len(b.ops)
  BY SameViews DEF ActShape
<1>3. View(a).operands \in Nat /\ TopOff(b) \in Nat /\ Len(b.ops) \in Nat
  <2>1. View(a).operands \in Nat /\ Len(b.ops) \in Nat
    BY <1>2, ViewFacts, Fields
  <2>. QED BY <2>1, <1>2
<1>4. View(a).operands <= VLimit
  <2>1. View(a).operands <= End(a) /\ End(a) \in Nat /\ End(a) <= VLimit
    BY EndFacts
  <2>. QED BY <1>3, <2>1, StackAssumption
<1>5. b.sp \in Nat /\ b.sp <= View(a).operands
  <2>1. a.sp <= View(a).base /\ View(a).base + 3 <= View(a).operands /\ View(a).base \in Nat
    BY <1>2, ViewFacts DEF ViewShape
  <2>2. b.sp = a.sp /\ b.sp \in Nat
    BY DEF SameFrame, ActType
  <2>. QED BY <1>3, <2>1, <2>2
<1>6. ASSUME ~RawSurplus, NEW v \in Views(a) PROVE ViewHolds(m2, v)
  <2>1. ViewShape(v) /\ v.operands <= View(a).operands /\ v.operands \in Nat
    BY <1>2, ViewFacts DEF ViewShape
  <2>2. Agree(m, m2, v.operands) /\ v.operands <= VLimit
    BY <1>3, <1>4, <2>1, StackAssumption DEF Agree
  <2>3. ViewHolds(m, v)
    BY <1>6 DEF ActMem
  <2>. QED BY <2>1, <2>2, <2>3, HoldsBelow
<1>. QED BY <1>1, <1>2, <1>3, <1>4, <1>5, <1>6

\* The innermost activation goes on as b.
LEMMA SwapInv ==
    ASSUME NEW m, NEW st, Stacked(m, st), st # <<>>,
           NEW m2 \in Mem, NEW b \in ActType, ActShape(b), ActMem(m2, b),
           b.sp = st[Len(st)].sp, b.kind = st[Len(st)].kind, b.saved = st[Len(st)].saved,
           Agree(m, m2, b.sp),
           NEW vt \in Nat, b.mode # "call", b.mode = "helper" => vt = b.top,
           LiveBelow(m2, End(b)), b.mode = "run" => OpsLive(b)
    PROVE  Stacked(m2, Swapped(st, b)) /\ Settled(m2, vt, Swapped(st, b))
<1>1. Stacked(m2, Swapped(st, b))
  BY SwapStack
<1>2. st \in Seq(ActType)
  BY DEF Stacked
<1>3. Swapped(st, b) # <<>> /\ Swapped(st, b)[Len(Swapped(st, b))] = b
  <2>1. /\ Len(Swapped(st, b)) = Len(st) /\ Swapped(st, b) # <<>> /\ Len(st) \in Nat /\ Len(st) >= 1
        /\ \A i \in 1..Len(st) : Swapped(st, b)[i] = IF i = Len(st) THEN b ELSE st[i]
    BY <1>2, SwapSeq
  <2>2. Len(st) \in 1..Len(st)
    BY <2>1
  <2>. QED BY <2>1, <2>2
<1>. QED BY <1>1, <1>3 DEF Settled

\* Agreement and liveness below a slot hold below a lower one.
LEMMA AgreeLess ==
    ASSUME NEW m, NEW m2, NEW n \in Nat, NEW n2 \in Nat, n2 <= n, Agree(m, m2, n)
    PROVE  Agree(m, m2, n2)
BY StackAssumption DEF Agree

\* What is live below a slot is live below a lower one.
LEMMA LiveLess ==
    ASSUME NEW m, NEW n \in Nat, NEW n2 \in Nat, n2 <= n, LiveBelow(m, n)
    PROVE  LiveBelow(m, n2)
BY StackAssumption DEF LiveBelow

\* It runs on in the same frame.
LEMMA RunStep ==
    ASSUME NEW m, NEW st, Stacked(m, st), st # <<>>, NEW a, a = st[Len(st)], a.mode # "entry",
           LiveBelow(m, View(a).operands), NEW m2 \in Mem, Agree(m, m2, View(a).operands),
           NEW b \in ActType, SameFrame(a, b), b.mode = "run", OpsLive(b), NEW vt \in Nat
    PROVE  Stacked(m2, Swapped(st, b)) /\ Settled(m2, vt, Swapped(st, b))
<1>1. a \in ActType /\ ActShape(a) /\ ActMem(m, a) /\ m \in Mem
  BY DEF Stacked
<1>2. /\ b.argc = Len(b.passed) /\ (b.kind = "resume" => b.passed = <<>> /\ Code[b.body].gen) /\ SegsNest(b)
      /\ View(b) = View(a) /\ View(a).operands \in Nat /\ View(a).operands <= VLimit
      /\ b.sp \in Nat /\ b.sp <= View(a).operands
      /\ ~RawSurplus => \A v \in Views(b) : ViewHolds(m2, v)
  BY <1>1, FrameKept
<1>3. End(b) = View(a).operands
  BY <1>2, EndCases
<1>4. ActShape(b)
  BY <1>2, <1>3 DEF ActShape
<1>5. ActMem(m2, b)
  BY <1>2 DEF ActMem
<1>6. LiveBelow(m2, End(b))
  BY <1>3 DEF LiveBelow, Agree
<1>7. Agree(m, m2, b.sp)
  BY <1>2, AgreeLess
<1>8. b.sp = st[Len(st)].sp /\ b.kind = st[Len(st)].kind /\ b.saved = st[Len(st)].saved
  BY DEF SameFrame
<1>. QED BY <1>4, <1>5, <1>6, <1>7, <1>8, SwapInv

\* It waits for a helper in the same frame.
LEMMA HelperStep ==
    ASSUME NEW m, NEW st, Stacked(m, st), st # <<>>, NEW a, a = st[Len(st)], a.mode # "entry",
           NEW m2 \in Mem, Agree(m, m2, View(a).operands),
           NEW b \in ActType, SameFrame(a, b), b.mode = "helper", b.want \in {"op", "splice", "new"},
           b.need <= Len(b.ops),
           b.want # "splice" => b.top = TopOff(b),
           b.want = "splice" => b.top = TopOff(b) + Len(b.actuals) + 3 /\ (RawSurplus \/ NoSurplus(b)),
           b.want = "new" => b.need = Len(b.actuals) + 3,
           b.want # "op" => Staged(m2, b),
           b.top <= VLimit, LiveBelow(m2, b.top)
    PROVE  Stacked(m2, Swapped(st, b)) /\ Settled(m2, b.top, Swapped(st, b))
<1>1. a \in ActType /\ ActShape(a) /\ ActMem(m, a) /\ m \in Mem
  BY DEF Stacked
<1>2. /\ b.argc = Len(b.passed) /\ (b.kind = "resume" => b.passed = <<>> /\ Code[b.body].gen) /\ SegsNest(b)
      /\ View(a).operands \in Nat /\ b.sp \in Nat /\ b.sp <= View(a).operands
      /\ ~RawSurplus => \A v \in Views(b) : ViewHolds(m2, v)
  BY <1>1, FrameKept
<1>3. End(b) = b.top
  BY EndCases
<1>4. ActShape(b)
  BY <1>2, <1>3 DEF ActShape
<1>5. ActMem(m2, b)
  BY <1>2 DEF ActMem
<1>6. Agree(m, m2, b.sp)
  BY <1>2, AgreeLess
<1>7. b.sp = st[Len(st)].sp /\ b.kind = st[Len(st)].kind /\ b.saved = st[Len(st)].saved /\ b.top \in Nat
  BY Fields DEF SameFrame
<1>. QED BY <1>3, <1>4, <1>5, <1>6, <1>7, SwapInv

\* What Inv says of the innermost activation.
LEMMA TopFacts ==
    ASSUME Inv, acts # <<>>
    PROVE  /\ Stacked(mem, acts) /\ mem \in Mem /\ vtop \in Nat /\ acts \in Seq(ActType)
           /\ Top \in ActType /\ ActShape(Top) /\ ActMem(mem, Top) /\ SegsNest(Top)
           /\ Top = acts[Len(acts)] /\ Top.mode # "call" /\ (Top.mode = "helper" => vtop = Top.top)
           /\ LiveBelow(mem, End(Top)) /\ (Top.mode = "run" => OpsLive(Top))
           /\ View(Top).operands \in Nat /\ TopOff(Top) \in Nat /\ TopOff(Top) = View(Top).operands + Len(Top.ops)
           /\ Top.mode # "entry" => LiveBelow(mem, View(Top).operands) /\ View(Top).operands <= VLimit
<1>1. Stacked(mem, acts) /\ mem \in Mem /\ acts \in Seq(ActType) /\ Top = acts[Len(acts)] /\ vtop \in Nat
  BY DEF Inv, Stacked, Settled, Top
<1>2. Len(acts) \in 1..Len(acts)
  BY <1>1
<1>3. Top \in ActType /\ ActShape(Top) /\ ActMem(mem, Top)
  BY <1>1, <1>2 DEF Stacked
<1>4. SegsNest(Top)
  BY <1>3 DEF ActShape
<1>5. /\ Top.mode # "call" /\ (Top.mode = "helper" => vtop = Top.top)
      /\ LiveBelow(mem, End(Top)) /\ (Top.mode = "run" => OpsLive(Top))
  BY <1>1 DEF Inv, Settled
<1>6. View(Top).operands \in Nat /\ TopOff(Top) \in Nat /\ TopOff(Top) = View(Top).operands + Len(Top.ops)
  BY <1>3, <1>4, ViewFacts
<1>7. ASSUME Top.mode # "entry" PROVE LiveBelow(mem, View(Top).operands) /\ View(Top).operands <= VLimit
  <2>1. View(Top).operands <= End(Top) /\ End(Top) \in Nat /\ End(Top) <= VLimit
    BY <1>3, <1>7, EndFacts
  <2>2. View(Top).operands <= VLimit
    BY <1>6, <2>1, StackAssumption
  <2>. QED BY <1>5, <1>6, <2>1, <2>2, LiveLess
<1>. QED BY <1>1, <1>3, <1>4, <1>5, <1>6, <1>7

\* With replaces the innermost activation.
LEMMA WithIs ==
    ASSUME NEW b
    PROVE  With(b) = Swapped(acts, b)
BY DEF With, Below, Swapped

\* A sequence of live values, from its elements.
LEMMA LiveSeq ==
    ASSUME NEW vs \in Seq(Value), \A k \in DOMAIN vs : vs[k] \in LiveValue
    PROVE  vs \in Seq(LiveValue)
OBVIOUS

\* Live values are values, element by element.
LEMMA LiveSeqValue ==
    ASSUME NEW vs \in Seq(LiveValue)
    PROVE  vs \in Seq(Value) /\ \A k \in DOMAIN vs : vs[k] \in LiveValue
<1>1. \A k \in 1..Len(vs) : vs[k] \in LiveValue /\ vs[k] \in Value
  BY Values
<1>. QED BY <1>1

\* Live values written over live slots.
LEMMA SpillFacts ==
    ASSUME NEW m \in Mem, NEW from \in Nat, NEW vs \in Seq(LiveValue), LiveBelow(m, from)
    PROVE  /\ Write(m, from, vs) \in Mem /\ Agree(m, Write(m, from, vs), from)
           /\ Len(vs) \in Nat /\ LiveBelow(Write(m, from, vs), from + Len(vs))
<1>1. vs \in Seq(Value) /\ Len(vs) \in Nat /\ \A k \in 1..Len(vs) : vs[k] \in LiveValue
  BY LiveSeqValue
<1>. DEFINE w == Write(m, from, vs)
<1>2. w \in Mem /\ \A k \in 0..VLimit : w[k] = IF k >= from /\ k < from + Len(vs) THEN vs[k - from + 1] ELSE m[k]
  BY <1>1, WriteFacts
<1>. HIDE DEF w
<1>3. Agree(m, w, from)
  BY <1>1, <1>2, StackAssumption DEF Agree
<1>4. ASSUME NEW k \in 0..VLimit, k < from + Len(vs) PROVE w[k] \in LiveValue
  <2>1. CASE k >= from
    <3>1. k - from + 1 \in 1..Len(vs)
      BY <1>1, <1>4, <2>1, StackAssumption
    <3>. QED BY <1>1, <1>2, <1>4, <2>1, <3>1
  <2>2. CASE ~(k >= from)
    <3>1. k < from
      BY <2>2, StackAssumption
    <3>. QED BY <1>2, <2>2, <3>1 DEF LiveBelow
  <2>. QED BY <2>1, <2>2
<1>5. LiveBelow(w, from + Len(vs))
  BY <1>4 DEF LiveBelow
<1>. QED BY <1>1, <1>2, <1>3, <1>5 DEF w

\* A helper that may collect is called.
LEMMA HelperCallStep ==
    ASSUME Inv, InRun, NEW more \in Seq(LiveValue), NEW need \in Nat, need <= Len(more),
           HelperCall(Top, more, need, "op"), vtop' <= VLimit
    PROVE  Inv'
<1>. DEFINE a == Top
            ops == a.ops \o more
            b0 == [a EXCEPT !.ops = ops]
            b == SetNightTop([b0 EXCEPT !.need = need], TopOff(b0), "op")
<1>0. acts # <<>> /\ a.mode = "run"
  BY DEF InRun
<1>1. /\ Stacked(mem, acts) /\ mem \in Mem /\ a \in ActType /\ a = acts[Len(acts)] /\ SegsNest(a)
      /\ OpsLive(a) /\ View(a).operands \in Nat /\ LiveBelow(mem, View(a).operands)
  BY <1>0, TopFacts
<1>2. mem' = spill_all(mem, b0) /\ vtop' = TopOff(b0) /\ acts' = Swapped(acts, b)
  BY WithIs DEF HelperCall
<1>3. ops \in Seq(LiveValue) /\ ops \in Seq(Value) /\ need <= Len(ops)
  <2>1. a.ops \in Seq(Value)
    BY <1>1, Fields
  <2>2. a.ops \in Seq(LiveValue)
    BY <1>1, <2>1, LiveSeq DEF OpsLive
  <2>3. ops \in Seq(LiveValue) /\ need <= Len(ops)
    BY <2>2
  <2>. QED BY <2>3, LiveSeqValue
<1>. HIDE DEF ops
<1>4. SameFrame(a, b0) /\ b0.ops = ops
  BY <1>1 DEF SameFrame, ActType
<1>5. View(b0) = View(a) /\ TopOff(b0) = View(a).operands + Len(ops)
  BY <1>4, SameViews
<1>6. /\ mem' \in Mem /\ Agree(mem, mem', View(a).operands)
      /\ Len(ops) \in Nat /\ LiveBelow(mem', TopOff(b0))
  <2>1. mem' = Write(mem, View(a).operands, ops)
    BY <1>2, <1>4, <1>5 DEF spill_all
  <2>. QED BY <1>1, <1>3, <1>5, <2>1, SpillFacts
<1>7. TopOff(b0) \in Nat
  BY <1>1, <1>5, <1>6
<1>8. /\ b \in ActType /\ SameFrame(a, b) /\ b.mode = "helper" /\ b.want = "op"
      /\ b.ops = ops /\ b.need = need /\ b.top = TopOff(b0)
  <2>. DEFINE t == TopOff(b0)
  <2>1. t \in Nat
    BY <1>7
  <2>. HIDE DEF t, a
  <2>2. a \in ActType /\ ops \in Seq(Value)
    BY <1>1, <1>3
  <2>3. LET c == SetNightTop([[a EXCEPT !.ops = ops] EXCEPT !.need = need], t, "op")
        IN /\ c \in ActType /\ SameFrame(a, c) /\ c.mode = "helper" /\ c.want = "op"
           /\ c.ops = ops /\ c.need = need /\ c.top = t
    BY <2>1, <2>2 DEF SetNightTop, ActType, SameFrame
  <2>. QED BY <2>3 DEF t
<1>9. TopOff(b) = TopOff(b0)
  BY <1>5, <1>8, SameViews
<1>. HIDE DEF b, b0
<1>10. Stacked(mem', Swapped(acts, b)) /\ Settled(mem', b.top, Swapped(acts, b))
  BY <1>0, <1>1, <1>2, <1>3, <1>6, <1>8, <1>9, HelperStep
<1>. QED BY <1>2, <1>8, <1>10 DEF Inv
-----------------------------------------------------------------------------
(* New activations.                                                         *)

\* An activation starts with its incoming frame and nothing else.
LEMMA NewAct ==
    ASSUME NEW c \in ActType, c.argc = Len(c.passed), c.kind = "resume" => c.passed = <<>> /\ Code[c.body].gen,
           c.mode = "entry", c.segs = <<>>, c.ops = <<>>, c.need = 0, c.wrote = FALSE, End(c) <= VLimit
    PROVE  ActShape(c)
<1>1. Len(c.segs) = 0
  OBVIOUS
<1>2. SegsNest(c)
  BY <1>1 DEF SegsNest
<1>. QED BY <1>2 DEF ActShape

\* A new innermost activation.
LEMMA PushInv ==
    ASSUME NEW m, NEW st, Stacked(m, st), NEW m2 \in Mem, NEW c \in ActType, ActShape(c), ActMem(m2, c),
           Agree(m, m2, c.sp),
           st # <<>> => /\ End(st[Len(st)]) <= c.sp
                        /\ st[Len(st)].mode = IF c.kind = "direct" THEN "call" ELSE "helper",
           IF c.kind = "direct" THEN st # <<>>
           ELSE c.saved = IF st = <<>> THEN 0 ELSE st[Len(st)].top,
           NEW vt \in Nat, c.mode = "entry", LiveBelow(m2, End(c))
    PROVE  Stacked(m2, Append(st, c)) /\ Settled(m2, vt, Append(st, c))
<1>1. Stacked(m2, Append(st, c))
  BY PushStack
<1>2. Append(st, c) # <<>> /\ Append(st, c)[Len(Append(st, c))] = c
  <2>1. st \in Seq(ActType)
    BY DEF Stacked
  <2>. QED BY <2>1, PushSeq
<1>. QED BY <1>1, <1>2 DEF Settled

\* A compiled body calls another one directly.
LEMMA CallStep ==
    ASSUME NEW m, NEW st, Stacked(m, st), st # <<>>, NEW a, a = st[Len(st)], a.mode # "entry",
           NEW m2 \in Mem, Agree(m, m2, View(a).operands),
           NEW b \in ActType, SameFrame(a, b), b.mode = "call", b.need <= Len(b.ops),
           NEW t \in DOMAIN Code, NEW args \in Seq(LiveValue),
           NEW sp, sp = TopOff(b) - b.need, sp + 2 + Len(args) <= VLimit,
           LiveBelow(m2, sp + 2 + Len(args)),
           \A k \in 1..Len(args) : m2[sp + 1 + k] = args[k], NEW vt \in Nat
    PROVE  LET w == Append(Swapped(st, b), Act(t, sp, Len(args), "direct", 0, args))
           IN Stacked(m2, w) /\ Settled(m2, vt, w)
<1>. DEFINE c == Act(t, sp, Len(args), "direct", 0, args)
            s == Swapped(st, b)
<1>1. a \in ActType /\ ActShape(a) /\ ActMem(m, a) /\ m \in Mem /\ st \in Seq(ActType)
  BY DEF Stacked
<1>2. /\ b.argc = Len(b.passed) /\ (b.kind = "resume" => b.passed = <<>> /\ Code[b.body].gen) /\ SegsNest(b)
      /\ View(a).operands \in Nat /\ b.sp \in Nat /\ b.sp <= View(a).operands
      /\ TopOff(b) = View(a).operands + Len(b.ops) /\ TopOff(b) \in Nat /\ Len(b.ops) \in Nat
      /\ ~RawSurplus => \A v \in Views(b) : ViewHolds(m2, v)
  BY <1>1, FrameKept
<1>3. b.need \in Nat
  BY Fields
<1>4. sp \in Nat
  <2>. DEFINE n == Len(b.ops)
              o == View(a).operands
              k == b.need
  <2>1. n \in Nat /\ o \in Nat /\ k \in Nat
    BY <1>2, <1>3
  <2>2. k <= n
    OBVIOUS
  <2>3. sp = (o + n) - k
    BY <1>2
  <2>. HIDE DEF n, o, k
  <2>. QED BY <2>1, <2>2, <2>3
<1>5. Len(args) \in Nat
  OBVIOUS
<1>6. sp <= VLimit
  BY <1>4, <1>5, StackAssumption
<1>7. End(b) = sp
  BY EndCases
<1>8. ActShape(b)
  BY <1>2, <1>6, <1>7 DEF ActShape
<1>9. ActMem(m2, b)
  BY <1>2 DEF ActMem
<1>10. Agree(m, m2, b.sp)
  BY <1>2, AgreeLess
<1>11. Stacked(m2, s)
  BY <1>8, <1>9, <1>10, SwapStack DEF SameFrame
<1>12. s \in Seq(ActType) /\ s # <<>> /\ s[Len(s)] = b
  <2>1. /\ s \in Seq(ActType) /\ Len(s) = Len(st) /\ s # <<>> /\ Len(st) \in Nat /\ Len(st) >= 1
        /\ \A i \in 1..Len(st) : s[i] = IF i = Len(st) THEN b ELSE st[i]
    BY <1>1, SwapSeq
  <2>2. Len(st) \in 1..Len(st)
    BY <2>1
  <2>. QED BY <2>1, <2>2
<1>13. /\ c \in ActType /\ c.sp = sp /\ c.argc = Len(args) /\ c.kind = "direct" /\ c.passed = args /\ c.mode = "entry"
       /\ End(c) = sp + 2 + Len(args) /\ (End(c) <= VLimit => ActShape(c))
  <2>1. c \in ActType
    BY <1>4 DEF Act, ActType
  <2>2. /\ c.sp = sp /\ c.argc = Len(args) /\ c.kind = "direct" /\ c.passed = args /\ c.mode = "entry"
        /\ c.segs = <<>> /\ c.ops = <<>> /\ c.need = 0 /\ c.wrote = FALSE
    BY DEF Act
  <2>. HIDE DEF c
  <2>3. End(c) = sp + 2 + Len(args)
    BY <2>2, EndCases
  <2>4. End(c) <= VLimit => ActShape(c)
    BY <2>1, <2>2, NewAct
  <2>. QED BY <2>1, <2>2, <2>3, <2>4
<1>. HIDE DEF c, s
<1>14. ActMem(m2, c)
  BY <1>13 DEF ActMem, Entered
<1>15. Agree(m2, m2, c.sp) /\ End(s[Len(s)]) <= c.sp /\ LiveBelow(m2, End(c)) /\ ActShape(c)
  BY <1>4, <1>7, <1>12, <1>13 DEF Agree
<1>16. Stacked(m2, Append(s, c)) /\ Settled(m2, vt, Append(s, c))
  BY <1>11, <1>12, <1>13, <1>14, <1>15, PushInv
<1>. QED BY <1>16 DEF c, s
-----------------------------------------------------------------------------
(* Calls out of a running body.                                             *)

\* Concatenation.
LEMMA CatFacts ==
    ASSUME NEW S, NEW s \in Seq(S), NEW t \in Seq(S)
    PROVE  /\ s \o t \in Seq(S) /\ Len(s \o t) = Len(s) + Len(t) /\ Len(s) \in Nat /\ Len(t) \in Nat
           /\ \A k \in 1..Len(s) : (s \o t)[k] = s[k]
           /\ \A k \in 1..Len(t) : (s \o t)[Len(s) + k] = t[k]
OBVIOUS

\* Callee and this before the actuals.
LEMMA PairSeq ==
    ASSUME NEW p \in LiveValue, NEW q \in LiveValue, NEW args \in Seq(LiveValue)
    PROVE  LET ops == <<p, q>> \o args
           IN /\ ops \in Seq(LiveValue) /\ Len(ops) = 2 + Len(args) /\ Len(args) \in Nat
              /\ ops[1] = p /\ ops[2] = q
              /\ \A k \in 1..Len(args) : ops[2 + k] = args[k]
<1>. DEFINE ys == <<p, q>>
            zs == ys \o args
<1>1. ys \in Seq(LiveValue) /\ Len(ys) = 2 /\ ys[1] = p /\ ys[2] = q
  OBVIOUS
<1>. HIDE DEF ys
<1>2. /\ zs \in Seq(LiveValue) /\ Len(zs) = Len(ys) + Len(args) /\ Len(args) \in Nat
      /\ \A k \in 1..Len(args) : zs[Len(ys) + k] = args[k]
      /\ \A k \in 1..Len(ys) : zs[k] = ys[k]
  <2>1. ys \in Seq(LiveValue) /\ args \in Seq(LiveValue)
    BY <1>1
  <2>. QED BY <2>1, CatFacts
<1>. HIDE DEF zs
<1>3. 1 \in 1..Len(ys) /\ 2 \in 1..Len(ys)
  BY <1>1
<1>4. zs[1] = p /\ zs[2] = q /\ Len(args) \in Nat
  BY <1>1, <1>2, <1>3
<1>5. Len(zs) = 2 + Len(args) /\ \A k \in 1..Len(args) : zs[2 + k] = args[k]
  BY <1>1, <1>2
<1>. QED BY <1>2, <1>4, <1>5 DEF ys, zs

\* The operands with a call's frame pushed on them.
LEMMA PushedSeq ==
    ASSUME NEW xs \in Seq(LiveValue), NEW p \in LiveValue, NEW q \in LiveValue, NEW args \in Seq(LiveValue)
    PROVE  LET ops == xs \o <<p, q>> \o args
           IN /\ ops \in Seq(LiveValue) /\ Len(ops) = Len(xs) + 2 + Len(args)
              /\ Len(xs) \in Nat /\ Len(args) \in Nat
              /\ \A k \in 1..Len(args) : ops[Len(xs) + 2 + k] = args[k]
<1>. DEFINE ys == xs \o <<p, q>>
            zs == ys \o args
<1>1. ys \in Seq(LiveValue) /\ Len(ys) = Len(xs) + 2 /\ Len(xs) \in Nat /\ Len(args) \in Nat
  OBVIOUS
<1>. HIDE DEF ys
<1>2. zs \in Seq(LiveValue) /\ Len(zs) = Len(ys) + Len(args) /\ \A k \in 1..Len(args) : zs[Len(ys) + k] = args[k]
  BY <1>1
<1>. HIDE DEF zs
<1>3. zs \in Seq(LiveValue) /\ Len(zs) = Len(xs) + 2 + Len(args) /\ \A k \in 1..Len(args) : zs[Len(xs) + 2 + k] = args[k]
  BY <1>1, <1>2
<1>. QED BY <1>1, <1>3 DEF ys, zs

\* A written sequence read back.
LEMMA ReadBack ==
    ASSUME NEW m \in Mem, NEW from \in Nat, NEW vs \in Seq(LiveValue),
           NEW i \in Nat, 1 <= i, i <= Len(vs), from + i - 1 <= VLimit
    PROVE  Write(m, from, vs)[from + i - 1] = vs[i]
<1>. DEFINE k == from + i - 1
<1>1. vs \in Seq(Value) /\ Len(vs) \in Nat
  BY LiveSeqValue
<1>2. k \in 0..VLimit /\ k >= from /\ k < from + Len(vs) /\ k - from + 1 = i
  BY <1>1, StackAssumption
<1>. HIDE DEF k
<1>3. Write(m, from, vs)[k] = IF k >= from /\ k < from + Len(vs) THEN vs[k - from + 1] ELSE m[k]
  BY <1>1, <1>2, WriteFacts
<1>4. Write(m, from, vs)[k] = vs[i]
  BY <1>2, <1>3
<1>. QED BY <1>4 DEF k

\* What call sites push is live.
LEMMA Constants ==
    Callee \in LiveValue /\ This \in LiveValue /\ Undef \in LiveValue
BY Values DEF Callee, This

\* A direct call, or the generic helper when the stack is short.
LEMMA DirectCallStep ==
    ASSUME Inv, InRun, NEW t \in DOMAIN Code, NEW args \in Seq(LiveValue), DirectCall(t, args), vtop' <= VLimit
    PROVE  Inv'
<1>. DEFINE ops == Top.ops \o <<Callee, This>> \o args
            a == [Top EXCEPT !.ops = ops, !.need = Len(args) + 2, !.want = "op"]
            b == [a EXCEPT !.mode = "call"]
            o == View(Top).operands
            n == Len(Top.ops)
<1>0. acts # <<>> /\ Top.mode = "run"
  BY DEF InRun
<1>1. /\ Stacked(mem, acts) /\ mem \in Mem /\ Top \in ActType /\ Top = acts[Len(acts)] /\ SegsNest(Top)
      /\ OpsLive(Top) /\ o \in Nat /\ LiveBelow(mem, o) /\ vtop \in Nat
  BY <1>0, TopFacts
<1>2. /\ ops \in Seq(LiveValue) /\ Len(ops) = n + 2 + Len(args)
      /\ n \in Nat /\ Len(args) \in Nat
      /\ \A k \in 1..Len(args) : ops[n + 2 + k] = args[k]
  <2>1. Top.ops \in Seq(LiveValue)
    BY <1>1, Fields, LiveSeq DEF OpsLive
  <2>. QED BY <2>1, Constants, PushedSeq
<1>. HIDE DEF ops
<1>3. SameFrame(Top, a) /\ a.ops = ops /\ a.need = Len(args) + 2
  BY <1>1 DEF SameFrame, ActType
<1>4. View(a) = View(Top) /\ TopOff(a) = o + Len(ops)
  BY <1>3, SameViews
<1>7. b \in ActType /\ SameFrame(Top, b) /\ b.mode = "call" /\ b.ops = ops /\ b.need = Len(args) + 2
  <2>1. ops \in Seq(Value)
    BY <1>2, LiveSeqValue
  <2>2. Len(args) + 2 \in Nat
    BY <1>2
  <2>3. Top \in ActType
    BY <1>1
  <2>4. b \in ActType
    BY <2>1, <2>2, <2>3 DEF ActType
  <2>5. SameFrame(Top, b) /\ b.mode = "call" /\ b.ops = ops /\ b.need = Len(args) + 2
    BY <2>3 DEF ActType, SameFrame
  <2>. QED BY <2>4, <2>5
<1>8. TopOff(b) = o + Len(ops)
  BY <1>7, SameViews
<1>. HIDE DEF o, n
<1>5. CASE emit_stack_fits(TopOff(a), Len(args)) /\ Len(acts) < MaxActs
  <2>. DEFINE sp == TopOff(a) - a.need
  <2>1. /\ mem' = spill_all(mem, a) /\ vtop' = vtop
        /\ acts' = Append(Swapped(acts, b), Act(t, sp, Len(args), "direct", 0, args))
    BY <1>5, WithIs DEF DirectCall, EnterDirect, ops
  <2>2. mem' = Write(mem, o, ops)
    BY <2>1, <1>3, <1>4 DEF spill_all, o
  <2>. HIDE DEF a, b
  <2>3. mem' \in Mem /\ Agree(mem, mem', o) /\ LiveBelow(mem', o + Len(ops))
    BY <1>1, <1>2, <2>2, SpillFacts
  <2>4. sp = o + n /\ sp + 2 + Len(args) = o + Len(ops)
    <3>1. sp = (o + (n + 2 + Len(args))) - (Len(args) + 2)
      BY <1>2, <1>3, <1>4
    <3>. HIDE DEF sp
    <3>2. sp = o + n
      BY <1>1, <1>2, <3>1
    <3>. QED BY <1>1, <1>2, <3>2
  <2>5. o + Len(ops) <= VLimit /\ o + n + 2 + Len(args) <= VLimit + 1 /\ n + 2 + Len(args) <= Len(ops)
    <3>1. (o + Len(ops)) + 2 + Len(args) + Headroom <= VLimit
      BY <1>4, <1>5 DEF emit_stack_fits
    <3>. QED BY <1>1, <1>2, <3>1, StackAssumption
  <2>9. sp = TopOff(b) - b.need
    BY <1>3, <1>4, <1>7, <1>8
  <2>. HIDE DEF sp
  <2>6. \A k \in 1..Len(args) : mem'[sp + 1 + k] = args[k]
    <3>. TAKE k \in 1..Len(args)
    <3>. DEFINE i == n + 2 + k
    <3>1. i \in Nat /\ 1 <= i /\ i <= Len(ops) /\ o + i - 1 <= VLimit /\ o + i - 1 = sp + 1 + k
      BY <1>1, <1>2, <2>4, <2>5, StackAssumption
    <3>2. ops[i] = args[k]
      BY <1>2
    <3>. HIDE DEF i
    <3>3. Write(mem, o, ops)[o + i - 1] = ops[i]
      BY <1>1, <1>2, <3>1, ReadBack
    <3>. QED BY <2>2, <3>1, <3>2, <3>3
  <2>8. b.need <= Len(b.ops)
    BY <1>2, <1>7
  <2>10. sp + 2 + Len(args) <= VLimit /\ LiveBelow(mem', sp + 2 + Len(args))
    BY <2>3, <2>4, <2>5
  <2>11. LET w == Append(Swapped(acts, b), Act(t, sp, Len(args), "direct", 0, args))
         IN Stacked(mem', w) /\ Settled(mem', vtop, w)
    BY <1>0, <1>1, <1>7, <2>3, <2>6, <2>8, <2>9, <2>10, CallStep DEF o
  <2>. QED BY <2>1, <2>11 DEF Inv
<1>6. CASE ~(emit_stack_fits(TopOff(a), Len(args)) /\ Len(acts) < MaxActs)
  <2>1. HelperCall(Top, <<Callee, This>> \o args, Len(args) + 2, "op")
    BY <1>6 DEF DirectCall, ops
  <2>2. <<Callee, This>> \o args \in Seq(LiveValue) /\ Len(args) + 2 \in Nat /\ Len(args) + 2 <= Len(<<Callee, This>> \o args)
    BY Constants, PairSeq
  <2>. QED BY <2>1, <2>2, HelperCallStep
<1>. QED BY <1>5, <1>6

\* The operands with a construct's frame pushed on them (new.target last).
LEMMA PushedMore ==
    ASSUME NEW xs \in Seq(LiveValue), NEW p \in LiveValue, NEW q \in LiveValue, NEW args \in Seq(LiveValue), NEW r \in LiveValue
    PROVE  LET ops == xs \o <<p, q>> \o args \o <<r>>
           IN /\ ops \in Seq(LiveValue) /\ Len(ops) = Len(xs) + 3 + Len(args)
              /\ Len(xs) \in Nat /\ Len(args) \in Nat
              /\ \A k \in 1..Len(args) : ops[Len(xs) + 2 + k] = args[k]
<1>. DEFINE ys == xs \o <<p, q>> \o args
            zs == ys \o <<r>>
<1>1. ys \in Seq(LiveValue) /\ Len(ys) = Len(xs) + 2 + Len(args) /\ Len(xs) \in Nat /\ Len(args) \in Nat
      /\ \A k \in 1..Len(args) : ys[Len(xs) + 2 + k] = args[k]
  BY PushedSeq
<1>. HIDE DEF ys
<1>2. zs \in Seq(LiveValue) /\ Len(zs) = Len(ys) + 1 /\ \A k \in 1..Len(ys) : zs[k] = ys[k]
  <2>1. ys \in Seq(LiveValue)
    BY <1>1
  <2>. QED BY <2>1
<1>. HIDE DEF zs
<1>3. \A k \in 1..Len(args) : Len(xs) + 2 + k \in 1..Len(ys)
  BY <1>1
<1>4. \A k \in 1..Len(args) : zs[Len(xs) + 2 + k] = args[k]
  BY <1>1, <1>2, <1>3
<1>5. Len(zs) = Len(xs) + 3 + Len(args)
  BY <1>1, <1>2
<1>. QED BY <1>1, <1>2, <1>4, <1>5 DEF ys, zs

\* A constructor is called: its `this` is allocated first, with the arguments
\* already in their slots.
LEMMA DirectConstructStep ==
    ASSUME Inv, InRun, NEW t \in DOMAIN Code, NEW args \in Seq(LiveValue), DirectConstruct(t, args), vtop' <= VLimit
    PROVE  Inv'
<1>. DEFINE ops == Top.ops \o <<Callee, Undef>> \o args \o <<Callee>>
            a == [Top EXCEPT !.ops = ops]
            o == View(Top).operands
            n == Len(Top.ops)
            b == [SetNightTop(a, vtop', "new") EXCEPT !.need = Len(args) + 3, !.target = t, !.actuals = args]
<1>0. acts # <<>> /\ Top.mode = "run"
  BY DEF InRun
<1>1. /\ Stacked(mem, acts) /\ mem \in Mem /\ Top \in ActType /\ Top = acts[Len(acts)] /\ SegsNest(Top)
      /\ OpsLive(Top) /\ o \in Nat /\ LiveBelow(mem, o) /\ vtop \in Nat
  BY <1>0, TopFacts
<1>2. /\ ops \in Seq(LiveValue) /\ Len(ops) = n + 3 + Len(args)
      /\ n \in Nat /\ Len(args) \in Nat
      /\ \A k \in 1..Len(args) : ops[n + 2 + k] = args[k]
  <2>1. Top.ops \in Seq(LiveValue)
    BY <1>1, Fields, LiveSeq DEF OpsLive
  <2>. QED BY <2>1, Constants, PushedMore
<1>. HIDE DEF ops
<1>3. SameFrame(Top, a) /\ a.ops = ops
  BY <1>1 DEF SameFrame, ActType
<1>4. View(a) = View(Top) /\ TopOff(a) = o + Len(ops)
  BY <1>3, SameViews
<1>. HIDE DEF o, n
<1>5. CASE emit_stack_fits(TopOff(a), Len(args)) /\ Len(acts) < MaxActs
  <2>1. mem' = spill_all(mem, a) /\ vtop' = TopOff(a) /\ acts' = Swapped(acts, b)
    BY <1>5, WithIs DEF DirectConstruct, ops
  <2>2. mem' = Write(mem, o, ops)
    BY <2>1, <1>3, <1>4 DEF spill_all, o
  <2>3. mem' \in Mem /\ Agree(mem, mem', o) /\ LiveBelow(mem', vtop') /\ vtop' \in Nat /\ vtop' = o + Len(ops)
    BY <1>1, <1>2, <1>4, <2>1, <2>2, SpillFacts
  <2>4. b \in ActType /\ SameFrame(Top, b) /\ b.mode = "helper" /\ b.ops = ops /\ b.need = Len(args) + 3
        /\ b.want = "new" /\ b.top = vtop' /\ b.actuals = args
    <3>1. ops \in Seq(Value)
      BY <1>2, LiveSeqValue
    <3>2. Len(args) + 3 \in Nat
      BY <1>2
    <3>3. Top \in ActType /\ vtop' \in Nat
      BY <1>1, <2>3
    <3>4. b \in ActType
      BY <3>1, <3>2, <3>3 DEF ActType, SetNightTop
    <3>5. SameFrame(Top, b) /\ b.mode = "helper" /\ b.ops = ops /\ b.need = Len(args) + 3
          /\ b.want = "new" /\ b.top = vtop' /\ b.actuals = args
      BY <3>3 DEF ActType, SameFrame, SetNightTop
    <3>. QED BY <3>4, <3>5
  <2>. HIDE DEF a, b
  <2>5. TopOff(b) = o + Len(ops)
    BY <2>4, SameViews DEF o
  <2>6. StagedAt(b) = o + n
    <3>1. StagedAt(b) = (o + (n + 3 + Len(args))) - (Len(args) + 3)
      BY <1>2, <2>4, <2>5 DEF StagedAt
    <3>. QED BY <1>1, <1>2, <3>1
  <2>7. Staged(mem', b)
    <3>1. ASSUME NEW k \in 1..Len(args) PROVE mem'[o + n + 1 + k] = args[k]
      <4>. DEFINE i == n + 2 + k
      <4>1. i \in Nat /\ 1 <= i /\ i <= Len(ops) /\ o + i - 1 = o + n + 1 + k
        BY <1>1, <1>2
      <4>2. o + i - 1 <= VLimit
        BY <1>1, <1>2, <2>3, <4>1, StackAssumption
      <4>3. ops[i] = args[k]
        BY <1>2
      <4>. HIDE DEF i
      <4>4. Write(mem, o, ops)[o + i - 1] = ops[i]
        BY <1>1, <1>2, <4>1, <4>2, ReadBack
      <4>. QED BY <2>2, <4>1, <4>3, <4>4
    <3>. QED BY <2>4, <2>6, <3>1 DEF Staged
  <2>8. b.need <= Len(b.ops)
    BY <1>2, <2>4
  <2>9. Stacked(mem', Swapped(acts, b)) /\ Settled(mem', b.top, Swapped(acts, b))
    BY <1>0, <1>1, <2>3, <2>4, <2>5, <2>7, <2>8, HelperStep DEF o
  <2>. QED BY <2>1, <2>4, <2>9 DEF Inv
<1>6. CASE ~(emit_stack_fits(TopOff(a), Len(args)) /\ Len(acts) < MaxActs)
  <2>. DEFINE more == <<Callee, Undef>> \o args \o <<Callee>>
  <2>1. HelperCall(Top, more, Len(args) + 3, "op")
    BY <1>6 DEF DirectConstruct, ops
  <2>2. more \in Seq(LiveValue) /\ Len(args) + 3 \in Nat /\ Len(args) + 3 <= Len(more)
    <3>. DEFINE ys == <<Callee, Undef>> \o args
    <3>1. ys \in Seq(LiveValue) /\ Len(ys) = 2 + Len(args) /\ Len(args) \in Nat
      BY Constants, PairSeq
    <3>. HIDE DEF ys
    <3>2. ys \o <<Callee>> \in Seq(LiveValue) /\ Len(ys \o <<Callee>>) = Len(ys) + 1
      BY <3>1, Constants
    <3>3. ys \o <<Callee>> \in Seq(LiveValue) /\ Len(args) + 3 \in Nat /\ Len(args) + 3 <= Len(ys \o <<Callee>>)
      BY <3>1, <3>2
    <3>. QED BY <3>3 DEF ys
  <2>. HIDE DEF more
  <2>. QED BY <2>1, <2>2, HelperCallStep
<1>. QED BY <1>5, <1>6
-----------------------------------------------------------------------------
(* Splices.                                                                 *)

Seamed(v) == IF Raw(v) THEN Undef ELSE v

\* The popped frame, a raw actual's slot left undefined.
LEMMA SeamFacts ==
    ASSUME NEW m \in Mem, NEW base \in Nat, NEW popped \in Seq(LiveValue), NEW argc \in Nat, LiveBelow(m, base)
    PROVE  /\ store_seam_frame(m, base, popped, argc) \in Mem
           /\ Agree(m, store_seam_frame(m, base, popped, argc), base)
           /\ LiveBelow(store_seam_frame(m, base, popped, argc), base + Len(popped)) /\ Len(popped) \in Nat
           /\ \A i \in Nat : 1 <= i /\ i <= Len(popped) /\ base + i - 1 <= VLimit =>
                store_seam_frame(m, base, popped, argc)[base + i - 1]
                  = IF i - 2 \in 1..argc THEN Seamed(popped[i]) ELSE popped[i]
<1>. DEFINE w == store_seam_frame(m, base, popped, argc)
            vs == [i \in DOMAIN popped |-> IF i - 2 \in 1..argc /\ Raw(popped[i]) THEN Undef ELSE popped[i]]
<1>1. DOMAIN popped = 1..Len(popped) /\ Len(popped) \in Nat
  OBVIOUS
<1>2. \A i \in 1..Len(popped) : vs[i] = IF i - 2 \in 1..argc THEN Seamed(popped[i]) ELSE popped[i]
  BY <1>1 DEF Seamed
<1>3. \A i \in 1..Len(popped) : popped[i] \in LiveValue
  OBVIOUS
<1>4. \A i \in 1..Len(popped) : (IF i - 2 \in 1..argc /\ Raw(popped[i]) THEN Undef ELSE popped[i]) \in LiveValue
  BY <1>3, Values
<1>5. vs \in Seq(LiveValue) /\ Len(vs) = Len(popped)
  BY <1>1, <1>4
<1>6. w = Write(m, base, vs)
  BY DEF store_seam_frame
<1>. HIDE DEF vs, w
<1>7. w \in Mem /\ Agree(m, w, base) /\ LiveBelow(w, base + Len(popped))
  BY <1>5, <1>6, SpillFacts
<1>8. ASSUME NEW i \in Nat, 1 <= i, i <= Len(popped), base + i - 1 <= VLimit
      PROVE  w[base + i - 1] = IF i - 2 \in 1..argc THEN Seamed(popped[i]) ELSE popped[i]
  <2>1. w[base + i - 1] = vs[i]
    BY <1>5, <1>6, <1>8, ReadBack
  <2>2. i \in 1..Len(popped)
    BY <1>1, <1>8
  <2>. QED BY <1>2, <2>1, <2>2
<1>. QED BY <1>1, <1>7, <1>8 DEF w

\* A constructor is spliced: first its `this`, with the popped frame rooted.
LEMMA InlineConstructStep ==
    ASSUME Inv, InRun, NEW t \in DOMAIN Code, NEW args \in Seq(LiveValue),
           Spliceable(t, args), emit_inline_construct(t, args), vtop' <= VLimit
    PROVE  Inv'
<1>. DEFINE popped == <<Callee, Undef>> \o args \o <<Callee>>
            o == View(Top).operands
            n == Len(Top.ops)
            m1 == spill_all(mem, Top)
            b == [SetNightTop(Top, vtop', "splice") EXCEPT !.need = 0, !.target = t, !.actuals = args]
<1>0. acts # <<>> /\ Top.mode = "run"
  BY DEF InRun
<1>1. /\ Stacked(mem, acts) /\ mem \in Mem /\ Top \in ActType /\ Top = acts[Len(acts)] /\ SegsNest(Top)
      /\ OpsLive(Top) /\ o \in Nat /\ LiveBelow(mem, o) /\ vtop \in Nat /\ TopOff(Top) = o + n
  BY <1>0, TopFacts
<1>2. /\ popped \in Seq(LiveValue) /\ Len(popped) = Len(args) + 3 /\ Len(args) \in Nat
      /\ \A k \in 1..Len(args) : popped[2 + k] = args[k]
  <2>. DEFINE ys == <<Callee, Undef>> \o args
  <2>1. ys \in Seq(LiveValue) /\ Len(ys) = 2 + Len(args) /\ Len(args) \in Nat /\ \A k \in 1..Len(args) : ys[2 + k] = args[k]
    BY Constants, PairSeq
  <2>. HIDE DEF ys
  <2>2. ys \o <<Callee>> \in Seq(LiveValue) /\ Len(ys \o <<Callee>>) = Len(ys) + 1
        /\ \A k \in 1..Len(ys) : (ys \o <<Callee>>)[k] = ys[k]
    <3>1. ys \in Seq(LiveValue)
      BY <2>1
    <3>. QED BY <3>1, Constants
  <2>3. \A k \in 1..Len(args) : 2 + k \in 1..Len(ys)
    BY <2>1
  <2>4. Len(ys \o <<Callee>>) = Len(args) + 3
    BY <2>1, <2>2
  <2>5. \A k \in 1..Len(args) : (ys \o <<Callee>>)[2 + k] = args[k]
    BY <2>1, <2>2, <2>3
  <2>. QED BY <2>1, <2>2, <2>4, <2>5 DEF ys
<1>3. mem' = store_seam_frame(m1, TopOff(Top), popped, Len(args)) /\ vtop' = TopOff(Top) + Len(popped) /\ acts' = Swapped(acts, b)
  BY WithIs DEF emit_inline_construct
<1>4. m1 \in Mem /\ Agree(mem, m1, o) /\ LiveBelow(m1, o + n) /\ n \in Nat /\ TopOff(Top) \in Nat
  <2>1. Top.ops \in Seq(LiveValue)
    BY <1>1, Fields, LiveSeq DEF OpsLive
  <2>2. m1 = Write(mem, o, Top.ops)
    BY DEF spill_all
  <2>3. m1 \in Mem /\ Agree(mem, m1, o) /\ LiveBelow(m1, o + n) /\ n \in Nat
    BY <1>1, <2>1, <2>2, SpillFacts
  <2>. QED BY <1>1, <2>3
<1>5. Spliceable(t, args) => RawSurplus \/ \A k \in DOMAIN args : k > Code[t].nargs => ~Raw(args[k])
  BY DEF Spliceable
<1>. HIDE DEF popped, m1, o, n
<1>6. /\ mem' \in Mem /\ Agree(m1, mem', o + n) /\ LiveBelow(mem', vtop')
      /\ \A i \in Nat : 1 <= i /\ i <= Len(popped) /\ (o + n) + i - 1 <= VLimit =>
           mem'[(o + n) + i - 1] = IF i - 2 \in 1..Len(args) THEN Seamed(popped[i]) ELSE popped[i]
  <2>. DEFINE base == o + n
  <2>1. base \in Nat /\ LiveBelow(m1, base) /\ m1 \in Mem
    BY <1>1, <1>4
  <2>2. mem' = store_seam_frame(m1, base, popped, Len(args)) /\ vtop' = base + Len(popped)
    BY <1>1, <1>3
  <2>. HIDE DEF base
  <2>3. /\ mem' \in Mem /\ Agree(m1, mem', base) /\ LiveBelow(mem', base + Len(popped))
        /\ \A i \in Nat : 1 <= i /\ i <= Len(popped) /\ base + i - 1 <= VLimit =>
             mem'[base + i - 1] = IF i - 2 \in 1..Len(args) THEN Seamed(popped[i]) ELSE popped[i]
    <3>1. base \in Nat /\ LiveBelow(m1, base) /\ m1 \in Mem /\ popped \in Seq(LiveValue) /\ Len(args) \in Nat
      BY <1>2, <2>1
    <3>. DEFINE argc == Len(args)
                w == store_seam_frame(m1, base, popped, argc)
    <3>. HIDE DEF argc
    <3>2. /\ w \in Mem /\ Agree(m1, w, base) /\ LiveBelow(w, base + Len(popped))
          /\ \A i \in Nat : 1 <= i /\ i <= Len(popped) /\ base + i - 1 <= VLimit =>
               w[base + i - 1] = IF i - 2 \in 1..argc THEN Seamed(popped[i]) ELSE popped[i]
      BY <3>1, SeamFacts DEF argc
    <3>. HIDE DEF w
    <3>. QED BY <2>2, <3>2 DEF w, argc
  <2>. QED BY <2>2, <2>3 DEF base
<1>7. vtop' = o + n + Len(args) + 3 /\ vtop' \in Nat
  BY <1>1, <1>2, <1>3, <1>4
<1>8. b \in ActType /\ SameFrame(Top, b) /\ b.mode = "helper" /\ b.ops = Top.ops /\ b.need = 0
      /\ b.want = "splice" /\ b.top = vtop' /\ b.actuals = args /\ b.target = t
  <2>1. Top \in ActType /\ vtop' \in Nat
    BY <1>1, <1>7
  <2>2. b \in ActType
    BY <2>1 DEF ActType, SetNightTop
  <2>3. SameFrame(Top, b) /\ b.mode = "helper" /\ b.ops = Top.ops /\ b.need = 0
        /\ b.want = "splice" /\ b.top = vtop' /\ b.actuals = args /\ b.target = t
    BY <2>1 DEF ActType, SameFrame, SetNightTop
  <2>. QED BY <2>2, <2>3
<1>. HIDE DEF b
<1>9. TopOff(b) = o + n
  BY <1>1, <1>8, SameViews DEF o, n
<1>10. Agree(mem, mem', o)
  BY <1>1, <1>4, <1>6, StackAssumption DEF Agree
<1>11. Staged(mem', b)
  <2>1. StagedAt(b) = o + n
    BY <1>8, <1>9 DEF StagedAt
  <2>2. ASSUME NEW k \in 1..Len(args) PROVE mem'[o + n + 1 + k] = Seamed(args[k])
    <3>. DEFINE i == 2 + k
    <3>5. o \in Nat /\ n \in Nat /\ Len(args) \in Nat /\ k \in Nat /\ 1 <= k /\ k <= Len(args) /\ Len(popped) = Len(args) + 3
      BY <1>1, <1>2, <1>4
    <3>1. i \in Nat /\ 1 <= i /\ i <= Len(popped) /\ (o + n) + i - 1 = o + n + 1 + k /\ i - 2 \in 1..Len(args)
      BY <3>5
    <3>2. (o + n) + i - 1 <= VLimit
      <4>1. o + n + Len(args) + 3 <= VLimit
        BY <1>7
      <4>2. i <= Len(args) + 3
        BY <1>2
      <4>3. o \in Nat /\ n \in Nat /\ Len(args) \in Nat
        BY <1>1, <1>2, <1>4
      <4>. QED BY <3>1, <4>1, <4>2, <4>3, StackAssumption
    <3>3. popped[i] = args[k]
      BY <1>2
    <3>. HIDE DEF i
    <3>4. mem'[(o + n) + i - 1] = Seamed(popped[i])
      BY <1>6, <3>1, <3>2
    <3>. QED BY <3>1, <3>3, <3>4
  <2>. QED BY <1>8, <2>1, <2>2 DEF Staged, Seamed
<1>12. RawSurplus \/ NoSurplus(b)
  BY <1>5, <1>8 DEF NoSurplus
<1>13. b.need <= Len(b.ops) /\ b.top = TopOff(b) + Len(b.actuals) + 3 /\ b.top <= VLimit /\ LiveBelow(mem', b.top)
  BY <1>4, <1>6, <1>7, <1>8, <1>9 DEF n
<1>14. Stacked(mem', Swapped(acts, b)) /\ Settled(mem', b.top, Swapped(acts, b))
  BY <1>0, <1>1, <1>6, <1>8, <1>10, <1>11, <1>12, <1>13, HelperStep DEF o
<1>. QED BY <1>3, <1>8, <1>14 DEF Inv

\* What an edge into a spliced callee leaves in memory, slot by slot.
LEMMA SpliceAt ==
    ASSUME NEW m \in Mem, NEW base \in Nat, NEW args \in Seq(LiveValue), NEW t \in DOMAIN Code, NEW nf \in Nat, NEW rides,
           NEW w, w = StoreSeam(init_child_frame(m, base, Len(args), nf, t), base, args, rides)
    PROVE  /\ w \in Mem
           /\ \A i \in 0..VLimit :
                w[i] = IF i - base - 1 \in 1..Len(args) /\ Raw(args[i - base - 1]) /\ i - base - 1 \notin rides
                       THEN args[i - base - 1]
                       ELSE IF i >= base + 2 + nf /\ i < base + 2 + nf + (Code[t].nlocals + 1) THEN Undef
                       ELSE IF Len(args) < Code[t].nargs /\ i >= base + 2 + Len(args) /\ i < base + 2 + Code[t].nargs THEN Undef
                       ELSE m[i]
<1>. DEFINE n == Len(args)
            nargs == Code[t].nargs
            nl == Code[t].nlocals
            m1 == IF n < nargs THEN Fill(m, base + 2 + n, nargs - n, Undef) ELSE m
            m2 == Fill(m1, base + 2 + nf, nl + 1, Undef)
<1>1. n \in Nat /\ nargs \in Nat /\ nl \in Nat /\ Undef \in Value /\ DOMAIN args = 1..n
  BY CodeAssumption, Values
<1>2. w = StoreSeam(m2, base, args, rides)
  BY DEF init_child_frame
<1>3. \A k \in 1..n : args[k] \in Value
  BY Values
<1>. HIDE DEF n, nargs, nl
<1>4. m1 \in Mem /\ \A i \in 0..VLimit : m1[i] = IF n < nargs /\ i >= base + 2 + n /\ i < base + 2 + nargs THEN Undef ELSE m[i]
  <2>1. CASE n < nargs
    <3>1. base + 2 + n \in Nat /\ nargs - n \in Int /\ (base + 2 + n) + (nargs - n) = base + 2 + nargs
      BY <1>1
    <3>. DEFINE f == base + 2 + n
                l == nargs - n
    <3>. HIDE DEF f, l
    <3>2. Fill(m, f, l, Undef) \in Mem /\ \A i \in 0..VLimit : Fill(m, f, l, Undef)[i] = IF i >= f /\ i < f + l THEN Undef ELSE m[i]
      BY <1>1, <3>1, FillFacts DEF f, l
    <3>. QED BY <2>1, <3>1, <3>2 DEF f, l
  <2>2. CASE ~(n < nargs)
    BY <2>2
  <2>. QED BY <2>1, <2>2
<1>. HIDE DEF m1
<1>5. m2 \in Mem /\ \A i \in 0..VLimit : m2[i] = IF i >= base + 2 + nf /\ i < base + 2 + nf + (nl + 1) THEN Undef ELSE m1[i]
  <2>. DEFINE f == base + 2 + nf
              l == nl + 1
  <2>1. f \in Nat /\ l \in Int
    BY <1>1
  <2>. HIDE DEF f, l
  <2>2. Fill(m1, f, l, Undef) \in Mem /\ \A i \in 0..VLimit : Fill(m1, f, l, Undef)[i] = IF i >= f /\ i < f + l THEN Undef ELSE m1[i]
    BY <1>1, <1>4, <2>1, FillFacts
  <2>. QED BY <2>2 DEF f, l
<1>. HIDE DEF m2
<1>6. \A i \in 0..VLimit : w[i] = IF i - base - 1 \in 1..n /\ Raw(args[i - base - 1]) /\ i - base - 1 \notin rides
                                  THEN args[i - base - 1] ELSE m2[i]
  BY <1>1, <1>2, <1>5 DEF StoreSeam, Mem
<1>7. w \in Mem
  <2>1. DOMAIN m2 = 0..VLimit /\ \A i \in 0..VLimit : m2[i] \in Value
    BY <1>5 DEF Mem
  <2>2. w = [i \in 0..VLimit |-> IF i - base - 1 \in 1..n /\ Raw(args[i - base - 1]) /\ i - base - 1 \notin rides
                                 THEN args[i - base - 1] ELSE m2[i]]
    BY <1>1, <1>2, <2>1 DEF StoreSeam
  <2>. QED BY <1>3, <2>1, <2>2 DEF Mem
<1>. QED BY <1>4, <1>5, <1>6, <1>7 DEF n, nargs, nl

\* The slots of the actuals before the edge, the actuals that ride it, and the
\* callee's frame after it.
SeamHolds(m, base, args) == \A k \in 1..Len(args) : base + 1 + k <= VLimit => m[base + 1 + k] = Seamed(args[k])
Rides(rides, args, nf) == \A k \in rides : k \in 1..Len(args) /\ k <= nf /\ Raw(args[k])
NoRawPast(t, args) == \A k \in DOMAIN args : k > Code[t].nargs => ~Raw(args[k])
CalleeFrame(w, base, t, args, nf, rides) ==
    /\ \A k \in 1..nf : k \notin rides => w[base + 1 + k] = IF k \in 1..Len(args) THEN args[k] ELSE Undef
    /\ \A k \in 0..Code[t].nlocals : w[base + 2 + nf + k] = Undef

\* A splice's frame has at least the callee's formals, and more only for
\* actuals a wrapper takes (seg_nformals).
LEMMA Formals ==
    ASSUME NEW t \in DOMAIN Code, NEW n \in Nat
    PROVE  /\ seg_nformals(t, n) \in Nat /\ Code[t].nargs <= seg_nformals(t, n)
           /\ n < seg_nformals(t, n) => seg_nformals(t, n) = Code[t].nargs
<1>1. Code[t].nargs \in Nat
  BY CodeAssumption
<1>. QED BY <1>1 DEF seg_nformals, Wrapped, Larger

\* The callee's frame: live, and as a call would have made it.
LEMMA SpliceMem ==
    ASSUME NEW m \in Mem, NEW base \in Nat, NEW args \in Seq(LiveValue), NEW t \in DOMAIN Code, NEW nf,
           nf = seg_nformals(t, Len(args)), NEW rides, Rides(rides, args, nf),
           NEW w, w = StoreSeam(init_child_frame(m, base, Len(args), nf, t), base, args, rides),
           LiveBelow(m, base + 2 + Len(args)), SeamHolds(m, base, args),
           base + 2 + nf + (Code[t].nlocals + 1) <= VLimit
    PROVE  /\ w \in Mem /\ Agree(m, w, base) /\ LiveBelow(w, base + 2 + nf + (Code[t].nlocals + 1))
           /\ NoRawPast(t, args) => CalleeFrame(w, base, t, args, nf, rides)
<1>. DEFINE n == Len(args)
            nargs == Code[t].nargs
            nl == Code[t].nlocals
            Stored(i) == i - base - 1 \in 1..n /\ Raw(args[i - base - 1]) /\ i - base - 1 \notin rides
            top == base + 2 + nf + (nl + 1)
<1>1. n \in Nat /\ nargs \in Nat /\ nl \in Nat /\ DOMAIN args = 1..n
  BY CodeAssumption
<1>2. nf \in Nat /\ nargs <= nf /\ (n < nf => nf = nargs)
  BY <1>1, Formals
<1>3. /\ w \in Mem
      /\ \A i \in 0..VLimit : w[i] = IF Stored(i) THEN args[i - base - 1]
                                     ELSE IF i >= base + 2 + nf /\ i < base + 2 + nf + (nl + 1) THEN Undef
                                     ELSE IF n < nargs /\ i >= base + 2 + n /\ i < base + 2 + nargs THEN Undef ELSE m[i]
  BY <1>2, SpliceAt
<1>4. \A k \in 1..n : args[k] \in LiveValue
  OBVIOUS
<1>. HIDE DEF n, nargs, nl
<1>5. Agree(m, w, base)
  <2>. SUFFICES ASSUME NEW i \in 0..VLimit, i < base PROVE w[i] = m[i]
    BY DEF Agree
  <2>1. ~Stored(i) /\ ~(i >= base + 2 + nf) /\ ~(i >= base + 2 + n)
    BY <1>1, <1>2, StackAssumption
  <2>. QED BY <1>3, <2>1
<1>6. LiveBelow(w, top)
  <2>. SUFFICES ASSUME NEW i \in 0..VLimit, i < top PROVE w[i] \in LiveValue
    BY DEF LiveBelow
  <2>1. CASE Stored(i)
    BY <1>3, <1>4, <2>1
  <2>2. CASE ~Stored(i) /\ (i >= base + 2 + nf \/ (n < nargs /\ i >= base + 2 + n /\ i < base + 2 + nargs))
    <3>1. w[i] = Undef
      BY <1>3, <2>2
    <3>. QED BY <3>1, Values
  <2>3. CASE ~Stored(i) /\ ~(i >= base + 2 + nf) /\ ~(n < nargs /\ i >= base + 2 + n /\ i < base + 2 + nargs)
    <3>1. w[i] = m[i]
      BY <1>3, <2>3
    <3>2. i < base + 2 + n
      BY <1>1, <1>2, <2>3, StackAssumption
    <3>. QED BY <3>1, <3>2 DEF LiveBelow, n
  <2>. QED BY <2>1, <2>2, <2>3
<1>7. ASSUME \A k \in DOMAIN args : k > nargs => ~Raw(args[k]), NEW k \in 1..nf, k \notin rides
      PROVE  w[base + 1 + k] = IF k \in 1..n THEN args[k] ELSE Undef
  <2>. DEFINE i == base + 1 + k
  <2>1. i \in 0..VLimit /\ i - base - 1 = k /\ ~(i >= base + 2 + nf) /\ i = base + 1 + k
    <3>1. top <= VLimit
      BY DEF n, nl
    <3>. QED BY <1>1, <1>2, <3>1, StackAssumption
  <2>. HIDE DEF i
  <2>2. CASE k \in 1..n
    <3>1. ~(i >= base + 2 + n)
      BY <1>1, <2>1, <2>2
    <3>2. CASE Raw(args[k])
      <4>1. Stored(i)
        BY <1>7, <2>1, <2>2, <3>2
      <4>. QED BY <1>3, <2>1, <2>2, <4>1
    <3>3. CASE ~Raw(args[k])
      <4>1. ~Stored(i)
        BY <2>1, <3>3
      <4>2. w[i] = m[i]
        BY <1>3, <2>1, <3>1, <4>1
      <4>3. k \in 1..Len(args) /\ base + 1 + k <= VLimit
        BY <2>1, <2>2, StackAssumption DEF n
      <4>4. m[base + 1 + k] = Seamed(args[k])
        BY <4>3 DEF SeamHolds
      <4>. QED BY <2>1, <2>2, <3>3, <4>2, <4>4 DEF Seamed
    <3>. QED BY <3>2, <3>3
  <2>3. CASE k \notin 1..n
    <3>1. n < k /\ n < nargs /\ i >= base + 2 + n /\ i < base + 2 + nargs
      BY <1>1, <1>2, <2>1, <2>3
    <3>2. ~Stored(i)
      BY <2>1, <2>3
    <3>3. w[i] = Undef
      BY <1>3, <2>1, <3>1, <3>2
    <3>. QED BY <2>1, <2>3, <3>3
  <2>. QED BY <2>2, <2>3
<1>8. ASSUME \A k \in DOMAIN args : k > nargs => ~Raw(args[k]), NEW k \in 0..nl
      PROVE  w[base + 2 + nf + k] = Undef
  <2>. DEFINE i == base + 2 + nf + k
  <2>1. i \in 0..VLimit /\ i - base - 1 > nargs /\ i >= base + 2 + nf /\ i < base + 2 + nf + (nl + 1) /\ i = base + 2 + nf + k
    <3>1. base + 2 + nf + (nl + 1) <= VLimit
      BY DEF n, nl
    <3>2. k \in Nat /\ k <= nl
      BY <1>1
    <3>3. i - base - 1 > nargs
      BY <1>1, <1>2, <3>2
    <3>4. i >= base + 2 + nf /\ i < base + 2 + nf + (nl + 1) /\ i \in Nat
      BY <1>1, <1>2, <3>2
    <3>5. i \in 0..VLimit
      BY <1>1, <1>2, <3>1, <3>4, StackAssumption
    <3>. QED BY <3>3, <3>4, <3>5
  <2>. HIDE DEF i
  <2>2. ~Stored(i)
    BY <1>1, <1>8, <2>1
  <2>. QED BY <1>3, <2>1, <2>2
<1>9. (\A k \in DOMAIN args : k > nargs => ~Raw(args[k])) =>
        /\ \A k \in 1..nf : k \notin rides => w[base + 1 + k] = IF k \in 1..n THEN args[k] ELSE Undef
        /\ \A k \in 0..nl : w[base + 2 + nf + k] = Undef
  BY <1>7, <1>8
<1>. QED BY <1>3, <1>5, <1>6, <1>9 DEF n, nargs, nl, NoRawPast, CalleeFrame

\* A view over the others.
LEMMA SegPush ==
    ASSUME NEW a \in ActType, SegsNest(a), NEW sg \in SegType, sg.base = TopOff(a), sg.depth = Len(a.ops),
           sg.operands = View(a).operands, NEW b \in ActType, b.segs = Append(a.segs, sg),
           b.body = a.body, b.sp = a.sp, b.argc = a.argc, b.passed = a.passed, b.wrote = a.wrote
    PROVE  /\ SegsNest(b) /\ View(b) = enter_frame_view(sg) /\ Views(b) = Views(a) \cup {enter_frame_view(sg)}
<1>. DEFINE n == Len(a.segs)
<1>1. a.segs \in Seq(SegType)
  BY Fields
<1>2. /\ b.segs \in Seq(SegType) /\ Len(b.segs) = n + 1 /\ n \in Nat /\ b.segs # <<>>
      /\ b.segs[n + 1] = sg /\ \A i \in 1..n : b.segs[i] = a.segs[i]
  BY <1>1, PushSeq
<1>3. RootView(b) = RootView(a)
  BY DEF RootView, vp
<1>4. View(b) = enter_frame_view(sg)
  <2>1. b.segs[Len(b.segs)] = sg
    BY <1>2
  <2>. QED BY <1>2, <2>1 DEF View
<1>5. DOMAIN a.segs = 1..n /\ DOMAIN b.segs = 1..(n + 1)
  BY <1>1, <1>2
<1>. HIDE DEF n
<1>6. Views(b) = Views(a) \cup {enter_frame_view(sg)}
  <2>1. \A i \in 1..(n + 1) : i = n + 1 \/ i \in 1..n
    BY <1>2
  <2>2. \A i \in 1..n : i \in 1..(n + 1)
    BY <1>2
  <2>3. n + 1 \in 1..(n + 1)
    BY <1>2
  <2>4. {enter_frame_view(b.segs[i]) : i \in 1..(n + 1)} = {enter_frame_view(a.segs[i]) : i \in 1..n} \cup {enter_frame_view(sg)}
    BY <1>2, <2>1, <2>2, <2>3
  <2>. QED BY <1>3, <1>5, <2>4 DEF Views
<1>7. /\ View(a).operands \in Nat /\ TopOff(a) = View(a).operands + Len(a.ops)
      /\ \A v \in Views(a) : v.operands \in Nat /\ v.operands <= View(a).operands
  <2>1. \A v : ViewShape(v) => v.operands \in Nat
    BY DEF ViewShape
  <2>2. /\ View(a).operands \in Nat /\ TopOff(a) = View(a).operands + Len(a.ops)
        /\ \A v \in Views(a) : ViewShape(v) /\ v.operands <= View(a).operands
    BY ViewFacts
  <2>. QED BY <2>1, <2>2
<1>8. \A v \in Views(a) : v.operands <= sg.base
  <2>1. Len(a.ops) \in Nat
    BY Fields
  <2>. QED BY <1>7, <2>1
<1>9. RootView(a).operands <= sg.base
  BY <1>8 DEF Views
<1>10. \A i \in 1..n : enter_frame_view(a.segs[i]).operands <= sg.base
  BY <1>5, <1>8 DEF Views
<1>11. ASSUME NEW i \in 1..(n + 1)
       PROVE  /\ RootView(b).operands <= b.segs[i].base
              /\ \A j \in 1..(i - 1) : enter_frame_view(b.segs[j]).operands <= b.segs[i].base
              /\ b.segs[i].operands + b.segs[i].depth <= b.segs[i].base
  <2>1. CASE i = n + 1
    <3>1. b.segs[i] = sg
      BY <1>2, <2>1
    <3>2. \A j \in 1..(i - 1) : j \in 1..n /\ b.segs[j] = a.segs[j]
      BY <1>2, <2>1
    <3>3. \A j \in 1..(i - 1) : enter_frame_view(b.segs[j]).operands <= sg.base
      BY <1>10, <3>2
    <3>4. sg.operands + sg.depth <= sg.base
      <4>1. Len(a.ops) \in Nat
        BY Fields
      <4>. QED BY <1>7, <4>1
    <3>. QED BY <1>3, <1>9, <3>1, <3>3, <3>4
  <2>2. CASE i # n + 1
    <3>1. i \in 1..n /\ b.segs[i] = a.segs[i]
      BY <1>2, <2>2
    <3>2. \A j \in 1..(i - 1) : j \in 1..n /\ b.segs[j] = a.segs[j]
      BY <1>2, <3>1
    <3>3. i \in 1..Len(a.segs)
      BY <3>1 DEF n
    <3>. QED BY <1>3, <3>1, <3>2, <3>3 DEF SegsNest
  <2>. QED BY <2>1, <2>2
<1>12. SegsNest(b)
  BY <1>2, <1>11 DEF SegsNest
<1>. QED BY <1>4, <1>6, <1>12

\* The records of a spliced frame.
SegOf(sg, a, t, args, nf, rides) ==
    /\ sg \in SegType /\ sg.base = TopOff(a) /\ sg.depth = Len(a.ops) /\ sg.operands = View(a).operands /\ sg.body = t
    /\ sg.nformals = nf /\ sg.passed = args /\ sg.carried = [k \in rides |-> args[k]] /\ sg.wrote = FALSE
Spliced(a, b, sg) ==
    /\ b.segs = Append(a.segs, sg) /\ b.body = a.body /\ b.sp = a.sp /\ b.argc = a.argc /\ b.passed = a.passed
    /\ b.wrote = a.wrote /\ b.mode = "run" /\ b.ops = <<>> /\ b.kind = a.kind /\ b.saved = a.saved

\* The record a splice pushes.
LEMMA SegIs ==
    ASSUME NEW a, NEW base \in Nat, base = TopOff(a), NEW d \in Nat, d = Len(a.ops), NEW o \in Nat, o = View(a).operands,
           NEW t \in DOMAIN Code, NEW args \in Seq(LiveValue), NEW nf \in Nat,
           NEW rides, \A k \in rides : k \in 1..Len(args),
           NEW sg, sg = [body |-> t, base |-> base, nformals |-> nf, depth |-> d, operands |-> o,
                         wrote |-> FALSE, passed |-> args, carried |-> [k \in rides |-> args[k]]]
    PROVE  SegOf(sg, a, t, args, nf, rides)
<1>. DEFINE cr == [k \in rides |-> args[k]]
<1>1. rides \in SUBSET Nat /\ \A k \in rides : args[k] \in LiveValue
  OBVIOUS
<1>2. cr \in Carriers
  BY <1>1 DEF Carriers
<1>. HIDE DEF cr
<1>3. sg = [body |-> t, base |-> base, nformals |-> nf, depth |-> d, operands |-> o, wrote |-> FALSE, passed |-> args, carried |-> cr]
  BY DEF cr
<1>4. sg \in SegType
  BY <1>2, <1>3 DEF SegType
<1>5. sg.base = base /\ sg.depth = d /\ sg.operands = o /\ sg.body = t
      /\ sg.nformals = nf /\ sg.passed = args /\ sg.carried = cr /\ sg.wrote = FALSE
  BY <1>3
<1>. QED BY <1>4, <1>5 DEF SegOf, cr

\* The activation a splice leaves.
LEMMA SplicedIs ==
    ASSUME NEW a \in ActType, NEW sg \in SegType, NEW b, b = [a EXCEPT !.mode = "run", !.ops = <<>>, !.segs = Append(@, sg)]
    PROVE  b \in ActType /\ Spliced(a, b, sg)
<1>1. Append(a.segs, sg) \in Seq(SegType) /\ <<>> \in Seq(Value)
  BY Fields, PushSeq
<1>2. b \in ActType
  BY <1>1 DEF ActType
<1>3. Spliced(a, b, sg)
  BY DEF ActType, Spliced
<1>. QED BY <1>2, <1>3

\* The body goes on in the spliced callee.
LEMMA SpliceStep ==
    ASSUME NEW m0, NEW st, Stacked(m0, st), st # <<>>, NEW a, a = st[Len(st)], a.mode # "entry",
           NEW m \in Mem, Agree(m0, m, View(a).operands), NEW t \in DOMAIN Code, NEW args \in Seq(LiveValue),
           LiveBelow(m, TopOff(a) + 2 + Len(args)),
           SeamHolds(m, TopOff(a), args), RawSurplus \/ NoRawPast(t, args),
           NEW nf, nf = seg_nformals(t, Len(args)), NEW rides, Rides(rides, args, nf),
           NEW w, w = StoreSeam(init_child_frame(m, TopOff(a), Len(args), nf, t), TopOff(a), args, rides),
           NEW sg, SegOf(sg, a, t, args, nf, rides), NEW b \in ActType, Spliced(a, b, sg),
           TopOff(b) < VLimit, NEW vt \in Nat
    PROVE  Stacked(w, Swapped(st, b)) /\ Settled(w, vt, Swapped(st, b))
<1>. DEFINE base == TopOff(a)
            v == enter_frame_view(sg)
            nl == Code[t].nlocals
<1>1. a \in ActType /\ ActShape(a) /\ ActMem(m0, a) /\ m0 \in Mem
  BY DEF Stacked
<1>2. SegsNest(a) /\ base \in Nat /\ View(a).operands \in Nat /\ base = View(a).operands + Len(a.ops) /\ Len(a.ops) \in Nat
  BY <1>1, ViewFacts, Fields DEF ActShape
<1>3. nf \in Nat /\ nl \in Nat /\ Len(args) \in Nat
  BY Formals, CodeAssumption
<1>4. sg \in SegType /\ sg.base = base /\ sg.depth = Len(a.ops) /\ sg.operands = View(a).operands /\ sg.body = t
      /\ sg.nformals = nf /\ sg.passed = args /\ sg.carried = [k \in rides |-> args[k]] /\ sg.wrote = FALSE
  BY DEF SegOf
<1>6. /\ b.segs = Append(a.segs, sg) /\ b.body = a.body /\ b.sp = a.sp /\ b.argc = a.argc /\ b.passed = a.passed
      /\ b.wrote = a.wrote /\ b.mode = "run" /\ b.ops = <<>> /\ b.kind = a.kind /\ b.saved = a.saved
  BY DEF Spliced
<1>. HIDE DEF v
<1>7. SegsNest(b) /\ View(b) = v /\ Views(b) = Views(a) \cup {v}
  <2>1. sg \in SegType /\ sg.base = TopOff(a) /\ sg.depth = Len(a.ops) /\ sg.operands = View(a).operands
    BY <1>4
  <2>2. /\ b.segs = Append(a.segs, sg) /\ b.body = a.body /\ b.sp = a.sp /\ b.argc = a.argc /\ b.passed = a.passed
        /\ b.wrote = a.wrote
    BY <1>6
  <2>3. a \in ActType /\ SegsNest(a)
    BY <1>1, <1>2
  <2>. QED BY <2>1, <2>2, <2>3, SegPush, SMTT(40) DEF v
<1>8. /\ ViewShape(v) /\ v.base = base /\ v.body = t /\ v.operands \in Nat /\ v.passed = args
      /\ v.carried = [k \in rides |-> args[k]] /\ v.seen = nf /\ v.rval = v.locals + nl
  BY <1>4, SegShape DEF v
<1>. HIDE DEF base, nl
<1>9. v.locals = base + 2 + nf /\ v.rval = base + 2 + nf + nl /\ v.operands = base + 2 + nf + (nl + 1)
  <2>1. v.locals = base + 2 + nf /\ v.operands = v.rval + 1
    BY <1>8 DEF ViewShape
  <2>. QED BY <1>2, <1>3, <1>8, <2>1, SMTT(40)
<1>10. v.operands <= VLimit /\ End(b) = v.operands
  <2>1. TopOff(b) = v.operands + Len(b.ops) /\ Len(b.ops) = 0
    BY <1>6, <1>7 DEF TopOff
  <2>2. v.operands <= VLimit
    BY <1>8, <2>1, StackAssumption
  <2>. QED BY <1>6, <1>7, <2>2, EndCases
<1>11. /\ w \in Mem /\ Agree(m, w, base) /\ LiveBelow(w, base + 2 + nf + (nl + 1))
       /\ NoRawPast(t, args) => CalleeFrame(w, base, t, args, nf, rides)
  <2>1. base + 2 + nf + (Code[t].nlocals + 1) <= VLimit /\ LiveBelow(m, base + 2 + Len(args)) /\ SeamHolds(m, base, args)
    BY <1>9, <1>10 DEF base, nl
  <2>3. w = StoreSeam(init_child_frame(m, base, Len(args), nf, t), base, args, rides)
    BY DEF base
  <2>. QED BY <1>2, <2>1, <2>3, SpliceMem DEF nl
<1>12. Agree(m0, w, View(a).operands)
  BY <1>2, <1>11, StackAssumption DEF Agree
<1>13. /\ b.argc = Len(b.passed) /\ (b.kind = "resume" => b.passed = <<>> /\ Code[b.body].gen)
  BY <1>1, <1>6 DEF ActShape
<1>14. ActShape(b)
  BY <1>6, <1>7, <1>10, <1>13 DEF ActShape
<1>15. ASSUME ~RawSurplus, NEW u \in Views(b) PROVE ViewHolds(w, u)
  <2>1. CASE u \in Views(a)
    <3>1. SameFrame(a, a)
      BY DEF SameFrame
    <3>2. ViewHolds(w, u)
      BY <1>1, <1>11, <1>12, <1>15, <2>1, <3>1, FrameKept
    <3>. QED BY <3>2
  <2>2. CASE u = v
    <3>1. /\ \A k \in 1..nf : k \notin rides => w[base + 1 + k] = IF k \in 1..Len(args) THEN args[k] ELSE Undef
          /\ \A k \in 0..nl : w[base + 2 + nf + k] = Undef
      BY <1>11, <1>15 DEF CalleeFrame, nl
    <3>2. ASSUME NEW k \in 1..v.seen
          PROVE  (IF k \in DOMAIN v.carried THEN v.carried[k] ELSE w[v.base + 1 + k])
                   = (IF k \in DOMAIN v.passed THEN v.passed[k] ELSE Undef)
      <4>0. DOMAIN args = 1..Len(args) /\ DOMAIN v.carried = rides /\ v.passed = args /\ v.base = base
        BY <1>8
      <4>1. CASE k \in rides
        <5>1. k \in 1..Len(args) /\ v.carried[k] = args[k]
          BY <1>8, <4>1 DEF Rides
        <5>. QED BY <4>0, <4>1, <5>1
      <4>2. CASE k \notin rides
        BY <1>8, <3>1, <4>0, <4>2
      <4>. QED BY <4>1, <4>2
    <3>3. w[v.rval] = Undef
      <4>1. nl \in 0..nl
        BY <1>3
      <4>. QED BY <1>9, <3>1, <4>1
    <3>4. \A k \in 1..Code[v.body].nlocals : w[v.locals + k - 1] = Undef
      <4>1. Code[v.body].nlocals = nl
        BY <1>8 DEF nl
      <4>2. \A k \in 1..nl : k - 1 \in 0..nl /\ (base + 2 + nf) + k - 1 = base + 2 + nf + (k - 1)
        BY <1>2, <1>3
      <4>. QED BY <1>9, <3>1, <4>1, <4>2
    <3>. QED BY <2>2, <3>2, <3>3, <3>4 DEF ViewHolds
  <2>. QED BY <1>7, <2>1, <2>2
<1>16. ActMem(w, b)
  BY <1>6, <1>15 DEF ActMem
<1>17. Agree(m0, w, b.sp)
  <2>1. a.sp \in Nat /\ a.sp <= View(a).base /\ View(a).base + 3 <= View(a).operands /\ View(a).base \in Nat
    BY <1>1, <1>2, ViewFacts, Fields DEF ViewShape
  <2>2. a.sp <= View(a).operands
    BY <1>2, <2>1
  <2>. QED BY <1>2, <1>6, <1>12, <2>1, <2>2, AgreeLess
<1>18. LiveBelow(w, End(b)) /\ OpsLive(b)
  BY <1>6, <1>9, <1>10, <1>11 DEF OpsLive
<1>. QED BY <1>6, <1>11, <1>14, <1>16, <1>17, <1>18, SwapInv

\* The activation SpliceInto leaves, given where the actuals are.
LEMMA SpliceIntoStep ==
    ASSUME Inv, acts # <<>>, Top.mode # "entry", NEW m \in Mem, Agree(mem, m, View(Top).operands),
           NEW t \in DOMAIN Code, NEW args \in Seq(LiveValue),
           LiveBelow(m, TopOff(Top) + 2 + Len(args)), SeamHolds(m, TopOff(Top), args), RawSurplus \/ NoRawPast(t, args),
           SpliceInto(m, Top, t, args), WithinLimit'
    PROVE  Inv'
<1>. DEFINE nf == seg_nformals(t, Len(args))
            base == TopOff(Top)
            Seg(rides) == [body |-> t, base |-> base, nformals |-> nf, depth |-> Len(Top.ops), operands |-> View(Top).operands,
                           wrote |-> FALSE, passed |-> args, carried |-> [k \in rides |-> args[k]]]
            Next1(sg) == [Top EXCEPT !.mode = "run", !.ops = <<>>, !.segs = Append(@, sg)]
<1>1. /\ Stacked(mem, acts) /\ mem \in Mem /\ Top \in ActType /\ Top = acts[Len(acts)] /\ SegsNest(Top)
      /\ View(Top).operands \in Nat /\ base \in Nat /\ vtop \in Nat /\ acts \in Seq(ActType)
  BY TopFacts
<1>2. PICK rides \in SUBSET {k \in DOMAIN args : Raw(args[k]) /\ k <= nf} :
        /\ mem' = StoreSeam(init_child_frame(m, base, Len(args), nf, t), base, args, rides)
        /\ vtop' = vtop
        /\ acts' = With(Next1(Seg(rides)))
  BY DEF SpliceInto
<1>. DEFINE sg == Seg(rides)
            b == Next1(sg)
<1>3. Rides(rides, args, nf) /\ \A k \in rides : k \in 1..Len(args)
  BY DEF Rides
<1>4. nf \in Nat /\ Len(Top.ops) \in Nat
  BY <1>1, Formals, Fields
<1>5. acts' = Swapped(acts, b)
  BY <1>2, WithIs
<1>. HIDE DEF nf, base
<1>6. SegOf(sg, Top, t, args, nf, rides)
  <2>1. base = TopOff(Top) /\ sg = Seg(rides)
    BY DEF base
  <2>. HIDE DEF sg
  <2>. QED BY <1>1, <1>3, <1>4, <2>1, SegIs
<1>7. sg \in SegType
  BY <1>6 DEF SegOf
<1>. HIDE DEF sg, Seg
<1>8. b \in ActType /\ Spliced(Top, b, sg)
  BY <1>1, <1>7, SplicedIs
<1>. HIDE DEF b, Next1
<1>9. TopOff(b) < VLimit
  <2>1. /\ Len(acts') = Len(acts) /\ acts' # <<>> /\ Len(acts) \in Nat /\ Len(acts) >= 1 /\ acts' \in Seq(ActType)
        /\ acts'[Len(acts)] = b
    <3>1. /\ Swapped(acts, b) \in Seq(ActType) /\ Len(Swapped(acts, b)) = Len(acts) /\ Swapped(acts, b) # <<>>
          /\ Len(acts) \in Nat /\ Len(acts) >= 1
          /\ \A i \in 1..Len(acts) : Swapped(acts, b)[i] = IF i = Len(acts) THEN b ELSE acts[i]
      BY <1>1, <1>8, SwapSeq
    <3>2. Len(acts) \in 1..Len(acts)
      BY <3>1
    <3>. QED BY <1>5, <3>1, <3>2
  <2>2. Len(acts) \in DOMAIN acts' /\ b.mode # "entry"
    BY <1>8, <2>1 DEF Spliced
  <2>. QED BY <2>1, <2>2, ZenonT(60) DEF WithinLimit, Started, TopOff, View, RootView, enter_frame_view, vp
<1>10. mem' = StoreSeam(init_child_frame(m, TopOff(Top), Len(args), nf, t), TopOff(Top), args, rides)
  BY <1>2 DEF base
<1>11. nf = seg_nformals(t, Len(args))
  BY DEF nf
<1>12. Stacked(mem', Swapped(acts, b)) /\ Settled(mem', vtop, Swapped(acts, b))
  BY <1>1, <1>3, <1>6, <1>8, <1>9, <1>10, <1>11, SpliceStep
<1>. QED BY <1>2, <1>5, <1>12 DEF Inv

\* A call is spliced.
LEMMA InlineCallStep ==
    ASSUME Inv, InRun, NEW t \in DOMAIN Code, NEW args \in Seq(LiveValue),
           Spliceable(t, args), emit_inline_call(t, args), WithinLimit'
    PROVE  Inv'
<1>. DEFINE popped == <<Callee, This>> \o args
            o == View(Top).operands
            n == Len(Top.ops)
            base == TopOff(Top)
            m1 == spill_all(mem, Top)
            m == store_seam_frame(m1, base, popped, Len(args))
<1>0. acts # <<>> /\ Top.mode = "run"
  BY DEF InRun
<1>1. /\ mem \in Mem /\ Top \in ActType /\ OpsLive(Top) /\ o \in Nat /\ LiveBelow(mem, o) /\ base = o + n
  BY <1>0, TopFacts
<1>2. /\ popped \in Seq(LiveValue) /\ Len(popped) = 2 + Len(args) /\ Len(args) \in Nat
      /\ \A k \in 1..Len(args) : popped[2 + k] = args[k]
  BY Constants, PairSeq
<1>3. SpliceInto(m, Top, t, args)
  BY DEF emit_inline_call
<1>4. m1 \in Mem /\ Agree(mem, m1, o) /\ LiveBelow(m1, base) /\ n \in Nat /\ base \in Nat
  <2>1. Top.ops \in Seq(LiveValue)
    BY <1>1, Fields, LiveSeq DEF OpsLive
  <2>2. m1 = Write(mem, o, Top.ops)
    BY DEF spill_all
  <2>3. m1 \in Mem /\ Agree(mem, m1, o) /\ LiveBelow(m1, o + n) /\ n \in Nat
    BY <1>1, <2>1, <2>2, SpillFacts
  <2>. QED BY <1>1, <2>3
<1>5. RawSurplus \/ NoRawPast(t, args)
  BY DEF Spliceable, NoRawPast
<1>. HIDE DEF popped, m1, o, n, base
<1>6. /\ m \in Mem /\ Agree(m1, m, base) /\ LiveBelow(m, base + Len(popped))
      /\ \A i \in Nat : 1 <= i /\ i <= Len(popped) /\ base + i - 1 <= VLimit =>
           m[base + i - 1] = IF i - 2 \in 1..Len(args) THEN Seamed(popped[i]) ELSE popped[i]
  <2>1. base \in Nat /\ LiveBelow(m1, base) /\ m1 \in Mem /\ popped \in Seq(LiveValue) /\ Len(args) \in Nat
    BY <1>2, <1>4
  <2>. DEFINE argc == Len(args)
              w == store_seam_frame(m1, base, popped, argc)
  <2>. HIDE DEF argc
  <2>2. /\ w \in Mem /\ Agree(m1, w, base) /\ LiveBelow(w, base + Len(popped))
        /\ \A i \in Nat : 1 <= i /\ i <= Len(popped) /\ base + i - 1 <= VLimit =>
             w[base + i - 1] = IF i - 2 \in 1..argc THEN Seamed(popped[i]) ELSE popped[i]
    BY <2>1, SeamFacts DEF argc
  <2>. QED BY <2>2 DEF argc
<1>. HIDE DEF m
<1>7. Agree(mem, m, o)
  BY <1>1, <1>4, <1>6, StackAssumption DEF Agree
<1>8. base + Len(popped) = base + 2 + Len(args)
  BY <1>2, <1>4
<1>9. LiveBelow(m, base + 2 + Len(args))
  BY <1>6, <1>8
<1>10. SeamHolds(m, base, args)
  <2>. SUFFICES ASSUME NEW k \in 1..Len(args), base + 1 + k <= VLimit PROVE m[base + 1 + k] = Seamed(args[k])
    BY DEF SeamHolds
  <2>. DEFINE i == 2 + k
  <2>5. Len(args) \in Nat /\ k \in Nat /\ 1 <= k /\ k <= Len(args) /\ Len(popped) = 2 + Len(args) /\ base \in Nat
    BY <1>2, <1>4
  <2>1. i \in Nat /\ 1 <= i /\ i <= Len(popped) /\ base + i - 1 = base + 1 + k /\ i - 2 \in 1..Len(args)
    BY <2>5
  <2>2. popped[i] = args[k]
    BY <1>2
  <2>. HIDE DEF i
  <2>3. m[base + i - 1] = Seamed(popped[i])
    BY <1>6, <2>1
  <2>. QED BY <2>1, <2>2, <2>3
<1>. QED BY <1>0, <1>3, <1>5, <1>6, <1>7, <1>9, <1>10, SpliceIntoStep DEF base, o
-----------------------------------------------------------------------------
(* The other steps of a running body.                                       *)

\* An operand is pushed.
LEMMA PushOperandStep ==
    ASSUME Inv, InRun, acts' = With([Top EXCEPT !.ops = Append(@, Ptr(6))]), UNCHANGED <<mem, vtop>>
    PROVE  Inv'
<1>. DEFINE b == [Top EXCEPT !.ops = Append(@, Ptr(6))]
<1>0. acts # <<>> /\ Top.mode = "run"
  BY DEF InRun
<1>1. /\ Stacked(mem, acts) /\ mem \in Mem /\ Top \in ActType /\ Top = acts[Len(acts)] /\ OpsLive(Top)
      /\ LiveBelow(mem, View(Top).operands) /\ vtop \in Nat
  BY <1>0, TopFacts
<1>2. Top.ops \in Seq(Value) /\ Top.ops \in Seq(LiveValue)
  BY <1>1, Fields, LiveSeq DEF OpsLive
<1>3. Append(Top.ops, Ptr(6)) \in Seq(LiveValue)
  <2>1. Ptr(6) \in LiveValue
    BY Values
  <2>. QED BY <1>2, <2>1, PushSeq
<1>4. Append(Top.ops, Ptr(6)) \in Seq(Value) /\ \A k \in DOMAIN Append(Top.ops, Ptr(6)) : Append(Top.ops, Ptr(6))[k] \in LiveValue
  BY <1>3, LiveSeqValue
<1>5. b \in ActType /\ SameFrame(Top, b) /\ b.mode = "run" /\ OpsLive(b)
  <2>. DEFINE ops == Append(Top.ops, Ptr(6))
  <2>1. ops \in Seq(Value) /\ \A k \in DOMAIN ops : ops[k] \in LiveValue
    BY <1>4
  <2>2. b = [Top EXCEPT !.ops = ops]
    OBVIOUS
  <2>. HIDE DEF ops
  <2>3. b \in ActType /\ SameFrame(Top, b) /\ b.mode = "run" /\ b.ops = ops
    BY <1>0, <1>1, <2>1, <2>2 DEF ActType, SameFrame
  <2>. QED BY <2>1, <2>3 DEF OpsLive
<1>6. acts' = Swapped(acts, b) /\ mem' = mem /\ vtop' = vtop
  BY WithIs
<1>. HIDE DEF b
<1>7. Agree(mem, mem, View(Top).operands)
  BY DEF Agree
<1>8. Stacked(mem, Swapped(acts, b)) /\ Settled(mem, vtop, Swapped(acts, b))
  BY <1>0, <1>1, <1>5, <1>7, RunStep
<1>. QED BY <1>6, <1>8 DEF Inv

\* A frame of which only the mark `wrote' has changed.
Rewrote(u, v) ==
    /\ u.wrote = TRUE /\ u.body = v.body /\ u.base = v.base /\ u.locals = v.locals /\ u.rval = v.rval /\ u.operands = v.operands
    /\ u.seen = v.seen /\ u.passed = v.passed /\ u.carried = v.carried

\* Writing a local changes nothing else of a view: of the activation's own frame.
LEMMA RewroteRoot ==
    ASSUME NEW a \in ActType, a.segs = <<>>, NEW b, b = [a EXCEPT !.wrote = TRUE]
    PROVE  /\ b \in ActType /\ b.mode = a.mode /\ b.ops = a.ops /\ b.sp = a.sp /\ b.kind = a.kind /\ b.saved = a.saved
           /\ b.argc = a.argc /\ b.passed = a.passed /\ b.body = a.body /\ SegsNest(b)
           /\ Rewrote(View(b), View(a)) /\ Views(b) = {View(b)}
<1>1. /\ b \in ActType /\ b.mode = a.mode /\ b.ops = a.ops /\ b.sp = a.sp /\ b.kind = a.kind /\ b.saved = a.saved
      /\ b.argc = a.argc /\ b.passed = a.passed /\ b.body = a.body /\ b.segs = <<>> /\ b.wrote = TRUE
  BY DEF ActType
<1>2. SegsNest(b)
  BY <1>1 DEF SegsNest
<1>3. View(b) = RootView(b) /\ View(a) = RootView(a) /\ Views(b) = {RootView(b)}
  BY <1>1 DEF View, Views
<1>4. vp(b) = vp(a)
  BY <1>1 DEF vp
<1>5. Rewrote(RootView(b), RootView(a))
  BY <1>1, <1>4 DEF RootView, Rewrote
<1>. QED BY <1>1, <1>2, <1>3, <1>5

\* The same for the innermost splice's frame.
LEMMA RewroteSeg ==
    ASSUME NEW a \in ActType, SegsNest(a), a.segs # <<>>, NEW b, b = [a EXCEPT !.segs[Len(a.segs)].wrote = TRUE]
    PROVE  /\ b \in ActType /\ b.mode = a.mode /\ b.ops = a.ops /\ b.sp = a.sp /\ b.kind = a.kind /\ b.saved = a.saved
           /\ b.argc = a.argc /\ b.passed = a.passed /\ b.body = a.body /\ SegsNest(b)
           /\ Rewrote(View(b), View(a))
           /\ \A u \in Views(b) : u = View(b) \/ (u \in Views(a) /\ u.operands <= View(a).base)
<1>. DEFINE n == Len(a.segs)
            s == a.segs[n]
            s2 == [s EXCEPT !.wrote = TRUE]
            segs == [a.segs EXCEPT ![n] = s2]
<1>1. a.segs \in Seq(SegType) /\ n \in Nat /\ n >= 1 /\ n \in 1..n /\ DOMAIN a.segs = 1..n /\ s \in SegType
  <2>1. a.segs \in Seq(SegType)
    BY Fields
  <2>. QED BY <2>1
<1>2. s2 \in SegType /\ s2.base = s.base /\ s2.body = s.body /\ s2.nformals = s.nformals /\ s2.operands = s.operands
      /\ s2.depth = s.depth /\ s2.passed = s.passed /\ s2.carried = s.carried /\ s2.wrote = TRUE
  BY <1>1 DEF SegType
<1>3. b = [a EXCEPT !.segs = segs]
  OBVIOUS
<1>. HIDE DEF s2
<1>4. segs \in Seq(SegType) /\ Len(segs) = n /\ segs # <<>> /\ segs[n] = s2 /\ \A i \in 1..n : i # n => segs[i] = a.segs[i]
  BY <1>1, <1>2
<1>5. DOMAIN segs = 1..n
  BY <1>1
<1>. HIDE DEF segs
<1>6. /\ b \in ActType /\ b.mode = a.mode /\ b.ops = a.ops /\ b.sp = a.sp /\ b.kind = a.kind /\ b.saved = a.saved
      /\ b.argc = a.argc /\ b.passed = a.passed /\ b.body = a.body /\ b.segs = segs /\ b.wrote = a.wrote
  BY <1>3, <1>4 DEF ActType
<1>. HIDE DEF n, s
<1>7. RootView(b) = RootView(a)
  BY <1>6 DEF RootView, vp
<1>8. View(b) = enter_frame_view(s2) /\ View(a) = enter_frame_view(s)
  BY <1>4, <1>6 DEF View, s, n
<1>9. Rewrote(enter_frame_view(s2), enter_frame_view(s)) /\ enter_frame_view(s2).operands = enter_frame_view(s).operands
  BY <1>2 DEF enter_frame_view, Rewrote
<1>10. /\ \A i \in 1..n : RootView(a).operands <= a.segs[i].base
       /\ \A i \in 1..n : \A j \in 1..(i - 1) : enter_frame_view(a.segs[j]).operands <= a.segs[i].base
       /\ \A i \in 1..n : a.segs[i].operands + a.segs[i].depth <= a.segs[i].base
  BY DEF SegsNest, n
<1>11. \A i \in 1..n : /\ segs[i].base = a.segs[i].base /\ segs[i].operands = a.segs[i].operands /\ segs[i].depth = a.segs[i].depth
                       /\ (i # n => segs[i] = a.segs[i])
  BY <1>2, <1>4 DEF s
<1>12. SegsNest(b)
  <2>1. ASSUME NEW i \in 1..n, NEW j \in 1..(i - 1) PROVE enter_frame_view(segs[j]).operands <= segs[i].base
    <3>1. j \in 1..n /\ j # n
      BY <1>1
    <3>. QED BY <1>10, <1>11, <3>1
  <2>. QED BY <1>4, <1>6, <1>7, <1>10, <1>11, <2>1 DEF SegsNest
<1>13. s.base = enter_frame_view(s).base
  BY <1>1, SegShape
<1>14. ASSUME NEW u \in Views(b) PROVE u = View(b) \/ (u \in Views(a) /\ u.operands <= View(a).base)
  <2>1. CASE u = RootView(b)
    <3>1. RootView(a).operands <= s.base
      BY <1>1, <1>10 DEF s
    <3>. QED BY <1>7, <1>8, <1>13, <2>1, <3>1 DEF Views
  <2>2. ASSUME NEW i \in 1..n, u = enter_frame_view(segs[i]) PROVE u = View(b) \/ (u \in Views(a) /\ u.operands <= View(a).base)
    <3>1. CASE i = n
      BY <1>4, <1>8, <2>2, <3>1
    <3>2. CASE i # n
      <4>1. i \in 1..(n - 1) /\ u = enter_frame_view(a.segs[i])
        BY <1>1, <1>11, <2>2, <3>2
      <4>2. u.operands <= s.base
        BY <1>1, <1>10, <4>1 DEF s
      <4>3. u \in Views(a)
        BY <1>1, <2>2, <4>1 DEF Views
      <4>. QED BY <1>8, <1>13, <4>2, <4>3
    <3>. QED BY <3>1, <3>2
  <2>. QED BY <1>5, <1>6, <2>1, <2>2 DEF Views
<1>. QED BY <1>6, <1>8, <1>9, <1>12, <1>14

\* A frame whose first local was written is still as it was called.
LEMMA RewroteHolds ==
    ASSUME NEW v, ViewShape(v), NEW u, Rewrote(u, v), NEW m \in Mem, NEW m2 \in Mem, ViewHolds(m, v),
           Code[v.body].nlocals > 0, v.operands <= VLimit,
           \A k \in 0..VLimit : k # v.locals => m2[k] = m[k]
    PROVE  ViewHolds(m2, u)
<1>1. \A k \in Nat : k < v.operands /\ k # v.locals => m2[k] = m[k]
  BY StackAssumption DEF ViewShape
<1>2. v.rval \in Nat /\ v.rval < v.operands /\ v.rval # v.locals
  BY DEF ViewShape
<1>3. ASSUME NEW k \in 1..v.seen PROVE m2[v.base + 1 + k] = m[v.base + 1 + k]
  BY <1>1 DEF ViewShape
<1>. QED BY <1>1, <1>2, <1>3 DEF ViewHolds, Rewrote

\* A local is assigned.
LEMMA WriteLocalStep ==
    ASSUME Inv, InRun, Code[View(Top).body].nlocals > 0,
           mem' = [mem EXCEPT ![View(Top).locals] = Ptr(6)],
           acts' = With(IF Top.segs = <<>> THEN [Top EXCEPT !.wrote = TRUE]
                        ELSE [Top EXCEPT !.segs[Len(Top.segs)].wrote = TRUE]),
           UNCHANGED vtop
    PROVE  Inv'
<1>. DEFINE b == IF Top.segs = <<>> THEN [Top EXCEPT !.wrote = TRUE] ELSE [Top EXCEPT !.segs[Len(Top.segs)].wrote = TRUE]
            v == View(Top)
<1>0. acts # <<>> /\ Top.mode = "run"
  BY DEF InRun
<1>1. /\ Stacked(mem, acts) /\ mem \in Mem /\ Top \in ActType /\ Top = acts[Len(acts)] /\ OpsLive(Top) /\ SegsNest(Top)
      /\ ActShape(Top) /\ ActMem(mem, Top) /\ LiveBelow(mem, v.operands) /\ v.operands <= VLimit /\ vtop \in Nat
  BY <1>0, TopFacts
<1>2. /\ b \in ActType /\ b.mode = Top.mode /\ b.ops = Top.ops /\ b.sp = Top.sp /\ b.kind = Top.kind /\ b.saved = Top.saved
      /\ b.argc = Top.argc /\ b.passed = Top.passed /\ b.body = Top.body /\ SegsNest(b) /\ Rewrote(View(b), v)
      /\ \A u \in Views(b) : u = View(b) \/ (u \in Views(Top) /\ u.operands <= v.base)
  <2>1. CASE Top.segs = <<>>
    BY <1>1, <2>1, RewroteRoot
  <2>2. CASE Top.segs # <<>>
    BY <1>1, <2>2, RewroteSeg
  <2>. QED BY <2>1, <2>2
<1>3. acts' = Swapped(acts, b) /\ vtop' = vtop
  BY WithIs
<1>. HIDE DEF b
<1>4. /\ ViewShape(v) /\ v.operands \in Nat /\ Top.sp <= v.base /\ v \in Views(Top)
      /\ \A u \in Views(Top) : ViewShape(u)
  BY <1>1, ViewFacts
<1>7. Code[v.body].nlocals > 0 /\ mem' = [mem EXCEPT ![v.locals] = Ptr(6)]
  OBVIOUS
<1>. HIDE DEF v
<1>5. v.locals \in Nat /\ v.base \in Nat /\ v.base < v.locals /\ Top.sp \in Nat /\ v.locals < v.operands
  <2>. DEFINE x == v.base
              y == v.seen
              l == v.locals
              r == v.rval
              c == Code[v.body].nlocals
  <2>1. /\ x \in Nat /\ y \in Nat /\ c \in Nat /\ r \in Nat /\ l = x + 2 + y /\ r >= l + c /\ v.operands = r + 1
    BY <1>4 DEF ViewShape
  <2>. HIDE DEF x, y, l, r, c
  <2>2. x \in Nat /\ l \in Nat /\ x < l /\ l < v.operands
    BY <2>1
  <2>3. Top.sp \in Nat
    BY <1>1, Fields
  <2>. QED BY <2>2, <2>3 DEF x, l
<1>6. mem' \in Mem /\ \A k \in 0..VLimit : mem'[k] = IF k = v.locals THEN Ptr(6) ELSE mem[k]
  <2>1. Ptr(6) \in Value
    BY Values
  <2>. DEFINE l == v.locals
              x == Ptr(6)
  <2>2. mem' = [mem EXCEPT ![l] = x] /\ l \in Nat /\ x \in Value /\ mem \in Mem
    BY <1>1, <1>5, <1>7, <2>1
  <2>. HIDE DEF l, x
  <2>3. mem' \in Mem /\ \A k \in 0..VLimit : mem'[k] = IF k = l THEN x ELSE mem[k]
    BY <2>2 DEF Mem
  <2>. QED BY <2>3 DEF l, x
<1>8. Agree(mem, mem', v.base)
  BY <1>5, <1>6, StackAssumption DEF Agree
<1>9. LiveBelow(mem', v.operands)
  <2>1. Ptr(6) \in LiveValue
    BY Values
  <2>. QED BY <1>1, <1>6, <2>1 DEF LiveBelow
<1>10. View(b).operands = v.operands
  BY <1>2 DEF Rewrote
<1>11. End(b) = v.operands
  BY <1>0, <1>2, <1>10, EndCases
<1>12. b.argc = Len(b.passed) /\ (b.kind = "resume" => b.passed = <<>> /\ Code[b.body].gen)
  BY <1>1, <1>2 DEF ActShape
<1>13. ActShape(b)
  BY <1>0, <1>1, <1>2, <1>11, <1>12 DEF ActShape
<1>14. ASSUME ~RawSurplus, NEW u \in Views(b) PROVE ViewHolds(mem', u)
  <2>0. \A x \in Views(Top) : ViewHolds(mem, x)
    BY <1>0, <1>1, <1>14 DEF ActMem
  <2>1. CASE u = View(b)
    <3>1. ViewHolds(mem, v)
      BY <1>4, <2>0
    <3>2. \A k \in 0..VLimit : k # v.locals => mem'[k] = mem[k]
      BY <1>6
    <3>3. ViewHolds(mem', View(b))
      BY <1>1, <1>2, <1>4, <1>6, <1>7, <3>1, <3>2, RewroteHolds
    <3>. QED BY <2>1, <3>3
  <2>2. CASE u \in Views(Top) /\ u.operands <= v.base
    <3>1. ViewShape(u) /\ u.operands \in Nat /\ ViewHolds(mem, u)
      BY <1>4, <2>0, <2>2 DEF ViewShape
    <3>2. Agree(mem, mem', u.operands) /\ u.operands <= VLimit
      BY <1>1, <1>4, <1>5, <1>8, <2>2, <3>1, StackAssumption DEF Agree
    <3>. QED BY <1>1, <1>6, <3>1, <3>2, HoldsBelow
  <2>. QED BY <1>2, <2>1, <2>2
<1>15. ActMem(mem', b)
  BY <1>0, <1>2, <1>14 DEF ActMem
<1>16. Agree(mem, mem', b.sp)
  BY <1>2, <1>4, <1>5, <1>8, AgreeLess
<1>17. OpsLive(b) /\ b.mode = "run"
  BY <1>0, <1>1, <1>2 DEF OpsLive
<1>18. LiveBelow(mem', End(b))
  BY <1>9, <1>11
<1>19. Stacked(mem', Swapped(acts, b)) /\ Settled(mem', vtop, Swapped(acts, b))
  BY <1>0, <1>1, <1>2, <1>6, <1>13, <1>15, <1>16, <1>17, <1>18, SwapInv
<1>. QED BY <1>3, <1>19 DEF Inv
-----------------------------------------------------------------------------
(* Coming back.                                                             *)

\* A live value in one slot.
Put(m, x, v) == [m EXCEPT ![x] = v]
\* One live value stored.
LEMMA PutLive ==
    ASSUME NEW m \in Mem, NEW x \in Nat, NEW v \in LiveValue
    PROVE  /\ Put(m, x, v) \in Mem /\ \A k \in 0..VLimit : Put(m, x, v)[k] = IF k = x THEN v ELSE m[k]
           /\ \A n \in Nat : n <= x => Agree(m, Put(m, x, v), n)
           /\ \A n \in Nat : LiveBelow(m, n) => LiveBelow(Put(m, x, v), n)
<1>. DEFINE m2 == Put(m, x, v)
<1>1. v \in Value
  BY Values
<1>2. m2 \in Mem /\ \A k \in 0..VLimit : m2[k] = IF k = x THEN v ELSE m[k]
  BY <1>1 DEF Mem, Put
<1>. HIDE DEF m2
<1>3. \A n \in Nat : n <= x => Agree(m, m2, n)
  BY <1>2, StackAssumption DEF Agree
<1>4. \A n \in Nat : LiveBelow(m, n) => LiveBelow(m2, n)
  BY <1>2 DEF LiveBelow
<1>. QED BY <1>2, <1>3, <1>4 DEF m2

\* A call's caller goes on with its result.
LEMMA ContinueStep ==
    ASSUME NEW m0, NEW st, Stacked(m0, st), st # <<>>, NEW a, a = st[Len(st)], a.mode \in {"helper", "call"},
           LiveBelow(m0, View(a).operands), NEW m \in Mem, Agree(m0, m, View(a).operands),
           LiveBelow(m, TopOff(a) - a.need), TopOff(a) < VLimit, m[TopOff(a)] \in LiveValue, NEW vt \in Nat
    PROVE  Stacked(m, Swapped(st, Continue(m, a))) /\ Settled(m, vt, Swapped(st, Continue(m, a)))
<1>. DEFINE o == View(a).operands
            n == Len(a.ops)
            r == ReadSlots(m, o, n)
            h == SubSeq(r, 1, n - a.need)
            ops == Append(h, m[TopOff(a)])
            b == Continue(m, a)
<1>1. a \in ActType /\ ActShape(a) /\ a.mode # "entry"
  BY DEF Stacked
<1>2. SegsNest(a) /\ a.need <= n
  BY <1>1 DEF ActShape
<1>3. o \in Nat /\ n \in Nat /\ a.need \in Nat /\ TopOff(a) = o + n
  BY <1>1, <1>2, ViewFacts, Fields
<1>. HIDE DEF o, n
<1>4. o + n <= VLimit + 1 /\ n - a.need \in Nat /\ n - a.need <= n
  BY <1>2, <1>3, StackAssumption
<1>5. r \in Seq(Value) /\ Len(r) = n /\ \A i \in 1..n : o + i - 1 \in 0..VLimit /\ r[i] = m[o + i - 1]
  BY <1>3, <1>4, ReadFacts
<1>. DEFINE q == n - a.need
<1>6. b = [a EXCEPT !.mode = "run", !.ops = ops]
  BY <1>5 DEF Continue, Popped, reload, o, n
<1>. HIDE DEF r, b
<1>7. h \in Seq(Value) /\ Len(h) = q /\ q \in Nat /\ \A i \in 1..q : h[i] = r[i]
  BY <1>4, <1>5, HeadSeq
<1>. HIDE DEF h
<1>8. \A i \in 1..q : h[i] \in LiveValue
  <2>. TAKE i \in 1..q
  <2>1. i \in 1..n /\ o + i - 1 < TopOff(a) - a.need
    BY <1>2, <1>3, <1>4
  <2>2. m[o + i - 1] \in LiveValue
    BY <1>5, <2>1 DEF LiveBelow
  <2>. QED BY <1>5, <1>7, <2>1, <2>2
<1>. HIDE DEF q
<1>9. h \in Seq(LiveValue)
  <2>1. DOMAIN h = 1..q
    BY <1>7
  <2>. QED BY <1>7, <1>8, <2>1, LiveSeq
<1>10. ops \in Seq(LiveValue)
  BY <1>9, PushSeq
<1>11. ops \in Seq(Value) /\ \A k \in DOMAIN ops : ops[k] \in LiveValue
  BY <1>10, LiveSeqValue
<1>. HIDE DEF ops
<1>12. b \in ActType /\ SameFrame(a, b) /\ b.mode = "run" /\ b.ops = ops
  BY <1>1, <1>6, <1>11 DEF ActType, SameFrame
<1>13. OpsLive(b)
  BY <1>11, <1>12 DEF OpsLive
<1>14. Stacked(m, Swapped(st, b)) /\ Settled(m, vt, Swapped(st, b))
  BY <1>1, <1>12, <1>13, RunStep
<1>. QED BY <1>14 DEF b

\* A helper returns a value to the operand stack.
LEMMA ReturnOpStep ==
    ASSUME Inv, WithinLimit, InHelper, Top.want = "op", NEW v \in LiveValue,
           mem' = [mem EXCEPT ![vtop] = v], acts' = With(Continue(mem', Top)), UNCHANGED vtop
    PROVE  Inv'
<1>. DEFINE o == View(Top).operands
<1>0. acts # <<>> /\ Top.mode = "helper"
  BY DEF InHelper
<1>1. /\ Stacked(mem, acts) /\ mem \in Mem /\ Top \in ActType /\ Top = acts[Len(acts)] /\ ActShape(Top) /\ SegsNest(Top)
      /\ LiveBelow(mem, o) /\ LiveBelow(mem, End(Top)) /\ o \in Nat /\ TopOff(Top) \in Nat /\ vtop = Top.top
      /\ vtop \in Nat /\ TopOff(Top) = o + Len(Top.ops) /\ acts \in Seq(ActType)
  BY <1>0, TopFacts
<1>2. vtop = TopOff(Top) /\ End(Top) = vtop
  BY <1>0, <1>1, EndCases DEF ActShape
<1>3. TopOff(Top) < VLimit
  <2>1. Len(acts) \in DOMAIN acts
    BY <1>0, <1>1
  <2>. QED BY <1>0, <1>1, <2>1 DEF WithinLimit, Started
<1>4. /\ mem' \in Mem /\ (\A k \in 0..VLimit : mem'[k] = IF k = vtop THEN v ELSE mem[k])
      /\ (\A n \in Nat : n <= vtop => Agree(mem, mem', n))
      /\ (\A n \in Nat : LiveBelow(mem, n) => LiveBelow(mem', n))
  <2>1. mem' = Put(mem, vtop, v)
    BY DEF Put
  <2>2. mem \in Mem /\ vtop \in Nat
    BY <1>1
  <2>3. /\ Put(mem, vtop, v) \in Mem /\ (\A k \in 0..VLimit : Put(mem, vtop, v)[k] = IF k = vtop THEN v ELSE mem[k])
        /\ (\A n \in Nat : n <= vtop => Agree(mem, Put(mem, vtop, v), n))
        /\ (\A n \in Nat : LiveBelow(mem, n) => LiveBelow(Put(mem, vtop, v), n))
    BY <2>2, PutLive
  <2>. QED BY <2>1, <2>3
<1>5. Agree(mem, mem', o) /\ mem'[TopOff(Top)] \in LiveValue
  <2>1. o <= vtop
    <3>1. Len(Top.ops) \in Nat
      BY <1>1, Fields
    <3>. QED BY <1>1, <1>2, <3>1
  <2>2. vtop \in 0..VLimit
    BY <1>1, <1>2, <1>3, StackAssumption
  <2>. QED BY <1>1, <1>2, <1>4, <2>1, <2>2
<1>6. LiveBelow(mem', TopOff(Top) - Top.need)
  <2>1. Top.need \in Nat /\ Top.need <= Len(Top.ops) /\ Len(Top.ops) \in Nat
    BY <1>0, <1>1, Fields DEF ActShape
  <2>2. TopOff(Top) - Top.need \in Nat /\ TopOff(Top) - Top.need <= TopOff(Top)
    BY <1>1, <2>1
  <2>3. LiveBelow(mem', TopOff(Top))
    BY <1>1, <1>2, <1>4
  <2>. QED BY <1>1, <2>2, <2>3, LiveLess
<1>. HIDE DEF o
<1>7. acts' = Swapped(acts, Continue(mem', Top)) /\ vtop' = vtop
  BY WithIs
<1>8. Stacked(mem', Swapped(acts, Continue(mem', Top))) /\ Settled(mem', vtop, Swapped(acts, Continue(mem', Top)))
  BY <1>0, <1>1, <1>3, <1>4, <1>5, <1>6, ContinueStep DEF o
<1>. QED BY <1>7, <1>8 DEF Inv

\* The out slot and one slot more.
LEMMA PutTwice ==
    ASSUME NEW m \in Mem, NEW x \in Nat, NEW y \in Nat, NEW v \in LiveValue
    PROVE  LET m2 == Put(Put(m, x, v), y, v)
           IN /\ m2 \in Mem /\ \A k \in 0..VLimit : k # x /\ k # y => m2[k] = m[k]
              /\ \A n \in Nat : n <= x /\ n <= y => Agree(m, m2, n)
              /\ \A n \in Nat : LiveBelow(m, n) => LiveBelow(m2, n)
<1>. DEFINE m1 == Put(m, x, v)
            m2 == Put(m1, y, v)
<1>1. /\ m1 \in Mem /\ (\A k \in 0..VLimit : m1[k] = IF k = x THEN v ELSE m[k])
      /\ (\A n \in Nat : LiveBelow(m, n) => LiveBelow(m1, n))
  BY PutLive
<1>. HIDE DEF m1
<1>2. /\ m2 \in Mem /\ (\A k \in 0..VLimit : m2[k] = IF k = y THEN v ELSE m1[k])
      /\ (\A n \in Nat : LiveBelow(m1, n) => LiveBelow(m2, n))
  BY <1>1, PutLive
<1>. HIDE DEF m2
<1>3. \A k \in 0..VLimit : k # x /\ k # y => m2[k] = m[k]
  BY <1>1, <1>2
<1>4. \A n \in Nat : n <= x /\ n <= y => Agree(m, m2, n)
  BY <1>3, StackAssumption DEF Agree
<1>. QED BY <1>1, <1>2, <1>3, <1>4 DEF m1, m2

\* The allocated `this` goes into the frame and the callee is entered in place.
LEMMA ReturnSpliceStep ==
    ASSUME Inv, InHelper, Top.want = "splice", NEW v \in LiveValue,
           SpliceInto(Put(Put(mem, vtop, v), TopOff(Top) + 1, v), Top, Top.target, Top.actuals), WithinLimit'
    PROVE  Inv'
<1>. DEFINE o == View(Top).operands
            base == TopOff(Top)
            args == Top.actuals
            t == Top.target
            m == Put(Put(mem, vtop, v), base + 1, v)
<1>0. acts # <<>> /\ Top.mode = "helper"
  BY DEF InHelper
<1>1. /\ mem \in Mem /\ Top \in ActType /\ ActShape(Top) /\ ActMem(mem, Top)
      /\ LiveBelow(mem, End(Top)) /\ o \in Nat /\ base \in Nat /\ vtop = Top.top
      /\ vtop \in Nat /\ base = o + Len(Top.ops)
  BY <1>0, TopFacts
<1>2. vtop = base + Len(args) + 3 /\ (RawSurplus \/ NoSurplus(Top)) /\ End(Top) = vtop
  BY <1>0, <1>1, EndCases DEF ActShape
<1>3. t \in DOMAIN Code /\ args \in Seq(LiveValue) /\ Len(args) \in Nat /\ Len(Top.ops) \in Nat
  BY <1>1, Fields
<1>4. RawSurplus \/ NoRawPast(t, args)
  BY <1>2 DEF NoSurplus, NoRawPast
<1>5. Staged(mem, Top)
  BY <1>0, <1>1 DEF ActMem
<1>6. \A k \in 1..Len(args) : mem[base + 1 + k] = Seamed(args[k])
  BY <1>5 DEF Staged, StagedAt, Seamed
<1>7. SpliceInto(m, Top, t, args)
  OBVIOUS
<1>. HIDE DEF base, args, t, o
<1>8. /\ m \in Mem /\ (\A k \in 0..VLimit : k # vtop /\ k # base + 1 => m[k] = mem[k])
      /\ (\A n \in Nat : n <= vtop /\ n <= base + 1 => Agree(mem, m, n))
      /\ (\A n \in Nat : LiveBelow(mem, n) => LiveBelow(m, n))
  <2>. DEFINE y == base + 1
              x == vtop
  <2>1. y \in Nat /\ x \in Nat /\ mem \in Mem
    BY <1>1
  <2>. HIDE DEF x, y
  <2>2. LET m2 == Put(Put(mem, x, v), y, v)
        IN /\ m2 \in Mem /\ \A k \in 0..VLimit : k # x /\ k # y => m2[k] = mem[k]
           /\ \A n \in Nat : n <= x /\ n <= y => Agree(mem, m2, n)
           /\ \A n \in Nat : LiveBelow(mem, n) => LiveBelow(m2, n)
    BY <2>1, PutTwice
  <2>. QED BY <2>2 DEF x, y
<1>. HIDE DEF m
<1>9. Agree(mem, m, o)
  <2>1. o <= vtop /\ o <= base + 1
    BY <1>1, <1>2, <1>3
  <2>. QED BY <1>1, <1>8, <2>1
<1>10. LiveBelow(m, base + 2 + Len(args))
  <2>1. LiveBelow(m, vtop)
    BY <1>1, <1>2, <1>8
  <2>2. base + 2 + Len(args) \in Nat /\ base + 2 + Len(args) <= vtop
    BY <1>1, <1>2, <1>3
  <2>. QED BY <1>1, <2>1, <2>2, LiveLess
<1>11. SeamHolds(m, base, args)
  <2>. SUFFICES ASSUME NEW k \in 1..Len(args), base + 1 + k <= VLimit PROVE m[base + 1 + k] = Seamed(args[k])
    BY DEF SeamHolds
  <2>1. base + 1 + k \in 0..VLimit /\ base + 1 + k # vtop /\ base + 1 + k # base + 1
    BY <1>1, <1>2, <1>3, StackAssumption
  <2>2. m[base + 1 + k] = mem[base + 1 + k]
    BY <1>8, <2>1
  <2>. QED BY <1>6, <2>2
<1>12. Top.mode # "entry"
  BY <1>0
<1>. QED BY <1>0, <1>3, <1>4, <1>7, <1>8, <1>9, <1>10, <1>11, <1>12, SpliceIntoStep DEF base, o

\* The same for a constructor that is called.
LEMMA ReturnNewStep ==
    ASSUME Inv, InHelper, Top.want = "new", NEW v \in LiveValue,
           EnterDirect(Put(Put(mem, vtop, v), TopOff(Top) - Top.need + 1, v), Top, Top.target, Top.actuals)
    PROVE  Inv'
<1>. DEFINE o == View(Top).operands
            args == Top.actuals
            t == Top.target
            sp == TopOff(Top) - Top.need
            m == Put(Put(mem, vtop, v), sp + 1, v)
            b == [Top EXCEPT !.mode = "call"]
            n == Len(Top.ops)
<1>0. acts # <<>> /\ Top.mode = "helper"
  BY DEF InHelper
<1>1. /\ Stacked(mem, acts) /\ Top = acts[Len(acts)] /\ mem \in Mem /\ Top \in ActType /\ ActShape(Top) /\ ActMem(mem, Top)
      /\ LiveBelow(mem, End(Top)) /\ o \in Nat /\ vtop = Top.top
      /\ vtop \in Nat /\ TopOff(Top) = o + n /\ TopOff(Top) \in Nat
  BY <1>0, TopFacts
<1>2. vtop = TopOff(Top) /\ End(Top) = vtop /\ Top.need = Len(args) + 3 /\ Top.need <= n /\ End(Top) <= VLimit
  BY <1>0, <1>1, EndCases DEF ActShape
<1>3. t \in DOMAIN Code /\ args \in Seq(LiveValue) /\ Len(args) \in Nat /\ n \in Nat /\ Top.need \in Nat
  BY <1>1, Fields
<1>5. Staged(mem, Top)
  BY <1>0, <1>1 DEF ActMem
<1>6. \A k \in 1..Len(args) : mem[sp + 1 + k] = args[k]
  BY <1>5 DEF Staged, StagedAt
<1>7. /\ mem' = m /\ vtop' = vtop
      /\ acts' = Append(Swapped(acts, b), Act(t, sp, Len(args), "direct", 0, args))
  BY WithIs DEF EnterDirect
<1>8. b \in ActType /\ SameFrame(Top, b) /\ b.mode = "call" /\ b.ops = Top.ops /\ b.need = Top.need
  BY <1>1 DEF ActType, SameFrame
<1>9. sp = TopOff(b) - b.need /\ b.need <= Len(b.ops)
  <2>1. TopOff(b) = TopOff(Top)
    BY <1>1, <1>8, SameViews
  <2>. QED BY <1>2, <1>8, <2>1
<1>. HIDE DEF b, args, t, o, n
<1>10. sp = vtop - (Len(args) + 3)
  BY <1>2
<1>11. sp \in Nat /\ o <= sp
  BY <1>1, <1>2, <1>3
<1>. HIDE DEF sp
<1>12. /\ m \in Mem /\ (\A k \in 0..VLimit : k # vtop /\ k # sp + 1 => m[k] = mem[k])
       /\ (\A i \in Nat : i <= vtop /\ i <= sp + 1 => Agree(mem, m, i))
       /\ (\A i \in Nat : LiveBelow(mem, i) => LiveBelow(m, i))
  <2>. DEFINE y == sp + 1
              x == vtop
  <2>1. y \in Nat /\ x \in Nat /\ mem \in Mem
    BY <1>1, <1>11
  <2>. HIDE DEF x, y
  <2>2. LET m2 == Put(Put(mem, x, v), y, v)
        IN /\ m2 \in Mem /\ \A k \in 0..VLimit : k # x /\ k # y => m2[k] = mem[k]
           /\ \A i \in Nat : i <= x /\ i <= y => Agree(mem, m2, i)
           /\ \A i \in Nat : LiveBelow(mem, i) => LiveBelow(m2, i)
    BY <2>1, PutTwice
  <2>. QED BY <2>2 DEF x, y
<1>. HIDE DEF m
<1>13. Agree(mem, m, o)
  <2>1. o <= vtop /\ o <= sp + 1
    BY <1>1, <1>3, <1>10, <1>11, SMTT(40)
  <2>. QED BY <1>1, <1>12, <2>1
<1>14. sp + 2 + Len(args) \in Nat /\ sp + 2 + Len(args) <= vtop
  BY <1>1, <1>3, <1>10, <1>11, SMTT(40)
<1>15. sp + 2 + Len(args) <= VLimit /\ LiveBelow(m, sp + 2 + Len(args))
  <2>1. LiveBelow(m, vtop)
    BY <1>1, <1>2, <1>12
  <2>2. sp + 2 + Len(args) <= VLimit
    BY <1>1, <1>2, <1>14, StackAssumption
  <2>. QED BY <1>1, <1>14, <2>1, <2>2, LiveLess
<1>16. \A k \in 1..Len(args) : m[sp + 1 + k] = args[k]
  <2>. TAKE k \in 1..Len(args)
  <2>1. sp + 1 + k \in 0..VLimit /\ sp + 1 + k # vtop /\ sp + 1 + k # sp + 1
    BY <1>1, <1>2, <1>3, <1>10, <1>11, StackAssumption
  <2>2. m[sp + 1 + k] = mem[sp + 1 + k]
    BY <1>12, <2>1
  <2>. QED BY <1>6, <2>2
<1>17. Top.mode # "entry"
  BY <1>0
<1>18. LET w == Append(Swapped(acts, b), Act(t, sp, Len(args), "direct", 0, args))
       IN Stacked(m, w) /\ Settled(m, vtop, w)
  BY <1>0, <1>1, <1>3, <1>8, <1>9, <1>12, <1>13, <1>15, <1>16, <1>17, CallStep DEF o
<1>. QED BY <1>7, <1>18 DEF Inv
-----------------------------------------------------------------------------
(* Prologues.                                                               *)

\* An activation without splices or operands has its own frame only.
LEMMA BareViews ==
    ASSUME NEW a, a.segs = <<>>, a.ops = <<>>
    PROVE  View(a) = RootView(a) /\ Views(a) = {RootView(a)} /\ SegsNest(a) /\ Len(a.ops) = 0
<1>1. View(a) = RootView(a) /\ Views(a) = {RootView(a)}
  BY DEF View, Views
<1>2. SegsNest(a)
  BY DEF SegsNest
<1>. QED BY <1>1, <1>2

\* A laid-out frame with nothing left to build: the body runs.
LEMMA BareRunStep ==
    ASSUME Inv, acts # <<>>, Top.segs = <<>>, Top.ops = <<>>, Agree(mem, mem', Top.sp), mem' \in Mem,
           ~RawSurplus => ViewHolds(mem', RootView(Top)), LiveBelow(mem', RootView(Top).operands),
           acts' = With([Top EXCEPT !.mode = "run"]), UNCHANGED vtop, WithinLimit'
    PROVE  Inv'
<1>. DEFINE o == RootView(Top).operands
            m == mem'
<1>1. /\ Stacked(mem, acts) /\ Top = acts[Len(acts)] /\ mem \in Mem /\ Top \in ActType /\ ActShape(Top)
      /\ vtop \in Nat /\ acts \in Seq(ActType)
  BY TopFacts
<1>2. View(Top) = RootView(Top) /\ Views(Top) = {RootView(Top)} /\ SegsNest(Top) /\ Len(Top.ops) = 0
  BY BareViews
<1>3. o \in Nat /\ TopOff(Top) = o
  <2>1. o \in Nat
    BY <1>1, RootShape
  <2>. QED BY <1>2, <2>1 DEF TopOff
<1>4. Top.argc = Len(Top.passed) /\ (Top.kind = "resume" => Top.passed = <<>> /\ Code[Top.body].gen)
  BY <1>1 DEF ActShape
<1>. DEFINE b == [Top EXCEPT !.mode = "run"]
<1>11. acts' = Swapped(acts, b) /\ vtop' = vtop
  BY WithIs
<1>12. b \in ActType /\ SameFrame(Top, b) /\ b.mode = "run" /\ b.ops = <<>> /\ b.segs = <<>> /\ b.sp = Top.sp
      /\ b.argc = Top.argc /\ b.passed = Top.passed /\ b.kind = Top.kind /\ b.body = Top.body /\ b.saved = Top.saved
  BY <1>1 DEF ActType, SameFrame
<1>. HIDE DEF b
<1>13. View(b) = RootView(Top) /\ Views(b) = {RootView(Top)} /\ SegsNest(b) /\ TopOff(b) = o
  <2>1. View(b) = View(Top) /\ Views(b) = Views(Top) /\ (SegsNest(b) <=> SegsNest(Top)) /\ TopOff(b) = View(Top).operands + Len(b.ops)
    BY <1>12, SameViews
  <2>2. Len(b.ops) = 0
    BY <1>12
  <2>. QED BY <1>2, <1>3, <2>1, <2>2
<1>14. TopOff(b) < VLimit
  <2>1. /\ Swapped(acts, b) \in Seq(ActType) /\ Len(Swapped(acts, b)) = Len(acts) /\ Len(acts) \in Nat /\ Len(acts) >= 1
        /\ \A i \in 1..Len(acts) : Swapped(acts, b)[i] = IF i = Len(acts) THEN b ELSE acts[i]
    BY <1>1, <1>12, SwapSeq
  <2>2. Len(acts) \in 1..Len(acts)
    BY <2>1
  <2>3. Len(acts) \in DOMAIN acts' /\ acts'[Len(acts)] = b /\ b.mode # "entry"
    BY <1>11, <1>12, <2>1, <2>2
  <2>. QED BY <2>3, ZenonT(60) DEF WithinLimit, Started, TopOff, View, RootView, enter_frame_view, vp
<1>15. End(b) = o /\ o <= VLimit
  BY <1>3, <1>12, <1>13, <1>14, EndCases, StackAssumption
<1>16. ActShape(b)
  BY <1>4, <1>12, <1>13, <1>15 DEF ActShape
<1>17. ActMem(m, b)
  BY <1>12, <1>13 DEF ActMem
<1>18. OpsLive(b) /\ LiveBelow(m, End(b)) /\ Agree(mem, m, b.sp)
  BY <1>12, <1>15 DEF OpsLive
<1>19. Stacked(m, Swapped(acts, b)) /\ Settled(m, vtop, Swapped(acts, b))
  BY <1>1, <1>12, <1>16, <1>17, <1>18, SwapInv
<1>. QED BY <1>11, <1>19 DEF Inv

\* A laid-out frame: the body runs, or what is left to build is built.
LEMMA BuildStep ==
    ASSUME Inv, acts # <<>>, Top.segs = <<>>, Top.ops = <<>>, Top.need = 0, NEW m \in Mem, Agree(mem, m, Top.sp),
           ~RawSurplus => ViewHolds(m, RootView(Top)), LiveBelow(m, RootView(Top).operands),
           NEW from, Build(m, Top, from), WithinLimit'
    PROVE  Inv'
<1>. DEFINE c == Code[Top.body]
            want == IF from = "env" /\ c.env = "setup" THEN "env" ELSE IF c.args = "mapped" THEN "args" ELSE "none"
            o == RootView(Top).operands
<1>1. /\ Stacked(mem, acts) /\ Top = acts[Len(acts)] /\ mem \in Mem /\ Top \in ActType /\ ActShape(Top)
      /\ vtop \in Nat /\ acts \in Seq(ActType)
  BY TopFacts
<1>2. View(Top) = RootView(Top) /\ Views(Top) = {RootView(Top)} /\ SegsNest(Top) /\ Len(Top.ops) = 0
  BY BareViews
<1>3. o \in Nat /\ TopOff(Top) = o
  <2>1. o \in Nat
    BY <1>1, RootShape
  <2>. QED BY <1>2, <2>1 DEF TopOff
<1>4. Top.argc = Len(Top.passed) /\ (Top.kind = "resume" => Top.passed = <<>> /\ Code[Top.body].gen)
  BY <1>1 DEF ActShape
<1>5. mem' = m
  BY DEF Build
<1>6. CASE want = "none"
  <2>1. acts' = With([Top EXCEPT !.mode = "run"]) /\ vtop' = vtop
    BY <1>6 DEF Build
  <2>2. mem' \in Mem /\ Agree(mem, mem', Top.sp) /\ LiveBelow(mem', o) /\ (~RawSurplus => ViewHolds(mem', RootView(Top)))
    BY <1>5
  <2>. QED BY <2>1, <2>2, BareRunStep
<1>7. CASE want # "none"
  <2>. DEFINE b == SetNightTop(Top, TopOff(Top), want)
  <2>1. acts' = Swapped(acts, b) /\ vtop' = TopOff(Top)
    BY <1>7, WithIs DEF Build
  <2>2. want \in {"env", "args"} /\ (want = "env" => Code[Top.body].env # "none") /\ (want = "args" => NeedsArgsObj(Top.body))
    BY <1>7 DEF NeedsArgsObj
  <2>. HIDE DEF want
  <2>3. TopOff(Top) \in Nat /\ Top \in ActType
    BY <1>1, <1>3
  <2>4. b \in ActType /\ SameFrame(Top, b) /\ b.mode = "helper" /\ b.ops = <<>> /\ b.segs = <<>> /\ b.sp = Top.sp
        /\ b.argc = Top.argc /\ b.passed = Top.passed /\ b.kind = Top.kind /\ b.body = Top.body /\ b.saved = Top.saved
        /\ b.want = want /\ b.top = TopOff(Top) /\ b.need = 0
    BY <2>2, <2>3 DEF ActType, SameFrame, SetNightTop
  <2>. HIDE DEF b
  <2>5. View(b) = RootView(Top) /\ Views(b) = {RootView(Top)} /\ SegsNest(b) /\ TopOff(b) = o /\ Len(b.ops) = 0
    <3>1. View(b) = View(Top) /\ Views(b) = Views(Top) /\ (SegsNest(b) <=> SegsNest(Top)) /\ TopOff(b) = View(Top).operands + Len(b.ops)
      BY <2>4, SameViews
    <3>2. Len(b.ops) = 0
      BY <2>4
    <3>. QED BY <1>2, <1>3, <3>1, <3>2
  <2>6. End(b) = o /\ o <= VLimit /\ b.top = o
    BY <1>3, <2>1, <2>4, EndCases DEF WithinLimit
  <2>7. ActShape(b)
    <3>1. b.need <= Len(b.ops)
      BY <2>4, <2>5
    <3>2. b.want \in {"env", "args"} /\ (b.want = "env" => Code[b.body].env # "none") /\ (b.want = "args" => NeedsArgsObj(b.body))
      BY <2>2, <2>4
    <3>. QED BY <1>4, <2>4, <2>5, <2>6, <3>1, <3>2 DEF ActShape
  <2>8. ActMem(m, b)
    BY <2>2, <2>4, <2>5 DEF ActMem
  <2>9. LiveBelow(m, End(b)) /\ Agree(mem, m, b.sp)
    BY <2>4, <2>6
  <2>10. Stacked(m, Swapped(acts, b)) /\ Settled(m, o, Swapped(acts, b))
    BY <1>1, <1>3, <2>4, <2>6, <2>7, <2>8, <2>9, SwapInv
  <2>. QED BY <1>3, <1>5, <2>1, <2>10 DEF Inv
<1>. QED BY <1>6, <1>7

\* A frame's fixed slots (environment, arguments object, new.target) may
\* change without touching what FrameAsCalled says of it.
LEMMA HoldsExcept ==
    ASSUME NEW v, ViewShape(v), NEW m \in Mem, NEW m2 \in Mem, v.operands <= VLimit, ViewHolds(m, v),
           NEW x \in Nat, v.locals + Code[v.body].nlocals <= x, x < v.rval,
           \A k \in 0..VLimit : k < v.operands /\ k # x => m2[k] = m[k]
    PROVE  ViewHolds(m2, v)
<1>. DEFINE n == Code[v.body].nlocals
<1>1. /\ n \in Nat /\ v.base \in Nat /\ v.seen \in Nat /\ v.locals = v.base + 2 + v.seen /\ v.rval \in Nat
      /\ v.operands = v.rval + 1 /\ VLimit \in Nat
  BY StackAssumption DEF ViewShape
<1>. HIDE DEF n
<1>2. m2[v.rval] = m[v.rval]
  BY <1>1
<1>3. \A k \in 1..v.seen : m2[v.base + 1 + k] = m[v.base + 1 + k]
  BY <1>1 DEF n
<1>4. \A k \in 1..n : m2[v.locals + k - 1] = m[v.locals + k - 1]
  BY <1>1 DEF n
<1>. QED BY <1>2, <1>3, <1>4 DEF ViewHolds, n

\* A fixed slot written after the out slot, while the frame has no operands.
LEMMA FixedSlot ==
    ASSUME Inv, InHelper, Top.want \in {"env", "args"}, NEW v \in LiveValue, NEW x \in Nat,
           RootView(Top).locals + Code[Top.body].nlocals <= x, x < RootView(Top).rval,
           NEW m, m = Put(Put(mem, vtop, v), x, v)
    PROVE  /\ m \in Mem /\ Agree(mem, m, Top.sp) /\ LiveBelow(m, RootView(Top).operands)
           /\ ~RawSurplus => ViewHolds(m, RootView(Top))
           /\ Top.segs = <<>> /\ Top.ops = <<>> /\ Top.need = 0
<1>. DEFINE u == RootView(Top)
            o == u.operands
<1>0. acts # <<>> /\ Top.mode = "helper"
  BY DEF InHelper
<1>1. /\ mem \in Mem /\ Top \in ActType /\ ActShape(Top) /\ ActMem(mem, Top) /\ vtop \in Nat /\ vtop = Top.top
      /\ LiveBelow(mem, View(Top).operands) /\ View(Top).operands <= VLimit
  BY <1>0, TopFacts
<1>2. Top.segs = <<>> /\ Top.ops = <<>> /\ Top.need = 0 /\ Top.top = TopOff(Top)
  BY <1>0, <1>1 DEF ActShape
<1>3. View(Top) = u /\ Views(Top) = {u} /\ Len(Top.ops) = 0
  BY <1>2, BareViews
<1>4. ViewShape(u) /\ u.body = Top.body /\ u.base = Top.sp /\ o \in Nat
  BY <1>1, RootShape
<1>5. vtop = o
  BY <1>1, <1>2, <1>3, <1>4 DEF TopOff
<1>. HIDE DEF u
<1>6. Top.sp <= x /\ Top.sp <= vtop /\ Top.sp \in Nat /\ o <= VLimit
  BY <1>1, <1>3, <1>4, <1>5, SMTT(40) DEF ViewShape, u
<1>7. /\ m \in Mem /\ Agree(mem, m, Top.sp) /\ LiveBelow(m, o) /\ \A k \in 0..VLimit : k # vtop /\ k # x => m[k] = mem[k]
  <2>1. /\ m \in Mem /\ \A k \in 0..VLimit : k # vtop /\ k # x => m[k] = mem[k]
        /\ \A n \in Nat : n <= vtop /\ n <= x => Agree(mem, m, n)
        /\ \A n \in Nat : LiveBelow(mem, n) => LiveBelow(m, n)
    <3>. HIDE DEF o
    <3>. QED BY <1>1, PutTwice
  <2>2. LiveBelow(mem, o)
    BY <1>1, <1>3
  <2>3. o \in Nat
    BY <1>4
  <2>. HIDE DEF o
  <2>. QED BY <1>6, <2>1, <2>2, <2>3
<1>8. ASSUME ~RawSurplus PROVE ViewHolds(m, u)
  <2>1. ViewHolds(mem, u)
    BY <1>0, <1>1, <1>3, <1>8 DEF ActMem
  <2>2. \A k \in 0..VLimit : k < u.operands /\ k # x => m[k] = mem[k]
    BY <1>5, <1>7, StackAssumption
  <2>3. u.locals + Code[u.body].nlocals <= x /\ x < u.rval
    BY <1>4 DEF u
  <2>. QED BY <1>1, <1>4, <1>6, <1>7, <2>1, <2>2, <2>3, HoldsExcept
<1>. QED BY <1>2, <1>7, <1>8 DEF u

\* The environment helper returns.
LEMMA ReturnEnvStep ==
    ASSUME Inv, InHelper, Top.want = "env", NEW v \in LiveValue,
           Build(Put(Put(mem, vtop, v), RootView(Top).env, v), Top, "args"), WithinLimit'
    PROVE  Inv'
<1>. DEFINE x == RootView(Top).env
            m == Put(Put(mem, vtop, v), x, v)
<1>0. acts # <<>> /\ Top.mode = "helper"
  BY DEF InHelper
<1>1. Top \in ActType /\ ActShape(Top)
  BY <1>0, TopFacts
<1>2. Code[Top.body].env # "none"
  BY <1>0, <1>1 DEF ActShape
<1>3. x \in Nat /\ RootView(Top).locals + Code[Top.body].nlocals <= x /\ x < RootView(Top).rval
  BY <1>1, <1>2, RootShape, SMTT(40) DEF ViewShape
<1>. HIDE DEF x
<1>4. /\ m \in Mem /\ Agree(mem, m, Top.sp) /\ LiveBelow(m, RootView(Top).operands)
      /\ ~RawSurplus => ViewHolds(m, RootView(Top))
      /\ Top.segs = <<>> /\ Top.ops = <<>> /\ Top.need = 0
  BY <1>3, FixedSlot
<1>5. Build(m, Top, "args")
  BY DEF x
<1>. HIDE DEF m
<1>. QED BY <1>0, <1>4, <1>5, BuildStep

\* The helper for a mapped arguments object returns.
LEMMA ReturnArgsStep ==
    ASSUME Inv, InHelper, Top.want = "args", NEW v \in LiveValue,
           mem' = Put(Put(mem, vtop, v), RootView(Top).args, v), UNCHANGED vtop,
           acts' = With([Top EXCEPT !.mode = "run"]), WithinLimit'
    PROVE  Inv'
<1>. DEFINE x == RootView(Top).args
            m == Put(Put(mem, vtop, v), x, v)
<1>0. acts # <<>> /\ Top.mode = "helper"
  BY DEF InHelper
<1>1. Top \in ActType /\ ActShape(Top)
  BY <1>0, TopFacts
<1>2. NeedsArgsObj(Top.body)
  BY <1>0, <1>1 DEF ActShape
<1>3. x \in Nat /\ RootView(Top).locals + Code[Top.body].nlocals <= x /\ x < RootView(Top).rval
  <2>1. RootView(Top).env \in Nat /\ RootView(Top).env <= x /\ x \in Nat /\ RootView(Top).nt = x + 1 /\ RootView(Top).nt <= RootView(Top).rval
        /\ RootView(Top).env = RootView(Top).locals + Code[Top.body].nlocals /\ ViewShape(RootView(Top))
    BY <1>1, <1>2, RootShape
  <2>. QED BY <2>1 DEF ViewShape
<1>. HIDE DEF x
<1>4. /\ m \in Mem /\ Agree(mem, m, Top.sp) /\ LiveBelow(m, RootView(Top).operands)
      /\ ~RawSurplus => ViewHolds(m, RootView(Top))
      /\ Top.segs = <<>> /\ Top.ops = <<>> /\ Top.need = 0
  BY <1>3, FixedSlot
<1>5. mem' = m
  BY DEF x
<1>. HIDE DEF m
<1>6. mem' \in Mem /\ Agree(mem, mem', Top.sp) /\ LiveBelow(mem', RootView(Top).operands)
      /\ (~RawSurplus => ViewHolds(mem', RootView(Top)))
  BY <1>4, <1>5
<1>. QED BY <1>0, <1>4, <1>6, BareRunStep

\* Every helper's return.
LEMMA HelperReturnStep ==
    ASSUME Inv, WithinLimit, InHelper, HelperReturn(Ptr(9)), WithinLimit'
    PROVE  Inv'
<1>. DEFINE v == Ptr(9)
<1>0. acts # <<>> /\ Top.mode = "helper"
  BY DEF InHelper
<1>1. v \in LiveValue
  BY Values
<1>2. Top \in ActType
  BY <1>0, TopFacts
<1>3. Top.want \in {"op", "env", "args", "splice", "new"}
  BY <1>2, Fields
<1>. HIDE DEF v
<1>4. HelperReturn(v)
  BY DEF v
<1>5. CASE Top.want = "op"
  <2>1. mem' = [mem EXCEPT ![vtop] = v] /\ acts' = With(Continue(mem', Top)) /\ vtop' = vtop
    BY <1>4, <1>5 DEF HelperReturn
  <2>. QED BY <1>1, <1>5, <2>1, ReturnOpStep
<1>6. CASE Top.want = "env"
  <2>1. Build(Put(Put(mem, vtop, v), RootView(Top).env, v), Top, "args")
    BY <1>4, <1>6 DEF HelperReturn, Put
  <2>. QED BY <1>1, <1>6, <2>1, ReturnEnvStep
<1>7. CASE Top.want = "args"
  <2>1. mem' = Put(Put(mem, vtop, v), RootView(Top).args, v) /\ vtop' = vtop /\ acts' = With([Top EXCEPT !.mode = "run"])
    BY <1>4, <1>7 DEF HelperReturn, Put
  <2>. QED BY <1>1, <1>7, <2>1, ReturnArgsStep
<1>8. CASE Top.want = "splice"
  <2>1. SpliceInto(Put(Put(mem, vtop, v), TopOff(Top) + 1, v), Top, Top.target, Top.actuals)
    BY <1>4, <1>8 DEF HelperReturn, Put
  <2>. QED BY <1>1, <1>8, <2>1, ReturnSpliceStep
<1>9. CASE Top.want = "new"
  <2>1. EnterDirect(Put(Put(mem, vtop, v), TopOff(Top) - Top.need + 1, v), Top, Top.target, Top.actuals)
    BY <1>4, <1>9 DEF HelperReturn, Put
  <2>. QED BY <1>1, <1>9, <2>1, ReturnNewStep
<1>. QED BY <1>3, <1>5, <1>6, <1>7, <1>8, <1>9

\* A helper fails and the body catches the error.
LEMMA CaughtStep ==
    ASSUME Inv, InHelper, acts' = With([Top EXCEPT !.mode = "run", !.ops = <<>>]), UNCHANGED <<mem, vtop>>
    PROVE  Inv'
<1>. DEFINE b == [Top EXCEPT !.mode = "run", !.ops = <<>>]
<1>0. acts # <<>> /\ Top.mode = "helper"
  BY DEF InHelper
<1>1. /\ Stacked(mem, acts) /\ mem \in Mem /\ Top \in ActType /\ vtop \in Nat /\ Top = acts[Len(acts)]
      /\ LiveBelow(mem, View(Top).operands)
  BY <1>0, TopFacts
<1>2. b \in ActType /\ SameFrame(Top, b) /\ b.mode = "run" /\ b.ops = <<>>
  <2>1. Top \in ActType /\ <<>> \in Seq(Value)
    BY <1>1
  <2>. QED BY <2>1 DEF ActType, SameFrame
<1>3. acts' = Swapped(acts, b)
  BY WithIs
<1>. HIDE DEF b
<1>4. OpsLive(b) /\ Agree(mem, mem, View(Top).operands)
  BY <1>2 DEF OpsLive, Agree
<1>5. Stacked(mem, Swapped(acts, b)) /\ Settled(mem, vtop, Swapped(acts, b))
  BY <1>0, <1>1, <1>2, <1>4, RunStep
<1>. QED BY <1>3, <1>5 DEF Inv

-----------------------------------------------------------------------------
(* The prologue.                                                            *)

\* The frame the prologue lays out is inside the stack, as the step's result is.
LEMMA BuildLimit ==
    ASSUME Inv, acts # <<>>, Top.segs = <<>>, Top.ops = <<>>, NEW m, NEW from, Build(m, Top, from), WithinLimit'
    PROVE  RootView(Top).operands <= VLimit
<1>. DEFINE c == Code[Top.body]
            want == IF from = "env" /\ c.env = "setup" THEN "env" ELSE IF c.args = "mapped" THEN "args" ELSE "none"
            o == RootView(Top).operands
<1>1. Top \in ActType /\ acts \in Seq(ActType)
  BY TopFacts
<1>2. View(Top) = RootView(Top) /\ Len(Top.ops) = 0
  BY BareViews
<1>3. o \in Nat /\ TopOff(Top) = o
  <2>1. o \in Nat
    BY <1>1, RootShape
  <2>. QED BY <1>2, <2>1 DEF TopOff
<1>4. CASE want = "none"
  <2>. DEFINE b == [Top EXCEPT !.mode = "run"]
  <2>1. acts' = Swapped(acts, b)
    BY <1>4, WithIs DEF Build
  <2>2. b \in ActType /\ SameFrame(Top, b) /\ b.mode = "run" /\ b.ops = <<>>
    BY <1>1 DEF ActType, SameFrame
  <2>. HIDE DEF b
  <2>3. TopOff(b) = o
    <3>1. View(b) = View(Top) /\ TopOff(b) = View(Top).operands + Len(b.ops)
      BY <2>2, SameViews
    <3>2. Len(b.ops) = 0
      BY <2>2
    <3>. QED BY <1>2, <1>3, <3>1, <3>2
  <2>4. /\ Swapped(acts, b) \in Seq(ActType) /\ Len(Swapped(acts, b)) = Len(acts) /\ Len(acts) \in Nat /\ Len(acts) >= 1
        /\ \A i \in 1..Len(acts) : Swapped(acts, b)[i] = IF i = Len(acts) THEN b ELSE acts[i]
    BY <1>1, <2>2, SwapSeq
  <2>5. Len(acts) \in 1..Len(acts)
    BY <2>4
  <2>6. Len(acts) \in DOMAIN acts' /\ acts'[Len(acts)] = b /\ b.mode # "entry"
    BY <2>1, <2>2, <2>4, <2>5
  <2>7. TopOff(b) < VLimit
    BY <2>6 DEF WithinLimit, Started, TopOff, View, RootView, enter_frame_view, vp
  <2>. QED BY <1>3, <2>3, <2>7, StackAssumption
<1>5. CASE want # "none"
  <2>1. vtop' = o
    BY <1>3, <1>5 DEF Build
  <2>. QED BY <2>1 DEF WithinLimit
<1>. QED BY <1>4, <1>5

\* The frame as the prologue leaves it, slot by slot.
LaidOut(m, m2, a) ==
    LET u == RootView(a)
    IN \A k \in 0..VLimit :
        /\ k < a.sp + 2 + a.argc /\ k < u.locals => m2[k] = m[k]
        /\ k >= a.sp + 2 + a.argc /\ k < u.locals => m2[k] = Undef
        /\ k >= u.locals /\ k < u.operands => m2[k] \in LiveValue
        /\ k >= u.locals /\ k < u.locals + Code[a.body].nlocals => m2[k] = Undef
        /\ k = u.rval => m2[k] = Undef

\* emit_formal_padding, the initialised slots and emit_env_setup together.
LEMMA PrologueMem ==
    ASSUME NEW a \in ActType, NEW m \in Mem
    PROVE  LET w == emit_env_setup(InitSlots(emit_formal_padding(m, a), a), a)
           IN w \in Mem /\ LaidOut(m, w, a)
<1>. DEFINE u == RootView(a)
            n == Code[a.body].nargs
            l == Code[a.body].nlocals
            m1 == emit_formal_padding(m, a)
            m2 == InitSlots(m1, a)
            w == emit_env_setup(m2, a)
<1>1. a.body \in DOMAIN Code /\ a.sp \in Nat /\ a.argc \in Nat
  BY Fields
<1>2. n \in Nat /\ l \in Nat
  BY <1>1, CodeAssumption
<1>3. /\ u.locals = a.sp + 2 + u.seen /\ u.rval \in Nat /\ u.rval >= u.locals + l /\ u.operands = u.rval + 1
      /\ u.seen = IF NeedsArgsObj(a.body) /\ a.argc > n THEN a.argc ELSE n
  <2>1. ViewShape(u) /\ u.base = a.sp /\ u.body = a.body
        /\ u.seen = IF NeedsArgsObj(a.body) /\ a.argc > n THEN a.argc ELSE n
    BY RootShape
  <2>. HIDE DEF u, n
  <2>. QED BY <2>1 DEF ViewShape
<1>4. u.env = u.locals + l /\ (Code[a.body].env # "none" => u.env < u.rval)
  <2>1. /\ u.env = u.locals + l /\ u.env \in Nat /\ u.args \in Nat /\ u.nt \in Nat /\ u.nt <= u.rval
        /\ u.args = u.env + IF Code[a.body].env # "none" THEN 1 ELSE 0
        /\ u.nt = u.args + IF NeedsArgsObj(a.body) THEN 1 ELSE 0
    BY RootShape
  <2>. HIDE DEF u, l
  <2>. QED BY <1>3, <2>1
<1>5. Undef \in Value /\ Undef \in LiveValue /\ Ptr(1) \in LiveValue /\ Ptr(1) \in Value
  BY Values
<1>6. m1 \in Mem /\ \A k \in 0..VLimit : m1[k] = IF a.argc < n /\ k >= a.sp + 2 + a.argc /\ k < a.sp + 2 + n THEN Undef ELSE m[k]
  <2>1. CASE a.argc < n
    <3>. DEFINE f == a.sp + 2 + a.argc
                d == n - a.argc
    <3>1. m1 = Fill(m, f, d, Undef) /\ f \in Nat /\ d \in Int /\ f + d = a.sp + 2 + n
      BY <1>1, <1>2, <2>1 DEF emit_formal_padding
    <3>. HIDE DEF f, d, m1
    <3>2. m1 \in Mem /\ \A k \in 0..VLimit : m1[k] = IF k >= f /\ k < f + d THEN Undef ELSE m[k]
      BY <1>5, <3>1, FillFacts
    <3>. QED BY <2>1, <3>1, <3>2 DEF f
  <2>2. CASE ~(a.argc < n)
    BY <2>2 DEF emit_formal_padding
  <2>. QED BY <2>1, <2>2
<1>. HIDE DEF m1
<1>7. m2 \in Mem /\ \A k \in 0..VLimit : m2[k] = IF k >= u.locals /\ k < u.operands THEN Undef ELSE m1[k]
  <2>. DEFINE f == u.locals
              d == u.operands - u.locals
  <2>1. m2 = Fill(m1, f, d, Undef)
    BY DEF InitSlots
  <2>2. f \in Nat /\ d \in Int /\ f + d = u.operands
    BY <1>1, <1>2, <1>3
  <2>. HIDE DEF f, d, m2, u
  <2>3. m2 \in Mem /\ \A k \in 0..VLimit : m2[k] = IF k >= f /\ k < f + d THEN Undef ELSE m1[k]
    BY <1>5, <1>6, <2>1, <2>2, FillFacts
  <2>. QED BY <2>2, <2>3 DEF f
<1>. HIDE DEF m2, u
<1>8. w \in Mem /\ \A k \in 0..VLimit : w[k] = IF Code[a.body].env = "plain" /\ k = u.env THEN Ptr(1) ELSE m2[k]
  <2>1. CASE Code[a.body].env = "plain"
    <3>1. w = Put(m2, u.env, Ptr(1))
      BY <2>1 DEF emit_env_setup, u, Put
    <3>2. u.env \in Nat
      BY <1>1, <1>2, <1>3, <1>4
    <3>. HIDE DEF w
    <3>3. w \in Mem /\ \A k \in 0..VLimit : w[k] = IF k = u.env THEN Ptr(1) ELSE m2[k]
      <4>. DEFINE x == u.env
                  v == Ptr(1)
      <4>1. w = Put(m2, x, v) /\ x \in Nat /\ v \in LiveValue /\ m2 \in Mem
        BY <1>5, <1>7, <3>1, <3>2
      <4>. HIDE DEF x, v
      <4>2. Put(m2, x, v) \in Mem /\ \A k \in 0..VLimit : Put(m2, x, v)[k] = IF k = x THEN v ELSE m2[k]
        BY <4>1, PutLive
      <4>. QED BY <4>1, <4>2 DEF x, v
    <3>. QED BY <2>1, <3>3
  <2>2. CASE Code[a.body].env # "plain"
    BY <1>7, <2>2 DEF emit_env_setup
  <2>. QED BY <2>1, <2>2
<1>. HIDE DEF w
<1>9. Code[a.body].env = "plain" => u.env < u.rval
  BY <1>4
<1>. DEFINE pl == Code[a.body].env = "plain"
<1>10. \A k \in 0..VLimit : w[k] = IF pl /\ k = u.env THEN Ptr(1) ELSE m2[k]
  BY <1>8
<1>11. pl => u.env < u.rval
  BY <1>9
<1>. HIDE DEF pl, n, l
<1>12. ASSUME NEW k \in 0..VLimit
       PROVE  /\ k < a.sp + 2 + a.argc /\ k < u.locals => w[k] = m[k]
              /\ k >= a.sp + 2 + a.argc /\ k < u.locals => w[k] = Undef
              /\ k >= u.locals /\ k < u.operands => w[k] \in LiveValue
              /\ k >= u.locals /\ k < u.locals + l => w[k] = Undef
              /\ k = u.rval => w[k] = Undef
  <2>1. w[k] = IF pl /\ k = u.env THEN Ptr(1) ELSE m2[k]
    BY <1>10
  <2>2. m2[k] = IF k >= u.locals /\ k < u.operands THEN Undef ELSE m1[k]
    BY <1>7
  <2>3. m1[k] = IF a.argc < n /\ k >= a.sp + 2 + a.argc /\ k < a.sp + 2 + n THEN Undef ELSE m[k]
    BY <1>6
  <2>4. k \in Int
    OBVIOUS
  <2>5. k < a.sp + 2 + a.argc /\ k < u.locals => w[k] = m[k]
    BY <1>1, <1>2, <1>3, <1>4, <2>1, <2>2, <2>3, <2>4
  <2>6. k >= a.sp + 2 + a.argc /\ k < u.locals => w[k] = Undef
    BY <1>1, <1>2, <1>3, <1>4, <2>1, <2>2, <2>3, <2>4
  <2>7. k >= u.locals /\ k < u.operands => w[k] \in LiveValue
    BY <1>5, <2>1, <2>2
  <2>8. k >= u.locals /\ k < u.locals + l => w[k] = Undef
    BY <1>1, <1>2, <1>3, <1>4, <2>1, <2>2, <2>4
  <2>9. k = u.rval => w[k] = Undef
    BY <1>1, <1>2, <1>3, <1>4, <1>11, <2>1, <2>2, <2>4
  <2>. QED BY <2>5, <2>6, <2>7, <2>8, <2>9
<1>13. LaidOut(m, w, a)
  BY <1>12 DEF LaidOut, u, l
<1>. QED BY <1>8, <1>13 DEF w, m2, m1

\* What the prologue lays out over the incoming arguments is the frame the
\* callee expects.
LEMMA LaidOutHolds ==
    ASSUME NEW a \in ActType, a.wrote = FALSE, a.argc = Len(a.passed), NEW m \in Mem, NEW w \in Mem, LaidOut(m, w, a),
           \A k \in 1..a.argc : m[a.sp + 1 + k] = a.passed[k], LiveBelow(m, a.sp + 2 + a.argc)
    PROVE  /\ Agree(m, w, a.sp) /\ LiveBelow(w, RootView(a).operands)
           /\ RootView(a).operands <= VLimit => ViewHolds(w, RootView(a))
<1>. DEFINE u == RootView(a)
            l == Code[a.body].nlocals
            e == a.sp + 2 + a.argc
<1>1. a.sp \in Nat /\ a.argc \in Nat /\ a.passed \in Seq(LiveValue)
  BY Fields
<1>2. /\ ViewShape(u) /\ u.base = a.sp /\ u.body = a.body /\ u.passed = a.passed /\ u.carried = <<>>
      /\ u.operands \in Nat
  BY RootShape
<1>3. \A k \in 0..VLimit :
        /\ k < e /\ k < u.locals => w[k] = m[k]
        /\ k >= e /\ k < u.locals => w[k] = Undef
        /\ k >= u.locals /\ k < u.operands => w[k] \in LiveValue
        /\ k >= u.locals /\ k < u.locals + l => w[k] = Undef
        /\ k = u.rval => w[k] = Undef
  BY DEF LaidOut
<1>. HIDE DEF u
<1>4. /\ u.locals = a.sp + 2 + u.seen /\ u.rval \in Nat /\ u.rval >= u.locals + l /\ u.operands = u.rval + 1
      /\ u.seen \in Nat /\ l \in Nat
  BY <1>2 DEF ViewShape
<1>. HIDE DEF l
<1>5. e \in Nat /\ e = a.sp + 2 + a.argc
  BY <1>1
<1>. HIDE DEF e
<1>6. Agree(m, w, a.sp)
  BY <1>1, <1>3, <1>4, <1>5, StackAssumption, SMTT(40) DEF Agree
<1>7. LiveBelow(w, u.operands)
  <2>1. ASSUME NEW k \in 0..VLimit, k < u.operands PROVE w[k] \in LiveValue
    <3>0. k \in Int /\ Undef \in LiveValue
      BY Values
    <3>1. CASE k >= u.locals
      BY <1>3, <2>1, <3>1
    <3>2. CASE k < u.locals /\ k >= e
      BY <1>3, <3>0, <3>2
    <3>3. CASE k < u.locals /\ k < e
      <4>1. m[k] \in LiveValue
        BY <1>5, <3>3 DEF LiveBelow
      <4>. QED BY <1>3, <3>3, <4>1
    <3>. QED BY <1>1, <1>4, <1>5, <3>0, <3>1, <3>2, <3>3
  <2>. QED BY <2>1 DEF LiveBelow
<1>8. ASSUME u.operands <= VLimit PROVE ViewHolds(w, u)
  <2>00. VLimit \in Nat
    BY StackAssumption
  <2>. DEFINE b == u.locals
              r == u.rval
              s == u.seen
              p == a.sp
              g == a.argc
  <2>0. /\ VLimit \in Nat /\ b \in Nat /\ r \in Nat /\ s \in Nat /\ p \in Nat /\ l \in Nat /\ g \in Nat
        /\ b = p + 2 + s /\ b + l <= r /\ r < VLimit /\ e = p + 2 + g
    BY <1>1, <1>4, <1>5, <1>8, <2>00, SMTT(40)
  <2>. HIDE DEF b, r, s, p, g
  <2>1. ASSUME NEW k \in 1..u.seen
        PROVE  w[a.sp + 1 + k] = IF k \in 1..a.argc THEN a.passed[k] ELSE Undef
    <3>1. k \in Nat /\ 1 <= k /\ k <= u.seen
      BY <1>4
    <3>. DEFINE x == a.sp + 1 + k
    <3>2. x \in 0..VLimit /\ x < u.locals /\ (x < e <=> k \in 1..a.argc) /\ (x < e \/ x >= e)
      <4>1. k \in Nat /\ 1 <= k /\ k <= s
        BY <3>1 DEF s
      <4>2. x = p + 1 + k
        BY DEF p
      <4>. HIDE DEF x
      <4>3. x \in 0..VLimit /\ x < b /\ (x < e <=> k \in 1..g) /\ (x < e \/ x >= e)
        BY <2>0, <4>1, <4>2
      <4>. QED BY <4>3 DEF b, g
    <3>. HIDE DEF x
    <3>3. CASE k \in 1..a.argc
      <4>1. w[x] = m[x]
        BY <1>3, <3>2, <3>3
      <4>2. m[x] = a.passed[k]
        BY <3>3 DEF x
      <4>. QED BY <3>3, <4>1, <4>2 DEF x
    <3>4. CASE k \notin 1..a.argc
      <4>1. w[x] = Undef
        BY <1>3, <3>2, <3>4
      <4>. QED BY <3>4, <4>1 DEF x
    <3>. QED BY <3>3, <3>4
  <2>2. DOMAIN u.passed = 1..a.argc /\ \A k \in 1..u.seen : k \notin DOMAIN u.carried
    BY <1>1, <1>2
  <2>3. w[u.rval] = Undef
    BY <1>3, <1>4, <1>8, <2>0
  <2>4. \A k \in 1..l : w[u.locals + k - 1] = Undef
    <3>. SUFFICES ASSUME NEW k \in 1..l PROVE w[u.locals + k - 1] = Undef
      OBVIOUS
    <3>. DEFINE x == u.locals + k - 1
    <3>1. x \in 0..VLimit /\ x >= u.locals /\ x < u.locals + l
      <4>1. x = b + k - 1
        BY DEF b
      <4>. HIDE DEF x
      <4>2. x \in 0..VLimit /\ x >= b /\ x < b + l
        BY <2>0, <4>1
      <4>. QED BY <4>2 DEF b
    <3>. HIDE DEF x
    <3>2. w[x] = Undef
      BY <1>3, <3>1
    <3>. QED BY <3>2 DEF x
  <2>5. \A k \in 1..u.seen : (IF k \in DOMAIN u.carried THEN u.carried[k] ELSE w[u.base + 1 + k])
                               = (IF k \in DOMAIN u.passed THEN u.passed[k] ELSE Undef)
    BY <1>2, <2>1, <2>2
  <2>6. \A k \in 1..Code[u.body].nlocals : w[u.locals + k - 1] = Undef
    BY <1>2, <2>4 DEF l
  <2>. QED BY <2>3, <2>5, <2>6 DEF ViewHolds
<1>. QED BY <1>6, <1>7, <1>8 DEF u

\* The prologue.
LEMMA PrologueStep ==
    ASSUME Inv, acts # <<>>, Top.mode = "entry", Top.kind # "resume", emit_frame_prologue, WithinLimit'
    PROVE  Inv'
<1>. DEFINE w == emit_env_setup(InitSlots(emit_formal_padding(mem, Top), Top), Top)
<1>1. Top \in ActType /\ mem \in Mem /\ ActShape(Top) /\ ActMem(mem, Top) /\ LiveBelow(mem, End(Top))
  BY TopFacts
<1>2. Top.segs = <<>> /\ Top.ops = <<>> /\ Top.need = 0 /\ Top.wrote = FALSE /\ Top.argc = Len(Top.passed)
  BY <1>1 DEF ActShape
<1>3. End(Top) = Top.sp + 2 + Top.argc
  BY EndCases
<1>4. \A k \in 1..Top.argc : mem[Top.sp + 1 + k] = Top.passed[k]
  BY <1>1 DEF ActMem, Entered
<1>5. w \in Mem /\ LaidOut(mem, w, Top)
  BY <1>1, PrologueMem
<1>6. Build(w, Top, "env")
  BY DEF emit_frame_prologue
<1>. HIDE DEF w
<1>7. RootView(Top).operands <= VLimit
  BY <1>2, <1>6, BuildLimit
<1>8. LiveBelow(mem, Top.sp + 2 + Top.argc)
  BY <1>1, <1>3
<1>9. Agree(mem, w, Top.sp) /\ LiveBelow(w, RootView(Top).operands) /\ ViewHolds(w, RootView(Top))
  BY <1>1, <1>2, <1>4, <1>5, <1>7, <1>8, LaidOutHolds
<1>. QED BY <1>2, <1>5, <1>6, <1>9, BuildStep

\* The frame of a resumed generator, as the engine half fills it.
GenFrame(m, a) ==
    LET v == RootView(a)
        c == Code[a.body]
    IN Fill(Fill(Fill(m, v.nt, v.operands - v.nt, Undef), v.locals, c.nlocals + (IF c.env # "none" THEN 1 ELSE 0), Ptr(4)),
            v.operands, 1, Ptr(5))
\* The slots of a resumed generator's frame.
LEMMA GenMem ==
    ASSUME NEW a \in ActType, ~NeedsArgsObj(a.body), NEW m \in Mem
    PROVE  LET w == GenFrame(m, a)
               u == RootView(a)
           IN /\ w \in Mem
              /\ \A k \in 0..VLimit : /\ k < u.locals => w[k] = m[k]
                                      /\ k >= u.locals /\ k <= u.operands => w[k] \in LiveValue
                                      /\ k = u.rval => w[k] = Undef
<1>. DEFINE u == RootView(a)
            d == Code[a.body].nlocals + (IF Code[a.body].env # "none" THEN 1 ELSE 0)
            p == Ptr(4)
            q == Ptr(5)
            m1 == Fill(m, u.nt, u.operands - u.nt, Undef)
            m2 == Fill(m1, u.locals, d, p)
            w == Fill(m2, u.operands, 1, q)
<1>1. w = GenFrame(m, a)
  BY DEF GenFrame
<1>2. /\ Undef \in Value /\ p \in Value /\ q \in Value
      /\ Undef \in LiveValue /\ p \in LiveValue /\ q \in LiveValue
  BY Values
<1>. HIDE DEF p, q
<1>3. /\ u.env = u.locals + Code[a.body].nlocals /\ u.env \in Nat /\ u.args \in Nat /\ u.nt \in Nat /\ u.nt <= u.rval
      /\ u.args = u.env + (IF Code[a.body].env # "none" THEN 1 ELSE 0)
      /\ u.nt = u.args + (IF NeedsArgsObj(a.body) THEN 1 ELSE 0)
      /\ ViewShape(u) /\ u.body = a.body
  BY RootShape
<1>. HIDE DEF u
<1>4. /\ u.locals \in Nat /\ Code[a.body].nlocals \in Nat /\ u.rval \in Nat /\ u.operands = u.rval + 1
  BY <1>3 DEF ViewShape
<1>5. d \in Nat /\ u.nt = u.locals + d
  BY <1>3, <1>4
<1>. HIDE DEF d
<1>6. m1 \in Mem /\ \A k \in 0..VLimit : m1[k] = IF k >= u.nt /\ k < u.operands THEN Undef ELSE m[k]
  <2>. DEFINE f == u.nt
              g == u.operands - u.nt
  <2>1. f \in Nat /\ g \in Int /\ f + g = u.operands /\ m1 = Fill(m, f, g, Undef)
    BY <1>3, <1>4
  <2>. HIDE DEF f, g, m1
  <2>2. m1 \in Mem /\ \A k \in 0..VLimit : m1[k] = IF k >= f /\ k < f + g THEN Undef ELSE m[k]
    BY <1>2, <2>1, FillFacts
  <2>. QED BY <2>1, <2>2 DEF f
<1>. HIDE DEF m1
<1>7. m2 \in Mem /\ \A k \in 0..VLimit : m2[k] = IF k >= u.locals /\ k < u.locals + d THEN p ELSE m1[k]
  <2>. DEFINE f == u.locals
  <2>1. f \in Nat /\ d \in Int /\ m2 = Fill(m1, f, d, p)
    BY <1>4, <1>5
  <2>. HIDE DEF f, m2
  <2>2. m2 \in Mem /\ \A k \in 0..VLimit : m2[k] = IF k >= f /\ k < f + d THEN p ELSE m1[k]
    BY <1>2, <1>6, <2>1, FillFacts
  <2>. QED BY <2>2 DEF f
<1>. HIDE DEF m2
<1>8. w \in Mem /\ \A k \in 0..VLimit : w[k] = IF k = u.operands THEN q ELSE m2[k]
  <2>. DEFINE f == u.operands
  <2>1. f \in Nat /\ 1 \in Int /\ w = Fill(m2, f, 1, q)
    BY <1>4
  <2>. HIDE DEF f, w
  <2>2. w \in Mem /\ \A k \in 0..VLimit : w[k] = IF k >= f /\ k < f + 1 THEN q ELSE m2[k]
    BY <1>2, <1>7, <2>1, FillFacts
  <2>3. \A k \in 0..VLimit : (k >= f /\ k < f + 1) <=> k = f
    BY <2>1, StackAssumption
  <2>. QED BY <2>2, <2>3 DEF f
<1>. HIDE DEF w
<1>9. ASSUME NEW k \in 0..VLimit
      PROVE  /\ k < u.locals => w[k] = m[k]
             /\ k >= u.locals /\ k <= u.operands => w[k] \in LiveValue
             /\ k = u.rval => w[k] = Undef
  <2>. DEFINE nn == u.nt
              ll == u.locals
              oo == u.operands
              rr == u.rval
  <2>1. k \in Int /\ nn \in Nat /\ ll \in Nat /\ oo \in Nat /\ rr \in Nat /\ d \in Nat /\ nn = ll + d /\ oo = rr + 1 /\ nn <= rr
    BY <1>3, <1>4, <1>5, StackAssumption
  <2>2. w[k] = IF k = oo THEN q ELSE m2[k]
    BY <1>8
  <2>3. m2[k] = IF k >= ll /\ k < ll + d THEN p ELSE m1[k]
    BY <1>7
  <2>4. m1[k] = IF k >= nn /\ k < oo THEN Undef ELSE m[k]
    BY <1>6
  <2>. HIDE DEF nn, ll, oo, rr
  <2>5. k < ll => w[k] = m[k]
    BY <2>1, <2>2, <2>3, <2>4
  <2>6. k >= ll /\ k <= oo => w[k] = q \/ w[k] = p \/ w[k] = Undef
    BY <2>1, <2>2, <2>3, <2>4
  <2>7. k = rr => w[k] = Undef
    BY <2>1, <2>2, <2>3, <2>4
  <2>. QED BY <1>2, <2>5, <2>6, <2>7 DEF ll, oo, rr
<1>. QED BY <1>1, <1>8, <1>9 DEF u

\* A generator's frame is filled and its descriptor read.
LEMMA ResumeStep ==
    ASSUME Inv, acts # <<>>, Top.mode = "entry", Top.kind = "resume", finalize_gen_dispatch, WithinLimit'
    PROVE  Inv'
<1>. DEFINE u == RootView(Top)
            w == GenFrame(mem, Top)
            l == u.locals
            o == u.operands
            desc == ReadSlots(mem, l, 3)
            ops == <<w[o], desc[3], desc[2], desc[1]>>
            b == [Top EXCEPT !.mode = "run", !.wrote = TRUE, !.ops = ops]
            c == [Top EXCEPT !.wrote = TRUE]
<1>1. /\ Stacked(mem, acts) /\ Top = acts[Len(acts)] /\ mem \in Mem /\ Top \in ActType /\ ActShape(Top)
      /\ vtop \in Nat /\ acts \in Seq(ActType) /\ ActMem(mem, Top) /\ LiveBelow(mem, End(Top))
  BY TopFacts
<1>2. /\ Top.segs = <<>> /\ Top.ops = <<>> /\ Top.wrote = FALSE /\ Top.argc = Len(Top.passed)
      /\ Top.passed = <<>> /\ Code[Top.body].gen /\ End(Top) <= VLimit
  BY <1>1 DEF ActShape
<1>3. Top.body \in DOMAIN Code /\ Top.sp \in Nat /\ Code[Top.body].nargs \in Nat /\ ~NeedsArgsObj(Top.body)
  <2>1. Top.body \in DOMAIN Code /\ Top.sp \in Nat
    BY <1>1, Fields
  <2>. QED BY <1>2, <2>1, CodeAssumption DEF NeedsArgsObj
<1>4. /\ ViewShape(u) /\ u.base = Top.sp /\ u.seen = Code[Top.body].nargs /\ u.body = Top.body
      /\ u.passed = <<>> /\ u.carried = <<>>
  BY <1>1, <1>2, <1>3, RootShape
<1>5. End(Top) = Top.sp + 2 + (Code[Top.body].nargs + 3)
  BY EndCases
<1>6. mem' = w /\ vtop' = vtop /\ acts' = Swapped(acts, b)
  BY WithIs DEF finalize_gen_dispatch, GenFrame
<1>7. w \in Mem /\ \A k \in 0..VLimit : /\ k < l => w[k] = mem[k]
                                        /\ k >= l /\ k <= o => w[k] \in LiveValue
                                        /\ k = u.rval => w[k] = Undef
  BY <1>1, <1>3, GenMem
<1>. HIDE DEF w
<1>8. View(Top) = u /\ Views(Top) = {u} /\ SegsNest(Top)
  BY <1>2, BareViews
<1>. HIDE DEF u
<1>9. /\ l \in Nat /\ o \in Nat /\ u.rval \in Nat /\ o = u.rval + 1 /\ l <= u.rval /\ u.seen \in Nat /\ l = Top.sp + 2 + u.seen
      /\ VLimit \in Nat /\ l + 3 <= VLimit /\ End(Top) = l + 3
  <2>1. /\ l \in Nat /\ o = u.rval + 1 /\ u.rval \in Nat /\ l <= u.rval /\ u.seen \in Nat /\ l = Top.sp + 2 + u.seen
    BY <1>4, SMTT(40) DEF ViewShape
  <2>. DEFINE sp == Top.sp
              n == u.seen
              e == End(Top)
              r == u.rval
  <2>2. sp \in Nat /\ n \in Nat /\ e = sp + 2 + (n + 3) /\ e <= VLimit /\ l = sp + 2 + n /\ r \in Nat /\ o = r + 1 /\ VLimit \in Nat
    BY <1>2, <1>3, <1>4, <1>5, <2>1, StackAssumption
  <2>. HIDE DEF sp, n, e, r, l, o
  <2>3. o \in Nat /\ l + 3 <= VLimit /\ e = l + 3
    BY <2>2
  <2>. QED BY <2>1, <2>2, <2>3 DEF e
<1>. HIDE DEF l, o
<1>10. desc[1] \in LiveValue /\ desc[2] \in LiveValue /\ desc[3] \in LiveValue
  <2>1. desc = [i \in 1..3 |-> mem[l + i - 1]]
    BY DEF ReadSlots
  <2>2. \A k \in 0..VLimit : k < l + 3 => mem[k] \in LiveValue
    BY <1>1, <1>9 DEF LiveBelow
  <2>3. l \in 0..VLimit /\ l + 1 \in 0..VLimit /\ l + 2 \in 0..VLimit /\ l < l + 3 /\ l + 1 < l + 3 /\ l + 2 < l + 3
    BY <1>9
  <2>4. mem[l] \in LiveValue /\ mem[l + 1] \in LiveValue /\ mem[l + 2] \in LiveValue
    BY <2>2, <2>3
  <2>5. l + 1 - 1 = l /\ l + 2 - 1 = l + 1 /\ l + 3 - 1 = l + 2
    BY <1>9
  <2>. QED BY <2>1, <2>4, <2>5
<1>. HIDE DEF desc
<1>11. Len(ops) = 4 /\ DOMAIN ops = 1..4 /\ ops[1] = w[o] /\ ops[2] = desc[3] /\ ops[3] = desc[2] /\ ops[4] = desc[1]
  OBVIOUS
<1>. HIDE DEF ops
<1>12. /\ b.body = Top.body /\ b.sp = Top.sp /\ b.argc = Top.argc /\ b.passed = Top.passed /\ b.wrote = TRUE /\ b.segs = Top.segs
       /\ b.kind = Top.kind /\ b.saved = Top.saved /\ b.ops = ops /\ b.mode = "run"
  BY <1>1 DEF ActType
<1>13. SameFrame(c, b)
  BY <1>1 DEF ActType, SameFrame
<1>14. Rewrote(View(c), u) /\ Views(c) = {View(c)} /\ SegsNest(c)
  <2>1. Rewrote(View(c), View(Top)) /\ Views(c) = {View(c)} /\ SegsNest(c)
    BY <1>1, <1>2, RewroteRoot
  <2>. QED BY <1>8, <2>1
<1>15. b \in ActType \cup {b} /\ acts \in Seq(ActType \cup {b})
  <2>. HIDE DEF b
  <2>. QED BY <1>1
<1>16. ops \in Seq(Value) => b \in ActType
  BY <1>1 DEF ActType
<1>. HIDE DEF b, c
<1>17. View(b) = View(c) /\ Views(b) = {View(b)} /\ SegsNest(b) /\ TopOff(b) = View(b).operands + 4
  BY <1>11, <1>12, <1>13, <1>14, SameViews, ZenonT(60)
<1>. DEFINE x == View(b)
<1>18. Rewrote(x, u)
  BY <1>14, <1>17
<1>. HIDE DEF x
<1>19. x.operands = o /\ x.rval = u.rval /\ x.wrote = TRUE /\ x.seen = u.seen /\ x.base = u.base /\ x.passed = u.passed /\ x.carried = u.carried
  BY <1>18 DEF Rewrote, o
<1>20. TopOff(b) = o + 4
  BY <1>17, <1>19 DEF x
<1>21. o + 4 < VLimit
  <2>1. /\ Len(Swapped(acts, b)) = Len(acts) /\ Len(acts) \in Nat /\ Len(acts) >= 1 /\ Swapped(acts, b) \in Seq(ActType \cup {b})
        /\ \A i \in 1..Len(acts) : Swapped(acts, b)[i] = IF i = Len(acts) THEN b ELSE acts[i]
    <3>. DEFINE T == ActType \cup {b}
    <3>1. b \in T /\ acts \in Seq(T)
      BY <1>15
    <3>. HIDE DEF T
    <3>2. /\ Len(Swapped(acts, b)) = Len(acts) /\ Len(acts) \in Nat /\ Len(acts) >= 1 /\ Swapped(acts, b) \in Seq(T)
          /\ \A i \in 1..Len(acts) : Swapped(acts, b)[i] = IF i = Len(acts) THEN b ELSE acts[i]
      BY <3>1, SwapSeq
    <3>. QED BY <3>2 DEF T
  <2>2. Len(acts) \in 1..Len(acts)
    BY <2>1
  <2>3. Len(acts) \in DOMAIN acts' /\ acts'[Len(acts)] = b /\ b.mode # "entry"
    BY <1>6, <1>12, <2>1, <2>2
  <2>4. TopOff(b) < VLimit
    BY <2>3 DEF WithinLimit, Started, TopOff, View, RootView, enter_frame_view, vp
  <2>. QED BY <1>20, <2>4
<1>22. w[o] \in LiveValue /\ w[u.rval] = Undef
  <2>1. o \in 0..VLimit /\ o >= l /\ o <= o /\ u.rval \in 0..VLimit
    BY <1>9, <1>21
  <2>. QED BY <1>7, <2>1
<1>23. OpsLive(b) /\ b \in ActType
  <2>1. \A k \in 1..4 : ops[k] \in LiveValue
    <3>1. \A k \in 1..4 : k = 1 \/ k = 2 \/ k = 3 \/ k = 4
      OBVIOUS
    <3>. QED BY <1>10, <1>11, <1>22, <3>1
  <2>2. ops \in Seq(LiveValue)
    <3>1. ops = [k \in 1..4 |-> ops[k]]
      BY <1>11 DEF ops
    <3>2. 4 \in Nat
      OBVIOUS
    <3>. QED BY <2>1, <3>1, <3>2
  <2>3. ops \in Seq(Value)
    BY <2>2, LiveSeqValue
  <2>. QED BY <1>11, <1>12, <1>16, <2>1, <2>3 DEF OpsLive
<1>24. End(b) = o /\ o <= VLimit
  BY <1>9, <1>12, <1>19, <1>21, EndCases DEF x
<1>25. LiveBelow(w, o) /\ Agree(mem, w, Top.sp)
  <2>1. ASSUME NEW k \in 0..VLimit, k < o PROVE w[k] \in LiveValue
    <3>1. CASE k >= l
      BY <1>7, <1>9, <2>1, <3>1
    <3>2. CASE k < l
      <4>1. k < l + 3
        BY <1>9, <3>2
      <4>2. mem[k] \in LiveValue
        BY <1>1, <1>9, <4>1 DEF LiveBelow
      <4>. QED BY <1>7, <3>2, <4>2
    <3>. QED BY <1>9, <3>1, <3>2
  <2>2. ASSUME NEW k \in 0..VLimit, k < Top.sp PROVE w[k] = mem[k]
    <3>1. k < l
      BY <1>3, <1>9, <2>2
    <3>. QED BY <1>7, <3>1
  <2>. QED BY <2>1, <2>2 DEF LiveBelow, Agree
<1>26. ViewHolds(w, x)
  <2>1. ASSUME NEW k \in 1..u.seen PROVE w[Top.sp + 1 + k] = Undef
    <3>1. mem[Top.sp + 1 + k] = Undef
      BY <1>1, <1>4, <2>1 DEF ActMem, Entered
    <3>2. Top.sp + 1 + k \in 0..VLimit /\ Top.sp + 1 + k < l
      <4>. DEFINE sp == Top.sp
                  n == u.seen
      <4>1. sp \in Nat /\ n \in Nat /\ l = sp + 2 + n /\ l + 3 <= VLimit /\ VLimit \in Nat /\ k \in 1..n
        BY <1>3, <1>9
      <4>. HIDE DEF sp, n
      <4>2. sp + 1 + k \in 0..VLimit /\ sp + 1 + k < l
        BY <4>1
      <4>. QED BY <4>2 DEF sp
    <3>. QED BY <1>7, <3>1, <3>2
  <2>2. x.seen = u.seen /\ x.base = Top.sp /\ x.passed = <<>> /\ x.carried = <<>>
    BY <1>4, <1>19
  <2>3. \A k \in 1..x.seen : k \notin DOMAIN x.carried /\ k \notin DOMAIN x.passed
    BY <2>2
  <2>4. \A k \in 1..x.seen : w[x.base + 1 + k] = Undef
    BY <2>1, <2>2
  <2>5. w[x.rval] = Undef
    BY <1>19, <1>22
  <2>. QED BY <1>19, <2>3, <2>4, <2>5 DEF ViewHolds
<1>27. ActShape(b)
  BY <1>2, <1>12, <1>17, <1>24 DEF ActShape
<1>28. ActMem(w, b)
  BY <1>12, <1>17, <1>26 DEF ActMem, x
<1>29. Stacked(w, Swapped(acts, b)) /\ Settled(w, vtop, Swapped(acts, b))
  <2>1. LiveBelow(w, End(b)) /\ Agree(mem, w, b.sp)
    BY <1>12, <1>24, <1>25
  <2>. QED BY <1>1, <1>7, <1>12, <1>23, <1>27, <1>28, <2>1, SwapInv
<1>. QED BY <1>6, <1>29 DEF Inv

\* A new activation's first step.
LEMMA BeginStep ==
    ASSUME Inv, Begin, WithinLimit'
    PROVE  Inv'
<1>1. CASE Top.kind = "resume"
  BY <1>1, ResumeStep DEF Begin
<1>2. CASE Top.kind # "resume"
  BY <1>2, PrologueStep DEF Begin
<1>. QED BY <1>1, <1>2

-----------------------------------------------------------------------------
(* Entries from the engine.                                                 *)

\* Where the engine may enter, everything under the published top is live
\* and belongs to the frames that wait.
LEMMA EntryFacts ==
    ASSUME Inv, CanEnter
    PROVE  /\ Stacked(mem, acts) /\ mem \in Mem /\ vtop \in Nat /\ LiveBelow(mem, vtop) /\ acts \in Seq(ActType)
           /\ acts = <<>> => vtop = 0
           /\ acts # <<>> => /\ acts[Len(acts)].mode = "helper" /\ acts[Len(acts)].top = vtop
                             /\ End(acts[Len(acts)]) = vtop
<1>1. CASE acts = <<>>
  <2>1. Stacked(mem, acts) /\ Settled(mem, vtop, acts)
    BY DEF Inv
  <2>2. vtop = 0 /\ mem \in Mem /\ acts \in Seq(ActType)
    BY <1>1, <2>1 DEF Stacked, Settled
  <2>3. LiveBelow(mem, 0)
    BY StackAssumption DEF LiveBelow
  <2>. QED BY <1>1, <2>1, <2>2, <2>3
<1>2. CASE acts # <<>>
  <2>1. Top.mode = "helper"
    BY <1>2 DEF CanEnter, InHelper
  <2>2. /\ Stacked(mem, acts) /\ mem \in Mem /\ vtop \in Nat /\ Top = acts[Len(acts)] /\ vtop = Top.top /\ LiveBelow(mem, End(Top))
        /\ acts \in Seq(ActType)
    BY <1>2, <2>1, TopFacts
  <2>3. End(Top) = Top.top
    BY <2>1, EndCases
  <2>. QED BY <1>2, <2>1, <2>2, <2>3
<1>. QED BY <1>1, <1>2

\* A frame pushed by the engine.
LEMMA EngineStep ==
    ASSUME Inv, CanEnter, NEW m \in Mem, Agree(mem, m, vtop), NEW c \in ActType, ActShape(c), ActMem(m, c),
           c.sp = vtop, c.saved = vtop, c.kind # "direct", c.mode = "entry", LiveBelow(m, End(c)), NEW vt \in Nat
    PROVE  Stacked(m, Append(acts, c)) /\ Settled(m, vt, Append(acts, c))
<1>1. /\ Stacked(mem, acts) /\ vtop \in Nat /\ (acts = <<>> => vtop = 0)
      /\ acts # <<>> => /\ acts[Len(acts)].mode = "helper" /\ acts[Len(acts)].top = vtop
                        /\ End(acts[Len(acts)]) = vtop
  BY EntryFacts
<1>2. acts # <<>> => /\ End(acts[Len(acts)]) <= c.sp
                     /\ acts[Len(acts)].mode = IF c.kind = "direct" THEN "call" ELSE "helper"
  BY <1>1
<1>3. IF c.kind = "direct" THEN acts # <<>> ELSE c.saved = IF acts = <<>> THEN 0 ELSE acts[Len(acts)].top
  BY <1>1
<1>4. Agree(mem, m, c.sp)
  OBVIOUS
<1>. QED BY <1>1, <1>2, <1>3, <1>4, PushInv

\* The record of an activation the engine enters.
EntryOf(c, t, sp, n, kind, args) ==
    /\ c \in ActType /\ c.sp = sp /\ c.argc = n /\ c.passed = args /\ c.kind = kind /\ c.saved = sp /\ c.body = t
    /\ c.mode = "entry" /\ c.segs = <<>> /\ c.ops = <<>> /\ c.need = 0 /\ c.wrote = FALSE
\* Act builds such a record.
LEMMA ActIs ==
    ASSUME NEW t \in DOMAIN Code, NEW sp \in Nat, NEW n \in Nat, NEW kind \in {"engine", "resume"},
           NEW args \in Seq(LiveValue)
    PROVE  EntryOf(Act(t, sp, n, kind, sp, args), t, sp, n, kind, args)
<1>. DEFINE c == Act(t, sp, n, kind, sp, args)
<1>1. <<>> \in Seq(SegType) /\ <<>> \in Seq(Value) /\ <<>> \in Seq(LiveValue) /\ 0 \in Nat
  OBVIOUS
<1>2. c \in ActType
  BY <1>1 DEF Act, ActType
<1>. QED BY <1>2 DEF Act, EntryOf

\* The staged frame: callee, this, actuals, undefined to the formals.
LEMMA StageFacts ==
    ASSUME NEW t \in DOMAIN Code, NEW args \in Seq(LiveValue), NEW n \in Nat, Len(args) <= n
    PROVE  /\ Stage(t, args, n) \in Seq(LiveValue) /\ Len(Stage(t, args, n)) = 2 + n
           /\ \A k \in 1..Len(args) : Stage(t, args, n)[2 + k] = args[k]
<1>. DEFINE s == Stage(t, args, n)
            N == 2 + n
<1>1. Len(args) \in Nat /\ N \in Nat
  OBVIOUS
<1>2. s = [i \in 1..N |-> IF i = 1 THEN Callee ELSE IF i = 2 THEN This ELSE IF i - 2 <= Len(args) THEN args[i - 2] ELSE Undef]
  BY DEF Stage
<1>3. \A i \in 1..N : (IF i = 1 THEN Callee ELSE IF i = 2 THEN This ELSE IF i - 2 <= Len(args) THEN args[i - 2] ELSE Undef) \in LiveValue
  <2>1. \A i \in 1..N : i # 1 /\ i # 2 /\ i - 2 <= Len(args) => i - 2 \in 1..Len(args)
    BY <1>1
  <2>2. \A j \in 1..Len(args) : args[j] \in LiveValue
    OBVIOUS
  <2>. QED BY <2>1, <2>2, Constants
<1>4. \A k \in 1..Len(args) : 2 + k \in 1..N /\ 2 + k # 1 /\ 2 + k # 2 /\ (2 + k) - 2 <= Len(args) /\ (2 + k) - 2 = k
  BY <1>1
<1>. HIDE DEF s, N
<1>5. s \in Seq(LiveValue) /\ Len(s) = N
  BY <1>1, <1>2, <1>3
<1>6. \A k \in 1..Len(args) : s[2 + k] = args[k]
  BY <1>2, <1>4
<1>. QED BY <1>5, <1>6 DEF s, N

\* EnterNight.
LEMMA EnterStep ==
    ASSUME Inv, CanEnter, NEW t \in DOMAIN Code, NEW args \in Seq(LiveValue), EnterNight(t, args)
    PROVE  Inv'
<1>. DEFINE n == Larger(Len(args), Code[t].nargs)
            s == Stage(t, args, n)
            w == Write(mem, vtop, s)
            c == Act(t, vtop, Len(args), "engine", vtop, args)
<1>1. mem \in Mem /\ vtop \in Nat /\ LiveBelow(mem, vtop)
  BY EntryFacts
<1>2. Len(args) \in Nat /\ Code[t].nargs \in Nat
  BY CodeAssumption
<1>3. n \in Nat /\ Len(args) <= n
  BY <1>2 DEF Larger
<1>4. mem' = w /\ acts' = Append(acts, c) /\ vtop' = vtop + 2 + n /\ vtop + 2 + n + Headroom <= VLimit
  BY DEF EnterNight
<1>. HIDE DEF n
<1>5. s \in Seq(LiveValue) /\ Len(s) = 2 + n /\ \A k \in 1..Len(args) : s[2 + k] = args[k]
  BY <1>3, StageFacts
<1>. HIDE DEF s
<1>6. w \in Mem /\ Agree(mem, w, vtop) /\ LiveBelow(w, vtop + Len(s))
  BY <1>1, <1>5, SpillFacts
<1>7. /\ c \in ActType /\ c.sp = vtop /\ c.argc = Len(args) /\ c.passed = args /\ c.kind = "engine" /\ c.saved = vtop /\ c.body = t
      /\ c.mode = "entry" /\ c.segs = <<>> /\ c.ops = <<>> /\ c.need = 0 /\ c.wrote = FALSE
  <2>. DEFINE g == Len(args)
              q == "engine"
  <2>1. c = Act(t, vtop, g, q, vtop, args) /\ g \in Nat /\ q \in {"engine", "resume"} /\ vtop \in Nat
    BY <1>1, <1>2
  <2>. HIDE DEF g, c, q
  <2>2. EntryOf(c, t, vtop, g, q, args)
    BY <2>1, ActIs
  <2>. QED BY <2>2 DEF g, q, EntryOf
<1>. HIDE DEF c
<1>. DEFINE g == Len(args)
            e == vtop + 2 + g
<1>8. /\ g \in Nat /\ e \in Nat /\ e <= vtop + 2 + n /\ e <= VLimit /\ VLimit \in Nat /\ vtop + 2 + n \in Nat
      /\ vtop + 2 + n <= VLimit
  BY <1>1, <1>2, <1>3, <1>4, StackAssumption
<1>9. End(c) = e
  BY <1>7, EndCases
<1>10. \A k \in 1..g : w[vtop + 1 + k] = args[k]
  <2>. SUFFICES ASSUME NEW k \in 1..g PROVE w[vtop + 1 + k] = args[k]
    OBVIOUS
  <2>. DEFINE i == 2 + k
  <2>1. i \in Nat /\ 1 <= i /\ i <= Len(s) /\ vtop + i - 1 <= VLimit /\ vtop + i - 1 = vtop + 1 + k
    BY <1>1, <1>3, <1>5, <1>8
  <2>2. s[i] = args[k]
    BY <1>5
  <2>. HIDE DEF i
  <2>3. w[vtop + i - 1] = s[i]
    BY <1>1, <1>5, <2>1, ReadBack
  <2>. QED BY <2>1, <2>2, <2>3
<1>. HIDE DEF w
<1>11. ActMem(w, c)
  BY <1>7, <1>10 DEF ActMem, Entered
<1>12. LiveBelow(w, End(c))
  <2>1. vtop + Len(s) = vtop + 2 + n
    BY <1>1, <1>3, <1>5
  <2>2. LiveBelow(w, vtop + 2 + n)
    BY <1>6, <2>1
  <2>. HIDE DEF e
  <2>3. LiveBelow(w, e)
    BY <1>8, <2>2, LiveLess
  <2>. QED BY <1>9, <2>3
<1>13. ActShape(c)
  <2>1. End(c) <= VLimit
    BY <1>8, <1>9
  <2>. QED BY <1>7, <2>1, NewAct
<1>14. vtop' \in Nat
  BY <1>4, <1>8
<1>15. Stacked(w, Append(acts, c)) /\ Settled(w, vtop', Append(acts, c))
  BY <1>6, <1>7, <1>11, <1>12, <1>13, <1>14, EngineStep
<1>. QED BY <1>4, <1>15 DEF Inv

\* A failed entry has written above the published top only.
LEMMA FailedEntryStep ==
    ASSUME Inv, CanEnter, NEW vs \in Seq(LiveValue), mem' = Write(mem, vtop, vs), UNCHANGED <<vtop, acts>>
    PROVE  Inv'
<1>. DEFINE w == Write(mem, vtop, vs)
<1>1. /\ Stacked(mem, acts) /\ mem \in Mem /\ vtop \in Nat /\ LiveBelow(mem, vtop)
      /\ acts # <<>> => End(acts[Len(acts)]) = vtop /\ acts[Len(acts)].mode = "helper"
  BY EntryFacts
<1>2. w \in Mem /\ Agree(mem, w, vtop) /\ LiveBelow(w, vtop + Len(vs)) /\ Len(vs) \in Nat
  BY <1>1, SpillFacts
<1>3. mem' = w /\ vtop' = vtop /\ acts' = acts
  OBVIOUS
<1>. HIDE DEF w
<1>4. LiveBelow(w, vtop)
  BY <1>1, <1>2 DEF LiveBelow, Agree
<1>5. Stacked(w, acts)
  BY <1>1, <1>2, MemStack
<1>6. Settled(mem, vtop, acts)
  BY DEF Inv
<1>7. Settled(w, vtop, acts)
  BY <1>1, <1>4, <1>6 DEF Settled
<1>. QED BY <1>3, <1>5, <1>7 DEF Inv

\* EnterNightResume.
LEMMA EnterResumeStep ==
    ASSUME Inv, CanEnter, NEW t \in DOMAIN Code, EnterNightResume(t)
    PROVE  Inv'
<1>. DEFINE n == Code[t].nargs
            top == vtop + 2 + n
            us == [i \in 1..n |-> Undef]
            r == <<"i", 9>>
            s == <<Callee, r>> \o us
            d == <<<<"i", 1>>, Ptr(2), Ptr(3)>>
            w1 == Write(mem, vtop, s)
            w == Write(w1, top, d)
            none == <<>>
            c == Act(t, vtop, 0, "resume", vtop, none)
<1>1. mem \in Mem /\ vtop \in Nat /\ LiveBelow(mem, vtop)
  BY EntryFacts
<1>2. n \in Nat /\ top \in Nat
  BY <1>1, CodeAssumption
<1>3. mem' = w /\ acts' = Append(acts, c) /\ vtop' = top /\ Code[t].gen /\ top + 3 + Headroom <= VLimit
  BY DEF EnterNightResume
<1>4. r \in LiveValue /\ <<"i", 1>> \in LiveValue /\ Ptr(2) \in LiveValue /\ Ptr(3) \in LiveValue /\ Undef \in LiveValue
      /\ Callee \in LiveValue
  BY Values, Constants
<1>5. d \in Seq(LiveValue) /\ Len(d) = 3
  BY <1>4
<1>6. us \in Seq(LiveValue) /\ Len(us) = n /\ \A k \in 1..n : us[k] = Undef
  <2>. HIDE DEF n
  <2>. QED BY <1>2, <1>4
<1>. HIDE DEF r, d, us
<1>7. s \in Seq(LiveValue) /\ Len(s) = 2 + n /\ \A k \in 1..n : s[2 + k] = Undef
  <2>1. s \in Seq(LiveValue) /\ Len(s) = 2 + Len(us) /\ \A k \in 1..Len(us) : s[2 + k] = us[k]
    BY <1>4, <1>6, PairSeq
  <2>. HIDE DEF s, n
  <2>. QED BY <1>6, <2>1
<1>. HIDE DEF s
<1>8. w1 \in Mem /\ Agree(mem, w1, vtop) /\ LiveBelow(w1, top)
  <2>1. w1 \in Mem /\ Agree(mem, w1, vtop) /\ LiveBelow(w1, vtop + Len(s))
    BY <1>1, <1>7, SpillFacts
  <2>2. vtop + Len(s) = top
    <3>1. Len(s) = 2 + n /\ n \in Nat /\ vtop \in Nat
      BY <1>1, <1>2, <1>7
    <3>. HIDE DEF n
    <3>. QED BY <3>1
  <2>. QED BY <2>1, <2>2
<1>9. w \in Mem /\ Agree(w1, w, top) /\ LiveBelow(w, top + 3)
  <2>. HIDE DEF w1, top
  <2>1. w \in Mem /\ Agree(w1, w, top) /\ LiveBelow(w, top + Len(d))
    BY <1>2, <1>5, <1>8, SpillFacts
  <2>2. top + Len(d) = top + 3
    BY <1>5
  <2>. QED BY <2>1, <2>2
<1>10. EntryOf(c, t, vtop, 0, "resume", none)
  <2>. DEFINE q == "resume"
              z == 0
  <2>1. none \in Seq(LiveValue) /\ q \in {"engine", "resume"} /\ z \in Nat /\ c = Act(t, vtop, z, q, vtop, none)
    OBVIOUS
  <2>. HIDE DEF q, z, none, c
  <2>2. EntryOf(c, t, vtop, z, q, none)
    BY <1>1, <2>1, ActIs
  <2>. QED BY <2>2 DEF q, z
<1>. HIDE DEF c
<1>11. /\ c \in ActType /\ c.sp = vtop /\ c.argc = 0 /\ c.passed = <<>> /\ c.kind = "resume" /\ c.saved = vtop /\ c.body = t
       /\ c.mode = "entry" /\ c.segs = <<>> /\ c.ops = <<>> /\ c.need = 0 /\ c.wrote = FALSE
  BY <1>10 DEF EntryOf
<1>12. End(c) = vtop + 2 + (n + 3)
  BY <1>11, EndCases
<1>13. End(c) = top + 3 /\ top + 3 <= VLimit
  <2>1. vtop + 2 + (n + 3) = top + 3
    BY <1>1, <1>2
  <2>2. top + 3 <= VLimit
    <3>. HIDE DEF top
    <3>. QED BY <1>2, <1>3, StackAssumption
  <2>. QED BY <1>12, <2>1, <2>2
<1>14. \A k \in 1..n : w[vtop + 1 + k] = Undef
  <2>. SUFFICES ASSUME NEW k \in 1..n PROVE w[vtop + 1 + k] = Undef
    OBVIOUS
  <2>. DEFINE i == 2 + k
              x == vtop + 1 + k
  <2>1. i \in Nat /\ 1 <= i /\ i <= Len(s) /\ vtop + i - 1 <= VLimit /\ vtop + i - 1 = x /\ x \in 0..VLimit /\ x < top
    <3>1. k \in Nat /\ 1 <= k /\ k <= n /\ VLimit \in Nat /\ vtop + 2 + n + 3 <= VLimit
      BY <1>2, <1>13, StackAssumption
    <3>. HIDE DEF n
    <3>. QED BY <1>1, <1>2, <1>7, <3>1
  <2>2. s[i] = Undef
    BY <1>7
  <2>. HIDE DEF i, x
  <2>3. w1[vtop + i - 1] = s[i]
    BY <1>1, <1>7, <2>1, ReadBack
  <2>4. w[x] = w1[x]
    BY <1>9, <2>1 DEF Agree
  <2>5. w[x] = Undef
    BY <2>1, <2>2, <2>3, <2>4
  <2>. QED BY <2>5 DEF x
<1>. HIDE DEF w
<1>15. Agree(mem, w, vtop)
  <2>1. vtop <= top /\ VLimit \in Nat
    BY <1>1, <1>2, StackAssumption
  <2>. HIDE DEF top
  <2>. QED BY <1>1, <1>2, <1>8, <1>9, <2>1 DEF Agree
<1>. HIDE DEF w1
<1>16. ActMem(w, c)
  BY <1>11, <1>14 DEF ActMem, Entered
<1>17. LiveBelow(w, End(c))
  BY <1>9, <1>13
<1>18. ActShape(c)
  <2>1. c.argc = Len(c.passed)
    BY <1>11
  <2>2. Code[c.body].gen
    BY <1>3, <1>11
  <2>3. End(c) <= VLimit
    BY <1>13
  <2>. QED BY <1>11, <2>1, <2>2, <2>3, NewAct
<1>19. vtop' \in Nat
  BY <1>2, <1>3
<1>20. Stacked(w, Append(acts, c)) /\ Settled(w, vtop', Append(acts, c))
  <2>1. c.kind # "direct"
    BY <1>11
  <2>. QED BY <1>9, <1>11, <1>15, <1>16, <1>17, <1>18, <1>19, <2>1, EngineStep
<1>. QED BY <1>3, <1>20 DEF Inv

\* Every entry from the engine.
LEMMA ReenterStep ==
    ASSUME Inv, Reenter
    PROVE  Inv'
<1>1. CanEnter
  BY DEF Reenter
<1>2. ASSUME NEW e \in Calls("engine", "resume"), EnterNightResume(e.to) PROVE Inv'
  <2>1. e.to \in DOMAIN Code
    BY EdgesAssumption DEF Calls
  <2>. QED BY <1>1, <1>2, <2>1, EnterResumeStep
<1>3. ASSUME NEW e \in Calls("engine", "call"), EnterNight(e.to, e.args) PROVE Inv'
  <2>1. e.to \in DOMAIN Code /\ e.args \in Seq(LiveValue)
    BY EdgesAssumption DEF Calls
  <2>. QED BY <1>1, <1>3, <2>1, EnterStep
<1>4. ASSUME NEW e \in Calls("engine", "call"), NightApplyOrCall(e.to, e.args) PROVE Inv'
  <2>. DEFINE t == e.to
              args == e.args
              n == Larger(Len(args), Code[t].nargs)
              s == Stage(t, args, n)
              h == SubSeq(s, 1, 1 + Len(args))
  <2>1. t \in DOMAIN Code /\ args \in Seq(LiveValue)
    BY EdgesAssumption DEF Calls
  <2>2. EnterNight(e.to, e.args) \/ (mem' = Write(mem, vtop, h) /\ UNCHANGED <<vtop, acts>>)
    BY <1>4 DEF NightApplyOrCall
  <2>. HIDE DEF t, args
  <2>3. Len(args) \in Nat /\ Code[t].nargs \in Nat
    BY <2>1, CodeAssumption
  <2>4. n \in Nat /\ Len(args) <= n
    BY <2>3 DEF Larger
  <2>. HIDE DEF n
  <2>5. s \in Seq(LiveValue) /\ Len(s) = 2 + n
    BY <2>1, <2>4, StageFacts
  <2>. HIDE DEF s
  <2>6. h \in Seq(LiveValue)
    <3>. DEFINE k == 1 + Len(args)
    <3>1. k \in Nat /\ k <= Len(s)
      BY <2>3, <2>4, <2>5
    <3>. HIDE DEF k
    <3>2. SubSeq(s, 1, k) \in Seq(LiveValue)
      BY <2>5, <3>1, HeadSeq
    <3>. QED BY <3>2 DEF k
  <2>. HIDE DEF h
  <2>. QED BY <1>1, <1>3, <2>2, <2>6, FailedEntryStep
<1>. QED BY <1>2, <1>3, <1>4 DEF Reenter

-----------------------------------------------------------------------------
(* A collection.                                                            *)

\* What a collection does to an activation: its operands' copies in
\* registers go stale.
Forwarded(a, b) ==
    /\ b \in ActType /\ SameFrame(a, b) /\ b.mode = a.mode /\ b.want = a.want /\ b.need = a.need /\ b.top = a.top
    /\ b.target = a.target /\ b.actuals = a.actuals /\ Len(b.ops) = Len(a.ops) /\ (a.ops = <<>> => b.ops = <<>>)
Forward(a) == [a EXCEPT !.ops = [k \in DOMAIN @ |-> Left(@[k])]]

\* Forward changes the operands only, and not their number.
LEMMA ForwardIs ==
    ASSUME NEW a \in ActType
    PROVE  Forwarded(a, Forward(a))
<1>. DEFINE ops == [k \in DOMAIN a.ops |-> Left(a.ops[k])]
            b == [a EXCEPT !.ops = ops]
<1>1. a.ops \in Seq(Value)
  BY Fields
<1>2. \A k \in DOMAIN a.ops : Left(a.ops[k]) \in Value
  BY <1>1, Values
<1>3. ops \in Seq(Value) /\ Len(ops) = Len(a.ops) /\ (a.ops = <<>> => ops = <<>>)
  BY <1>1, <1>2
<1>4. Forward(a) = b
  BY DEF Forward
<1>. HIDE DEF ops
<1>5. /\ b \in ActType /\ SameFrame(a, b) /\ b.mode = a.mode /\ b.want = a.want /\ b.need = a.need /\ b.top = a.top
      /\ b.target = a.target /\ b.actuals = a.actuals /\ b.ops = ops
  BY <1>3 DEF ActType, SameFrame
<1>. QED BY <1>3, <1>4, <1>5 DEF Forwarded

\* So shape, extent and memory of the activation stay as they were.
LEMMA ForwardKeeps ==
    ASSUME NEW a \in ActType, NEW b, Forwarded(a, b), NEW m
    PROVE  /\ End(b) = End(a) /\ (ActShape(a) => ActShape(b)) /\ (ActMem(m, a) => ActMem(m, b))
           /\ b.sp = a.sp /\ b.kind = a.kind /\ b.saved = a.saved /\ b.mode = a.mode /\ b.top = a.top /\ b \in ActType
<1>1. /\ b.body = a.body /\ b.sp = a.sp /\ b.argc = a.argc /\ b.passed = a.passed /\ b.wrote = a.wrote
      /\ b.segs = a.segs /\ b.kind = a.kind /\ b.saved = a.saved /\ SameFrame(a, b)
      /\ b.mode = a.mode /\ b.want = a.want /\ b.need = a.need /\ b.top = a.top /\ b \in ActType
      /\ b.target = a.target /\ b.actuals = a.actuals /\ Len(b.ops) = Len(a.ops) /\ (a.ops = <<>> => b.ops = <<>>)
  BY DEF Forwarded, SameFrame
<1>2. /\ RootView(b) = RootView(a) /\ View(b) = View(a) /\ Views(b) = Views(a) /\ (SegsNest(b) <=> SegsNest(a))
      /\ TopOff(b) = TopOff(a)
  <2>1. /\ RootView(b) = RootView(a) /\ View(b) = View(a) /\ Views(b) = Views(a) /\ (SegsNest(b) <=> SegsNest(a))
        /\ TopOff(b) = View(a).operands + Len(b.ops)
    BY <1>1, SameViews
  <2>. QED BY <1>1, <2>1 DEF TopOff
<1>3. End(b) = End(a)
  BY <1>1, <1>2 DEF End
<1>4. ActShape(a) => ActShape(b)
  <2>1. NoSurplus(a) => NoSurplus(b)
    BY <1>1 DEF NoSurplus
  <2>. QED BY <1>1, <1>2, <1>3, <2>1 DEF ActShape
<1>5. ActMem(m, a) => ActMem(m, b)
  <2>1. Entered(m, a) => Entered(m, b)
    BY <1>1 DEF Entered
  <2>2. Staged(m, a) => Staged(m, b)
    BY <1>1, <1>2 DEF Staged, StagedAt
  <2>. QED BY <1>1, <1>2, <2>1, <2>2 DEF ActMem
<1>. QED BY <1>1, <1>3, <1>4, <1>5

\* The same for all activations at once.
LEMMA ForwardStack ==
    ASSUME NEW m, NEW st, Stacked(m, st), NEW st2, st2 = [i \in DOMAIN st |-> Forward(st[i])]
    PROVE  Stacked(m, st2) /\ Len(st2) = Len(st) /\ Len(st) \in Nat /\ \A i \in 1..Len(st) : Forwarded(st[i], st2[i])
<1>1. st \in Seq(ActType) /\ m \in Mem
  BY DEF Stacked
<1>2. \A i \in 1..Len(st) : st[i] \in ActType /\ st2[i] = Forward(st[i])
  BY <1>1
<1>3. \A i \in 1..Len(st) : Forwarded(st[i], st2[i])
  BY <1>2, ForwardIs
<1>4. \A i \in 1..Len(st) : /\ End(st2[i]) = End(st[i]) /\ (ActShape(st[i]) => ActShape(st2[i]))
                            /\ (ActMem(m, st[i]) => ActMem(m, st2[i])) /\ st2[i] \in ActType
                            /\ st2[i].sp = st[i].sp /\ st2[i].kind = st[i].kind /\ st2[i].saved = st[i].saved
                            /\ st2[i].mode = st[i].mode /\ st2[i].top = st[i].top
  BY <1>2, <1>3, ForwardKeeps, ZenonT(60)
<1>5. st2 \in Seq(ActType) /\ Len(st2) = Len(st) /\ Len(st) \in Nat
  <2>1. st2 = [i \in 1..Len(st) |-> Forward(st[i])] /\ Len(st) \in Nat
    BY <1>1
  <2>2. \A i \in 1..Len(st) : Forward(st[i]) \in ActType
    BY <1>2, <1>4
  <2>. QED BY <2>1, <2>2
<1>. DEFINE N == Len(st)
<1>6. \A i \in 1..N : ActShape(st2[i]) /\ ActMem(m, st2[i])
  BY <1>4 DEF Stacked
<1>7. \A i \in 1..N : \A j \in 1..(i - 1) : End(st2[j]) <= st2[i].sp
  <2>. SUFFICES ASSUME NEW i \in 1..N, NEW j \in 1..(i - 1) PROVE End(st2[j]) <= st2[i].sp
    OBVIOUS
  <2>1. j \in 1..N
    BY <1>5
  <2>2. End(st[j]) <= st[i].sp
    BY DEF Stacked
  <2>. QED BY <1>4, <2>1, <2>2
<1>8. \A i \in 2..N : st2[i - 1].mode = IF st2[i].kind = "direct" THEN "call" ELSE "helper"
  <2>. SUFFICES ASSUME NEW i \in 2..N PROVE st2[i - 1].mode = IF st2[i].kind = "direct" THEN "call" ELSE "helper"
    OBVIOUS
  <2>. DEFINE j == i - 1
  <2>1. i \in 1..N /\ j \in 1..N
    BY <1>5
  <2>2. st[j].mode = IF st[i].kind = "direct" THEN "call" ELSE "helper"
    BY DEF Stacked
  <2>. HIDE DEF j
  <2>3. st2[j].mode = IF st2[i].kind = "direct" THEN "call" ELSE "helper"
    BY <1>4, <2>1, <2>2
  <2>. QED BY <2>3 DEF j
<1>9. \A i \in 1..N : IF st2[i].kind = "direct" THEN i > 1 ELSE st2[i].saved = IF i = 1 THEN 0 ELSE st2[i - 1].top
  <2>. SUFFICES ASSUME NEW i \in 1..N PROVE IF st2[i].kind = "direct" THEN i > 1 ELSE st2[i].saved = IF i = 1 THEN 0 ELSE st2[i - 1].top
    OBVIOUS
  <2>. DEFINE j == i - 1
  <2>1. i # 1 => j \in 1..N
    BY <1>5
  <2>2. IF st[i].kind = "direct" THEN i > 1 ELSE st[i].saved = IF i = 1 THEN 0 ELSE st[j].top
    BY DEF Stacked
  <2>. HIDE DEF j
  <2>3. IF st2[i].kind = "direct" THEN i > 1 ELSE st2[i].saved = IF i = 1 THEN 0 ELSE st2[j].top
    BY <1>4, <2>1, <2>2
  <2>. QED BY <2>3 DEF j
<1>10. Stacked(m, st2)
  BY <1>1, <1>5, <1>6, <1>7, <1>8, <1>9 DEF Stacked
<1>. QED BY <1>3, <1>5, <1>10

\* NightStack::trace: what is under the published top is forwarded, and
\* nothing above it is needed.
LEMMA TraceStep ==
    ASSUME Inv, trace
    PROVE  Inv'
<1>. DEFINE w == [i \in DOMAIN mem |-> IF i < vtop THEN mem[i] ELSE Left(mem[i])]
            st == [i \in DOMAIN acts |-> Forward(acts[i])]
<1>1. mem' = w /\ acts' = st /\ vtop' = vtop
  BY DEF trace, Forward
<1>2. Stacked(mem, acts) /\ Settled(mem, vtop, acts)
  BY DEF Inv
<1>3. mem \in Mem /\ vtop \in Nat /\ acts \in Seq(ActType)
  BY <1>2 DEF Stacked, Settled
<1>4. w \in Mem /\ Agree(mem, w, vtop)
  <2>1. \A i \in 0..VLimit : mem[i] \in Value /\ Left(mem[i]) \in Value
    BY <1>3, Values DEF Mem
  <2>. QED BY <1>3, <2>1 DEF Mem, Agree
<1>. HIDE DEF w
<1>5. /\ acts = <<>> => vtop = 0
      /\ acts # <<>> => acts[Len(acts)].mode = "helper" /\ acts[Len(acts)].top = vtop /\ End(acts[Len(acts)]) = vtop
                        /\ LiveBelow(mem, vtop)
  <2>1. acts # <<>> => Top.mode = "helper"
    BY DEF trace, InHelper
  <2>2. acts # <<>> => Top = acts[Len(acts)] /\ vtop = Top.top /\ LiveBelow(mem, End(Top))
    BY <2>1, TopFacts
  <2>3. acts # <<>> => End(Top) = Top.top
    BY <2>1, EndCases
  <2>. QED BY <1>2, <2>1, <2>2, <2>3 DEF Settled
<1>6. Stacked(w, acts)
  BY <1>2, <1>4, <1>5, MemStack
<1>7. Stacked(w, st) /\ Len(st) = Len(acts) /\ Len(acts) \in Nat /\ \A i \in 1..Len(acts) : Forwarded(acts[i], st[i])
  BY <1>6, ForwardStack
<1>8. Settled(w, vtop, st)
  <2>1. CASE acts = <<>>
    <3>1. st = <<>>
      BY <2>1
    <3>. QED BY <1>3, <1>5, <2>1, <3>1 DEF Settled
  <2>2. CASE acts # <<>>
    <3>. DEFINE n == Len(acts)
    <3>1. n \in 1..n /\ n \in Nat
      BY <1>3, <2>2
    <3>. HIDE DEF st
    <3>2. Forwarded(acts[n], st[n]) /\ acts[n] \in ActType
      BY <1>3, <1>7, <3>1
    <3>3. End(st[n]) = End(acts[n]) /\ st[n].mode = acts[n].mode /\ st[n].top = acts[n].top
      BY <3>2, ForwardKeeps
    <3>4. LiveBelow(w, vtop)
      BY <1>4, <1>5, <2>2 DEF LiveBelow, Agree
    <3>5. st[n].mode = "helper" /\ st[n].top = vtop /\ End(st[n]) = vtop
      BY <1>5, <2>2, <3>3
    <3>6. st # <<>> /\ Len(st) = n
      BY <1>7, <3>1
    <3>. HIDE DEF n
    <3>. QED BY <1>3, <3>4, <3>5, <3>6 DEF Settled
  <2>. QED BY <2>1, <2>2
<1>. QED BY <1>1, <1>7, <1>8 DEF Inv

-----------------------------------------------------------------------------
(* Returns.                                                                 *)

\* What is left when the innermost activation goes: its caller's part of
\* the stack is live.
LEMMA BelowFacts ==
    ASSUME Inv, acts # <<>>
    PROVE  /\ Stacked(mem, Below)
           /\ Top.kind = "direct" => Below # <<>> /\ Below[Len(Below)].mode = "call"
           /\ Top.kind # "direct" /\ Below = <<>> => Top.saved = 0
           /\ Top.kind # "direct" /\ Below # <<>> => Below[Len(Below)].mode = "helper" /\ Below[Len(Below)].top = Top.saved
           /\ Below # <<>> => /\ Below[Len(Below)] \in ActType /\ ActShape(Below[Len(Below)])
                              /\ LiveBelow(mem, End(Below[Len(Below)]))
                              /\ Len(acts) - 1 \in DOMAIN acts /\ acts[Len(acts) - 1] = Below[Len(Below)]
<1>. DEFINE N == Len(acts)
            j == N - 1
<1>1. /\ Stacked(mem, acts) /\ Top = acts[N] /\ Top \in ActType /\ ActShape(Top) /\ acts \in Seq(ActType)
      /\ LiveBelow(mem, End(Top))
  BY TopFacts
<1>2. Stacked(mem, Below)
  BY <1>1, PopStack DEF Below
<1>3. Below \in Seq(ActType) /\ Len(Below) = j /\ N \in Nat /\ N >= 1 /\ \A i \in 1..j : Below[i] = acts[i]
  BY <1>1, PopSeq DEF Below
<1>4. N \in 1..N /\ (Below = <<>> <=> N = 1)
  BY <1>3
<1>5. /\ Top.kind = "direct" => N > 1
      /\ Top.kind # "direct" => Top.saved = IF N = 1 THEN 0 ELSE acts[j].top
  BY <1>1, <1>4 DEF Stacked
<1>6. ASSUME N # 1
      PROVE  /\ Below[j] = acts[j] /\ acts[j] \in ActType /\ ActShape(acts[j]) /\ j \in 1..N
             /\ acts[j].mode = IF Top.kind = "direct" THEN "call" ELSE "helper"
             /\ LiveBelow(mem, End(acts[j]))
  <2>1. N \in 2..N /\ j \in 1..N /\ j \in 1..j
    BY <1>3, <1>6
  <2>2. acts[j].mode = IF acts[N].kind = "direct" THEN "call" ELSE "helper"
    BY <1>1, <2>1 DEF Stacked
  <2>3. End(acts[j]) <= acts[N].sp
    BY <1>1, <1>4, <2>1 DEF Stacked
  <2>4. acts[j] \in ActType /\ ActShape(acts[j])
    BY <1>1, <2>1 DEF Stacked
  <2>. HIDE DEF j
  <2>. DEFINE a == acts[j]
              c == acts[N]
  <2>5. End(a) \in Nat
    BY <2>4, EndFacts
  <2>6. End(c) \in Nat /\ c.sp <= End(c) /\ c.sp \in Nat
    BY <1>1, EndFacts, Fields
  <2>7. LiveBelow(mem, End(c))
    BY <1>1
  <2>8. End(a) <= End(c)
    BY <2>3, <2>5, <2>6
  <2>. HIDE DEF a, c
  <2>9. LiveBelow(mem, End(a))
    BY <2>5, <2>6, <2>7, <2>8, LiveLess
  <2>. QED BY <1>1, <1>3, <2>1, <2>2, <2>4, <2>9 DEF a
<1>7. Below # <<>> => /\ Below[Len(Below)] = acts[j] /\ j \in 1..N
  BY <1>3, <1>4, <1>6
<1>8. DOMAIN acts = 1..N
  BY <1>1
<1>. QED BY <1>2, <1>3, <1>4, <1>5, <1>6, <1>7, <1>8

\* AutoNightReentry: the engine gets its top back.
LEMMA LeaveStep ==
    ASSUME Inv, acts # <<>>, Top.kind # "direct", Leave(mem)
    PROVE  Inv'
<1>1. mem' = mem /\ acts' = Below /\ vtop' = Top.saved
  BY DEF Leave
<1>2. Stacked(mem, Below)
  BY BelowFacts
<1>3. Top.saved \in Nat
  BY TopFacts, Fields
<1>4. Below = <<>> => Top.saved = 0
  BY BelowFacts
<1>5. Below # <<>> => Below[Len(Below)].mode = "helper" /\ Below[Len(Below)].top = Top.saved /\ LiveBelow(mem, End(Below[Len(Below)]))
  BY BelowFacts
<1>6. Settled(mem, Top.saved, Below)
  BY <1>3, <1>4, <1>5 DEF Settled
<1>. QED BY <1>1, <1>2, <1>6 DEF Inv

\* The caller of the innermost activation, waiting in a call.
LEMMA CallerFacts ==
    ASSUME Inv, acts # <<>>, Top.kind = "direct", NEW a, a = Below[Len(Below)]
    PROVE  /\ Stacked(mem, Below) /\ Below # <<>> /\ a \in ActType /\ ActShape(a) /\ a.mode = "call"
           /\ View(a).operands \in Nat /\ TopOff(a) \in Nat /\ View(a).operands <= TopOff(a)
           /\ LiveBelow(mem, View(a).operands) /\ LiveBelow(mem, TopOff(a) - a.need) /\ TopOff(a) - a.need \in Nat
           /\ WithinLimit => TopOff(a) < VLimit
<1>1. /\ Stacked(mem, Below) /\ Below # <<>> /\ a \in ActType /\ ActShape(a) /\ a.mode = "call" /\ LiveBelow(mem, End(a))
      /\ Len(acts) - 1 \in DOMAIN acts /\ acts[Len(acts) - 1] = a
  BY BelowFacts
<1>2. End(a) = TopOff(a) - a.need
  BY <1>1, EndCases
<1>3. SegsNest(a) /\ End(a) \in Nat /\ View(a).operands <= End(a)
  BY <1>1, EndFacts
<1>4. View(a).operands \in Nat /\ TopOff(a) \in Nat /\ TopOff(a) = View(a).operands + Len(a.ops)
  BY <1>1, <1>3, ViewFacts
<1>5. Len(a.ops) \in Nat
  <2>1. a.ops \in Seq(Value)
    BY <1>1, Fields
  <2>. QED BY <2>1
<1>6. View(a).operands <= TopOff(a)
  <2>. DEFINE o == View(a).operands
              n == Len(a.ops)
  <2>1. o \in Nat /\ n \in Nat /\ TopOff(a) = o + n
    BY <1>4, <1>5
  <2>. HIDE DEF o, n
  <2>2. o <= TopOff(a)
    BY <2>1
  <2>. QED BY <2>2 DEF o
<1>7. LiveBelow(mem, View(a).operands)
  BY <1>1, <1>3, <1>4, LiveLess
<1>8. WithinLimit => TopOff(a) < VLimit
  BY <1>1 DEF WithinLimit, Started
<1>. QED BY <1>1, <1>2, <1>3, <1>4, <1>6, <1>7, <1>8

\* A call returns: the result is in the slot over the caller's operands.
LEMMA DirectReturnStep ==
    ASSUME Inv, WithinLimit, acts # <<>>, Top.kind = "direct", NEW v \in LiveValue, NEW a, a = Below[Len(Below)],
           mem' = Put(mem, TopOff(a), v), UNCHANGED vtop, acts' = Swapped(Below, Continue(mem', a))
    PROVE  Inv'
<1>. DEFINE x == TopOff(a)
            w == Put(mem, x, v)
            o == View(a).operands
            e == TopOff(a) - a.need
<1>1. /\ Stacked(mem, Below) /\ Below # <<>> /\ a \in ActType /\ a.mode = "call" /\ o \in Nat /\ x \in Nat /\ o <= x
      /\ LiveBelow(mem, o) /\ LiveBelow(mem, e) /\ e \in Nat /\ x < VLimit
  BY CallerFacts
<1>2. mem \in Mem /\ vtop \in Nat
  BY TopFacts
<1>3. mem' = w /\ acts' = Swapped(Below, Continue(w, a)) /\ vtop' = vtop
  OBVIOUS
<1>. HIDE DEF x, o, e
<1>4. w \in Mem /\ Agree(mem, w, o) /\ LiveBelow(w, e) /\ w[x] = v
  <2>1. /\ w \in Mem /\ \A k \in 0..VLimit : w[k] = IF k = x THEN v ELSE mem[k]
        /\ \A n \in Nat : n <= x => Agree(mem, w, n)
        /\ \A n \in Nat : LiveBelow(mem, n) => LiveBelow(w, n)
    BY <1>1, <1>2, PutLive
  <2>2. x \in 0..VLimit
    BY <1>1, StackAssumption
  <2>. QED BY <1>1, <2>1, <2>2
<1>. HIDE DEF w
<1>5. Stacked(w, Swapped(Below, Continue(w, a))) /\ Settled(w, vtop, Swapped(Below, Continue(w, a)))
  <2>1. Agree(mem, w, View(a).operands) /\ LiveBelow(w, TopOff(a) - a.need) /\ w[TopOff(a)] \in LiveValue /\ TopOff(a) < VLimit
        /\ LiveBelow(mem, View(a).operands)
    BY <1>1, <1>4 DEF x, o, e
  <2>. QED BY <1>1, <1>2, <1>4, <2>1, ContinueStep
<1>. QED BY <1>3, <1>5 DEF Inv

\* A call fails and the caller catches the error.
LEMMA CallerCatchesStep ==
    ASSUME Inv, acts # <<>>, Top.kind = "direct", NEW a, a = Below[Len(Below)],
           UNCHANGED <<mem, vtop>>, acts' = Swapped(Below, [a EXCEPT !.mode = "run", !.ops = <<>>])
    PROVE  Inv'
<1>. DEFINE b == [a EXCEPT !.mode = "run", !.ops = <<>>]
<1>1. Stacked(mem, Below) /\ Below # <<>> /\ a \in ActType /\ a.mode = "call" /\ LiveBelow(mem, View(a).operands)
  BY CallerFacts
<1>2. mem \in Mem /\ vtop \in Nat
  BY TopFacts
<1>3. b \in ActType /\ SameFrame(a, b) /\ b.mode = "run" /\ b.ops = <<>>
  <2>1. a \in ActType /\ <<>> \in Seq(Value)
    BY <1>1
  <2>. QED BY <2>1 DEF ActType, SameFrame
<1>4. acts' = Swapped(Below, b) /\ mem' = mem /\ vtop' = vtop
  OBVIOUS
<1>. HIDE DEF b
<1>5. OpsLive(b) /\ Agree(mem, mem, View(a).operands)
  BY <1>3 DEF OpsLive, Agree
<1>6. Stacked(mem, Swapped(Below, b)) /\ Settled(mem, vtop, Swapped(Below, b))
  BY <1>1, <1>2, <1>3, <1>5, RunStep
<1>. QED BY <1>4, <1>6 DEF Inv

\* An error leaves every splice of the frame.
LEMMA ThrowsStep ==
    ASSUME Inv, acts # <<>>, Throws
    PROVE  Inv'
<1>1. CASE Top.kind # "direct"
  BY <1>1, LeaveStep DEF Throws
<1>2. CASE Top.kind = "direct"
  <2>. DEFINE a == Below[Len(Below)]
  <2>1. UNCHANGED <<mem, vtop>> /\ acts' = Swapped(Below, [a EXCEPT !.mode = "run", !.ops = <<>>])
    BY <1>2 DEF Throws, Swapped
  <2>. QED BY <1>2, <2>1, CallerCatchesStep
<1>. QED BY <1>1, <1>2

\* Without its innermost splice an activation keeps its other frames.
Unspliced(a, b) ==
    /\ b \in ActType /\ b.segs = SubSeq(a.segs, 1, Len(a.segs) - 1) /\ b.body = a.body /\ b.sp = a.sp /\ b.argc = a.argc
    /\ b.passed = a.passed /\ (b.wrote <=> a.wrote) /\ b.kind = a.kind /\ b.saved = a.saved /\ b.mode = a.mode
\* The frames left are among those it had, and nest.
LEMMA SegPop ==
    ASSUME NEW a \in ActType, SegsNest(a), a.segs # <<>>, NEW b, Unspliced(a, b)
    PROVE  SegsNest(b) /\ \A v \in Views(b) : v \in Views(a)
<1>. DEFINE N == Len(a.segs)
            n == N - 1
<1>1. a.segs \in Seq(SegType) /\ a.wrote \in BOOLEAN /\ b.wrote \in BOOLEAN
  BY DEF ActType, Unspliced
<1>2. b.segs \in Seq(SegType) /\ Len(b.segs) = n /\ N \in Nat /\ N >= 1 /\ \A i \in 1..n : b.segs[i] = a.segs[i]
  BY <1>1, PopSeq DEF Unspliced
<1>3. RootView(b) = RootView(a)
  BY <1>1 DEF RootView, vp, Unspliced
<1>4. \A i \in 1..n : i \in 1..N
  BY <1>2
<1>5. SegsNest(b)
  <2>. SUFFICES ASSUME NEW i \in 1..Len(b.segs)
                PROVE  /\ RootView(b).operands <= b.segs[i].base
                       /\ \A j \in 1..(i - 1) : enter_frame_view(b.segs[j]).operands <= b.segs[i].base
                       /\ b.segs[i].operands + b.segs[i].depth <= b.segs[i].base
    BY DEF SegsNest
  <2>1. i \in 1..n /\ i \in 1..N /\ b.segs[i] = a.segs[i]
    BY <1>2, <1>4
  <2>2. \A j \in 1..(i - 1) : j \in 1..n /\ b.segs[j] = a.segs[j]
    BY <1>2, <2>1
  <2>3. /\ RootView(a).operands <= a.segs[i].base
        /\ \A j \in 1..(i - 1) : enter_frame_view(a.segs[j]).operands <= a.segs[i].base
        /\ a.segs[i].operands + a.segs[i].depth <= a.segs[i].base
    BY <2>1 DEF SegsNest
  <2>. QED BY <1>3, <2>1, <2>2, <2>3
<1>6. ASSUME NEW v \in Views(b) PROVE v \in Views(a)
  <2>1. CASE v = RootView(b)
    BY <1>3, <2>1 DEF Views
  <2>2. CASE v # RootView(b)
    <3>1. PICK i \in DOMAIN b.segs : v = enter_frame_view(b.segs[i])
      BY <2>2 DEF Views
    <3>2. i \in 1..n /\ i \in 1..N
      BY <1>2, <1>4
    <3>3. v = enter_frame_view(a.segs[i]) /\ i \in DOMAIN a.segs
      BY <1>1, <1>2, <3>1, <3>2
    <3>. QED BY <3>3 DEF Views
  <2>. QED BY <2>1, <2>2
<1>. QED BY <1>5, <1>6

\* Slots under the live part of the stack are read back live.
LEMMA ReadLive ==
    ASSUME NEW m \in Mem, NEW from \in Nat, NEW n \in Nat, NEW e \in Nat, from + n <= e, e <= VLimit, LiveBelow(m, e)
    PROVE  ReadSlots(m, from, n) \in Seq(LiveValue) /\ Len(ReadSlots(m, from, n)) = n
<1>1. from + n <= VLimit + 1
  BY StackAssumption
<1>2. /\ ReadSlots(m, from, n) \in Seq(Value) /\ Len(ReadSlots(m, from, n)) = n
      /\ \A i \in 1..n : from + i - 1 \in 0..VLimit /\ ReadSlots(m, from, n)[i] = m[from + i - 1]
  BY <1>1, ReadFacts
<1>3. \A i \in 1..n : from + i - 1 < e
  OBVIOUS
<1>. DEFINE vs == ReadSlots(m, from, n)
<1>. HIDE DEF vs
<1>4. vs \in Seq(Value) /\ Len(vs) = n /\ \A i \in 1..n : from + i - 1 \in 0..VLimit /\ vs[i] = m[from + i - 1]
  BY <1>2 DEF vs
<1>5. \A i \in DOMAIN vs : vs[i] \in LiveValue
  BY <1>3, <1>4 DEF LiveBelow
<1>6. vs \in Seq(LiveValue)
  BY <1>4, <1>5, LiveSeq
<1>. QED BY <1>4, <1>6 DEF vs

\* A spliced callee returns: the caller's operands are where the splice left
\* them.
LEMMA SpliceReturnStep ==
    ASSUME Inv, InRun, Top.segs # <<>>, NEW v \in LiveValue, SpliceReturn(v)
    PROVE  Inv'
<1>. DEFINE s == Top.segs[Len(Top.segs)]
            rd == ReadSlots(mem, s.operands, s.depth)
            ops == Append(rd, v)
            sg == SubSeq(Top.segs, 1, Len(Top.segs) - 1)
            b == [Top EXCEPT !.segs = sg, !.ops = ops]
<1>0. acts # <<>> /\ Top.mode = "run"
  BY DEF InRun
<1>1. /\ Stacked(mem, acts) /\ Top = acts[Len(acts)] /\ mem \in Mem /\ Top \in ActType /\ ActShape(Top) /\ SegsNest(Top)
      /\ vtop \in Nat /\ ActMem(mem, Top) /\ LiveBelow(mem, View(Top).operands) /\ View(Top).operands \in Nat
      /\ View(Top).operands <= VLimit
  BY <1>0, TopFacts
<1>2. mem' = mem /\ vtop' = vtop /\ acts' = Swapped(acts, b)
  BY WithIs DEF SpliceReturn
<1>3. Top.segs \in Seq(SegType) /\ sg \in Seq(SegType) /\ Len(Top.segs) \in Nat /\ Len(Top.segs) >= 1
  <2>1. Top.segs \in Seq(SegType)
    BY <1>1, Fields
  <2>. QED BY <2>1, PopSeq
<1>4. Len(Top.segs) \in 1..Len(Top.segs)
  BY <1>3
<1>5. s \in SegType /\ s.operands + s.depth <= s.base
  BY <1>1, <1>3, <1>4 DEF SegsNest
<1>6. View(Top) = enter_frame_view(s)
  BY DEF View
<1>. HIDE DEF s
<1>7. s.operands \in Nat /\ s.depth \in Nat /\ s.base \in Nat
  BY <1>5 DEF SegType
<1>8. View(Top).base = s.base /\ View(Top).base <= View(Top).operands
  <2>1. View(Top).base = s.base
    BY <1>5, <1>6, SegShape
  <2>2. View(Top).base + 3 <= View(Top).operands
    BY <1>1, ViewFacts
  <2>. QED BY <1>1, <1>7, <2>1, <2>2
<1>9. rd \in Seq(LiveValue)
  <2>. DEFINE f == s.operands
              n == s.depth
              e == View(Top).operands
  <2>1. f \in Nat /\ n \in Nat /\ e \in Nat /\ f + n <= e /\ e <= VLimit /\ LiveBelow(mem, e) /\ rd = ReadSlots(mem, f, n)
    BY <1>1, <1>5, <1>7, <1>8
  <2>. HIDE DEF f, n, e, rd
  <2>. QED BY <1>1, <2>1, ReadLive
<1>. HIDE DEF rd
<1>10. ops \in Seq(LiveValue)
  BY <1>9
<1>. HIDE DEF ops, sg
<1>11. ops \in Seq(Value) /\ \A k \in DOMAIN ops : ops[k] \in LiveValue
  BY <1>10, LiveSeqValue
<1>12. /\ b \in ActType /\ b.segs = sg /\ b.body = Top.body /\ b.sp = Top.sp /\ b.argc = Top.argc /\ b.passed = Top.passed
       /\ (b.wrote <=> Top.wrote) /\ b.kind = Top.kind /\ b.saved = Top.saved /\ b.mode = Top.mode /\ b.ops = ops
  <2>1. Top \in ActType /\ sg \in Seq(SegType) /\ ops \in Seq(Value)
    BY <1>1, <1>3, <1>11
  <2>. QED BY <2>1 DEF ActType
<1>. HIDE DEF b
<1>13. Unspliced(Top, b)
  BY <1>12 DEF Unspliced, sg
<1>14. SegsNest(b) /\ \A x \in Views(b) : x \in Views(Top)
  BY <1>1, <1>13, SegPop
<1>15. View(b) \in Views(b) /\ View(b).operands \in Nat
  BY <1>12, <1>14, ViewFacts
<1>16. View(b).operands <= View(Top).operands
  BY <1>1, <1>14, <1>15, ViewFacts
<1>17. End(b) = View(b).operands /\ End(b) <= VLimit /\ LiveBelow(mem, End(b))
  <2>. DEFINE o == View(b).operands
              o2 == View(Top).operands
  <2>1. o \in Nat /\ o2 \in Nat /\ o <= o2 /\ o2 <= VLimit /\ LiveBelow(mem, o2)
    BY <1>1, <1>15, <1>16
  <2>2. End(b) = o
    BY <1>0, <1>12, EndCases
  <2>. HIDE DEF o, o2
  <2>3. o <= VLimit /\ LiveBelow(mem, o)
    BY <2>1, LiveLess, StackAssumption
  <2>. QED BY <2>2, <2>3 DEF o
<1>18. ActShape(b)
  <2>1. Top.argc = Len(Top.passed) /\ (Top.kind = "resume" => Top.passed = <<>> /\ Code[Top.body].gen)
    BY <1>1 DEF ActShape
  <2>. QED BY <1>0, <1>12, <1>14, <1>17, <2>1 DEF ActShape
<1>19. ActMem(mem, b)
  <2>1. ~RawSurplus => \A x \in Views(Top) : ViewHolds(mem, x)
    BY <1>0, <1>1 DEF ActMem
  <2>. QED BY <1>0, <1>12, <1>14, <2>1 DEF ActMem
<1>20. OpsLive(b) /\ Agree(mem, mem, b.sp) /\ b.mode = "run"
  BY <1>0, <1>11, <1>12 DEF OpsLive, Agree
<1>21. b.sp = acts[Len(acts)].sp /\ b.kind = acts[Len(acts)].kind /\ b.saved = acts[Len(acts)].saved
  BY <1>1, <1>12
<1>22. b \in ActType /\ b.mode # "call" /\ b.mode # "helper"
  BY <1>12, <1>20
<1>23. Stacked(mem, acts) /\ mem \in Mem /\ vtop \in Nat
  BY <1>1
<1>24. Stacked(mem, Swapped(acts, b)) /\ Settled(mem, vtop, Swapped(acts, b))
  BY <1>0, <1>17, <1>18, <1>19, <1>20, <1>21, <1>22, <1>23, SwapInv
<1>. QED BY <1>2, <1>24 DEF Inv

\* Every return of a body.
LEMMA ReturnStep ==
    ASSUME Inv, WithinLimit, InRun, emit_return_value(Ptr(9))
    PROVE  Inv'
<1>. DEFINE v == Ptr(9)
<1>0. acts # <<>> /\ v \in LiveValue
  BY Values DEF InRun
<1>. HIDE DEF v
<1>1. emit_return_value(v)
  BY DEF v
<1>2. CASE Top.segs # <<>>
  BY <1>0, <1>1, <1>2, SpliceReturnStep DEF emit_return_value
<1>3. CASE Top.segs = <<>> /\ Top.kind # "direct"
  BY <1>0, <1>1, <1>3, LeaveStep DEF emit_return_value
<1>4. CASE Top.segs = <<>> /\ Top.kind = "direct"
  <2>. DEFINE a == Below[Len(Below)]
  <2>1. mem' = Put(mem, TopOff(a), v) /\ vtop' = vtop /\ acts' = Swapped(Below, Continue(mem', a))
    BY <1>1, <1>4 DEF emit_return_value, Put, Swapped
  <2>. QED BY <1>0, <1>4, <2>1, DirectReturnStep
<1>. QED BY <1>2, <1>3, <1>4

\* Everything that comes back.
LEMMA BackStep ==
    ASSUME Inv, WithinLimit, Back, WithinLimit'
    PROVE  Inv'
<1>1. CASE InHelper /\ HelperReturn(Ptr(9))
  BY <1>1, HelperReturnStep
<1>2. CASE InHelper /\ acts' = With([Top EXCEPT !.mode = "run", !.ops = <<>>]) /\ UNCHANGED <<mem, vtop>>
  BY <1>2, CaughtStep
<1>3. CASE InRun /\ emit_return_value(Ptr(9))
  BY <1>3, ReturnStep
<1>4. CASE (InRun \/ InHelper) /\ Throws
  BY <1>4, ThrowsStep DEF InRun, InHelper
<1>. QED BY <1>1, <1>2, <1>3, <1>4 DEF Back

\* Everything a running body does.
LEMMA WorkStep ==
    ASSUME Inv, Work, WithinLimit'
    PROVE  Inv'
<1>0. InRun /\ vtop' <= VLimit
  BY DEF Work, WithinLimit
<1>1. \A how : \A e \in Calls(View(Top).body, how) : e.to \in DOMAIN Code /\ e.args \in Seq(LiveValue)
  BY EdgesAssumption DEF Calls
<1>2. CASE HelperCall(Top, <<>>, 0, "op")
  <2>. DEFINE more == <<>>
              z == 0
  <2>1. more \in Seq(LiveValue) /\ z \in Nat /\ z <= Len(more) /\ HelperCall(Top, more, z, "op")
    BY <1>2
  <2>. HIDE DEF more, z
  <2>. QED BY <1>0, <2>1, HelperCallStep
<1>3. ASSUME NEW e \in Calls(View(Top).body, "call"), DirectCall(e.to, e.args) PROVE Inv'
  BY <1>0, <1>1, <1>3, DirectCallStep
<1>4. ASSUME NEW e \in Calls(View(Top).body, "new"), DirectConstruct(e.to, e.args) PROVE Inv'
  BY <1>0, <1>1, <1>4, DirectConstructStep
<1>5. ASSUME NEW e \in Calls(View(Top).body, "splice"), Spliceable(e.to, e.args), emit_inline_call(e.to, e.args) PROVE Inv'
  BY <1>0, <1>1, <1>5, InlineCallStep
<1>6. ASSUME NEW e \in Calls(View(Top).body, "splice new"), Spliceable(e.to, e.args), emit_inline_construct(e.to, e.args) PROVE Inv'
  BY <1>0, <1>1, <1>6, InlineConstructStep
<1>7. CASE acts' = With([Top EXCEPT !.ops = Append(@, Ptr(6))]) /\ UNCHANGED <<mem, vtop>>
  BY <1>0, <1>7, PushOperandStep
<1>8. CASE /\ Code[View(Top).body].nlocals > 0
           /\ mem' = [mem EXCEPT ![View(Top).locals] = Ptr(6)]
           /\ acts' = With(IF Top.segs = <<>> THEN [Top EXCEPT !.wrote = TRUE]
                           ELSE [Top EXCEPT !.segs[Len(Top.segs)].wrote = TRUE])
           /\ UNCHANGED vtop
  BY <1>0, <1>8, WriteLocalStep
<1>. QED BY <1>2, <1>3, <1>4, <1>5, <1>6, <1>7, <1>8 DEF Work

-----------------------------------------------------------------------------
(* The invariant and what it gives.                                         *)

\* The empty stack.
LEMMA InvInit == VsInit => Inv
<1>. SUFFICES ASSUME VsInit PROVE Inv
  OBVIOUS
<1>1. mem = [i \in 0..VLimit |-> Undef] /\ vtop = 0 /\ acts = <<>>
  BY DEF VsInit
<1>2. mem \in Mem /\ acts \in Seq(ActType)
  BY <1>1, Values DEF Mem
<1>3. Stacked(mem, acts)
  BY <1>1, <1>2 DEF Stacked
<1>4. Settled(mem, vtop, acts)
  BY <1>1 DEF Settled
<1>. QED BY <1>3, <1>4 DEF Inv

\* Every step keeps the invariant, one case per action.
LEMMA InvStep == Inv /\ WithinLimit /\ WithinLimit' /\ [VsNext]_vsVars => Inv'
<1>. SUFFICES ASSUME Inv, WithinLimit, WithinLimit', [VsNext]_vsVars PROVE Inv'
  OBVIOUS
<1>1. CASE Reenter
  BY <1>1, ReenterStep
<1>2. CASE Work
  BY <1>2, WorkStep
<1>3. CASE trace
  BY <1>3, TraceStep
<1>4. CASE Begin
  BY <1>4, BeginStep
<1>5. CASE Back
  BY <1>5, BackStep
<1>6. CASE UNCHANGED vsVars
  <2>1. mem' = mem /\ vtop' = vtop /\ acts' = acts
    BY <1>6 DEF vsVars
  <2>. QED BY <2>1 DEF Inv
<1>. QED BY <1>1, <1>2, <1>3, <1>4, <1>5, <1>6 DEF VsNext

\* Every slot of a frame in flight is live: frames end under the innermost
\* activation's End.
LEMMA FramesLive ==
    ASSUME Inv, NEW i \in Started, NEW v \in Views(acts[i]), NEW k \in v.base..(v.operands - 1)
    PROVE  mem[k] \in LiveValue
<1>. DEFINE N == Len(acts)
            a == acts[i]
<1>1. acts # <<>> /\ i \in DOMAIN acts /\ a.mode # "entry"
  BY DEF Started
<1>2. /\ Stacked(mem, acts) /\ Top = acts[N] /\ Top \in ActType /\ ActShape(Top) /\ acts \in Seq(ActType)
      /\ LiveBelow(mem, End(Top))
  BY <1>1, TopFacts
<1>3. i \in 1..N /\ N \in Nat
  BY <1>1, <1>2
<1>4. a \in ActType /\ ActShape(a)
  BY <1>2, <1>3 DEF Stacked
<1>5. End(a) \in Nat /\ SegsNest(a) /\ v.operands <= End(a)
  BY <1>1, <1>4, EndFacts
<1>6. ViewShape(v)
  BY <1>4, <1>5, ViewFacts
<1>7. v.base \in Nat /\ v.operands \in Nat
  BY <1>6 DEF ViewShape
<1>8. End(Top) \in Nat /\ Top.sp <= End(Top) /\ End(Top) <= VLimit /\ Top.sp \in Nat
  BY <1>2, EndFacts, Fields
<1>9. End(a) <= End(Top)
  <2>1. CASE i = N
    BY <1>2, <1>8, <2>1
  <2>2. CASE i # N
    <3>1. N \in 1..N /\ i \in 1..(N - 1)
      BY <1>3, <2>2
    <3>2. End(acts[i]) <= acts[N].sp
      BY <1>2, <3>1 DEF Stacked
    <3>. QED BY <1>2, <1>5, <1>8, <3>2
  <2>. QED BY <2>1, <2>2
<1>. DEFINE e == End(Top)
            o == v.operands
            f == v.base
<1>10. f \in Nat /\ o \in Nat /\ e \in Nat /\ o <= e /\ e <= VLimit /\ VLimit \in Nat /\ k \in f..(o - 1)
  BY <1>5, <1>7, <1>8, <1>9, StackAssumption
<1>. HIDE DEF e, o, f
<1>11. k \in 0..VLimit /\ k < e
  BY <1>10
<1>. QED BY <1>2, <1>11 DEF LiveBelow, e

\* All that is traced or used is live.
LEMMA InvRooted == Inv => Rooted
<1>. SUFFICES ASSUME Inv PROVE Rooted
  OBVIOUS
<1>1. \A v \in LiveValue : v[1] # "s"
  BY Values
<1>2. TracedValid
  <2>. SUFFICES ASSUME acts = <<>> \/ InHelper, NEW i \in 0..(vtop - 1) PROVE mem[i][1] # "s"
    BY DEF TracedValid
  <2>1. Settled(mem, vtop, acts)
    BY DEF Inv
  <2>2. CASE acts = <<>>
    <3>1. vtop = 0
      BY <2>1, <2>2 DEF Settled
    <3>. QED BY <3>1
  <2>3. CASE acts # <<>>
    <3>1. Top.mode = "helper"
      BY <2>3 DEF InHelper
    <3>2. Top \in ActType /\ ActShape(Top) /\ vtop \in Nat /\ vtop = Top.top /\ LiveBelow(mem, End(Top))
      BY <2>3, <3>1, TopFacts
    <3>3. End(Top) = vtop
      BY <3>1, <3>2, EndCases
    <3>4. vtop <= VLimit
      BY <3>2, <3>3, EndFacts
    <3>5. i \in 0..VLimit /\ i < vtop
      BY <3>2, <3>4, StackAssumption
    <3>6. mem[i] \in LiveValue
      BY <3>2, <3>3, <3>5 DEF LiveBelow
    <3>. QED BY <1>1, <3>6
  <2>. QED BY <2>2, <2>3
<1>3. NothingStale
  <2>1. ASSUME NEW i \in Started, NEW v \in Views(acts[i]), NEW k \in v.base..(v.operands - 1) PROVE mem[k][1] # "s"
    BY <1>1, FramesLive
  <2>2. ASSUME InRun, NEW k \in DOMAIN Top.ops PROVE Top.ops[k][1] # "s"
    <3>1. acts # <<>> /\ Top.mode = "run"
      BY <2>2 DEF InRun
    <3>2. OpsLive(Top)
      BY <3>1, TopFacts
    <3>. QED BY <1>1, <3>2 DEF OpsLive
  <2>. QED BY <2>1, <2>2 DEF NothingStale
<1>. QED BY <1>2, <1>3 DEF Rooted

\* The published top is the innermost helper's.
LEMMA InvTop == Inv => TopIsBack
<1>. SUFFICES ASSUME Inv PROVE TopIsBack
  OBVIOUS
<1>1. InHelper => vtop = Top.top
  BY TopFacts DEF InHelper
<1>2. acts = <<>> => vtop = 0
  BY DEF Inv, Settled
<1>. QED BY <1>1, <1>2 DEF TopIsBack

\* Frames start over what their callers need.
LEMMA InvNested == Inv => Nested
<1>. SUFFICES ASSUME Inv, NEW i \in 1..(Len(acts) - 1)
              PROVE  /\ acts[i].mode = IF acts[i + 1].kind = "direct" THEN "call" ELSE "helper"
                     /\ acts[i + 1].sp >= TopOff(acts[i]) - acts[i].need
  BY DEF Nested
<1>. DEFINE N == Len(acts)
            j == i + 1
<1>1. Stacked(mem, acts)
  BY DEF Inv
<1>2. acts \in Seq(ActType)
  BY <1>1 DEF Stacked
<1>3. i \in 1..N /\ j \in 1..N /\ j \in 2..N /\ j - 1 = i /\ i \in 1..(j - 1)
  BY <1>2
<1>. HIDE DEF j
<1>4. acts[i].mode = IF acts[j].kind = "direct" THEN "call" ELSE "helper"
  BY <1>1, <1>3 DEF Stacked
<1>5. End(acts[i]) <= acts[j].sp
  BY <1>1, <1>3 DEF Stacked
<1>6. acts[i] \in ActType /\ ActShape(acts[i]) /\ acts[j] \in ActType
  BY <1>1, <1>2, <1>3 DEF Stacked
<1>. DEFINE a == acts[i]
<1>7. a.mode \in {"helper", "call"}
  BY <1>4
<1>8. End(a) \in Nat /\ SegsNest(a) /\ TopOff(a) - a.need <= End(a)
  BY <1>6, <1>7, EndFacts
<1>9. TopOff(a) \in Nat /\ a.need \in Nat /\ acts[j].sp \in Nat
  BY <1>6, <1>8, ViewFacts, Fields
<1>10. acts[j].sp >= TopOff(a) - a.need
  <2>. DEFINE x == TopOff(a)
              y == a.need
              z == acts[j].sp
              e == End(a)
  <2>1. x \in Nat /\ y \in Nat /\ z \in Nat /\ e \in Nat /\ x - y <= e /\ e <= z
    BY <1>5, <1>8, <1>9
  <2>. HIDE DEF x, y, z, e
  <2>2. z >= x - y
    BY <2>1
  <2>. QED BY <2>2 DEF x, y, z
<1>. QED BY <1>4, <1>10 DEF j

\* Memory holds every frame as it was called.
LEMMA InvFrame ==
    ASSUME ~RawSurplus
    PROVE  Inv => FrameAsCalled
<1>. SUFFICES ASSUME Inv, NEW i \in Started, NEW v \in Views(acts[i]) PROVE ViewHolds(mem, v)
  BY DEF FrameAsCalled, ViewHolds
<1>1. Stacked(mem, acts)
  BY DEF Inv
<1>2. i \in DOMAIN acts /\ acts[i].mode # "entry" /\ acts \in Seq(ActType)
  BY <1>1 DEF Started, Stacked
<1>3. i \in 1..Len(acts)
  BY <1>2
<1>4. ActMem(mem, acts[i])
  BY <1>1, <1>3 DEF Stacked
<1>. QED BY <1>2, <1>4 DEF ActMem

-----------------------------------------------------------------------------
(* The headroom.  s bounds the slots of one splice.                         *)

Over(n, s) == n * s
\* The body at a level of splicing, and the end of the slots it may use.
BodyAt(a, i) == IF i = 0 THEN a.body ELSE a.segs[i].body
Reach(a, i) ==
    (IF i = 0 THEN RootView(a).operands ELSE enter_frame_view(a.segs[i]).operands) + Code[BodyAt(a, i)].depth
\* Bodies nothing is spliced into.
Bars(b) == NeedsArgsObj(b) \/ Code[b].gen

\* Each splice reaches at most s past the one around it, which keeps an
\* operand free for its result.
SegsFit(a, s) ==
    /\ a.segs \in Seq(SegType) /\ Len(a.segs) <= MaxSplices /\ (Bars(a.body) => Len(a.segs) = 0)
    /\ \A i \in 1..Len(a.segs) : /\ Reach(a, i) <= Reach(a, 0) + Over(i, s)
                                 /\ a.segs[i].depth < Code[BodyAt(a, i - 1)].depth
\* What waits for a helper or a callee fits when that comes back.
WaitFits(a, s) ==
    /\ a.mode = "call" \/ (a.mode = "helper" /\ a.want \notin {"env", "args"})
         => Len(a.ops) - a.need < Code[BodyAt(a, Len(a.segs))].depth
    /\ a.mode = "helper" /\ a.want = "splice"
         => Len(a.segs) < MaxSplices /\ ~Bars(a.body) /\ SpliceSlots(a.target, Len(a.actuals)) <= s /\ a.need = 0
    /\ a.mode = "helper" /\ a.want = "new" => TopOff(a) + 2 + Len(a.actuals) + Headroom <= VLimit
ActFits(a, s) ==
    /\ a.body \in DOMAIN Code /\ a.sp \in Nat /\ a.argc \in Nat /\ a.need \in Nat
    /\ a.sp + 2 + a.argc + Headroom <= VLimit /\ a.saved <= VLimit
    /\ SegsFit(a, s)
    /\ Len(a.ops) \in Nat /\ Len(a.ops) <= Code[BodyAt(a, Len(a.segs))].depth
    /\ WaitFits(a, s)
Fits(s) == vtop <= VLimit /\ \A i \in DOMAIN acts : ActFits(acts[i], s)

\* Multiples of s, in the three facts the rest uses.
LEMMA OverFacts ==
    ASSUME NEW s \in Nat, NEW n \in Nat
    PROVE  /\ Over(n, s) \in Nat /\ Over(0, s) = 0 /\ Over(n + 1, s) = Over(n, s) + s
           /\ \A i \in 0..n : Over(i, s) <= Over(n, s)
<1>1. \A i, j \in Nat : i * j \in Nat
  OBVIOUS
<1>2. Over(n, s) \in Nat /\ Over(0, s) = 0 /\ Over(n + 1, s) = Over(n, s) + s
  BY <1>1 DEF Over
<1>3. ASSUME NEW i \in 0..n PROVE Over(i, s) <= Over(n, s)
  <2>. DEFINE d == n - i
  <2>1. d \in Nat /\ n = i + d /\ i \in Nat
    OBVIOUS
  <2>2. d * s \in Nat /\ i * s \in Nat
    BY <1>1, <2>1
  <2>. HIDE DEF d
  <2>3. (i + d) * s = i * s + d * s
    BY <2>1
  <2>. QED BY <2>1, <2>2, <2>3 DEF Over
<1>. QED BY <1>2, <1>3

\* The end of an activation's own operands, in its slots.
LEMMA RootReach ==
    ASSUME NEW a, a.body \in DOMAIN Code, a.sp \in Nat, a.argc \in Nat
    PROVE  /\ RootView(a).operands \in Nat /\ Reach(a, 0) \in Nat /\ Code[a.body].nargs \in Nat
           /\ FrameSlots(a.body) \in Nat
           /\ Reach(a, 0) <= a.sp + 2 + a.argc + Code[a.body].nargs + FrameSlots(a.body)
<1>. DEFINE c == Code[a.body]
            na == IF NeedsArgsObj(a.body) THEN 1 ELSE 0
            ne == IF c.env # "none" THEN 1 ELSE 0
            nt == IF c.nt THEN 1 ELSE 0
<1>1. c.nargs \in Nat /\ c.nlocals \in Nat /\ c.depth \in Nat
  BY CodeAssumption
<1>2. vp(a) \in Nat /\ vp(a) <= a.sp + a.argc
  BY <1>1 DEF vp
<1>3. RootView(a).operands = vp(a) + 2 + c.nargs + c.nlocals + ne + na + nt + 1
  BY DEF RootView
<1>4. FrameSlots(a.body) = c.nlocals + ne + na + nt + 1 + c.depth
  BY DEF FrameSlots
<1>5. Reach(a, 0) = RootView(a).operands + c.depth
  BY DEF Reach, BodyAt
<1>6. na \in Nat /\ ne \in Nat /\ nt \in Nat
  OBVIOUS
<1>. HIDE DEF c, na, ne, nt
<1>7. /\ RootView(a).operands \in Nat /\ Reach(a, 0) \in Nat /\ c.nargs \in Nat /\ FrameSlots(a.body) \in Nat
      /\ Reach(a, 0) <= a.sp + 2 + a.argc + c.nargs + FrameSlots(a.body)
  BY <1>1, <1>2, <1>3, <1>4, <1>5, <1>6
<1>. QED BY <1>7 DEF c

\* The innermost view is that of the last splice.
LEMMA ViewAt ==
    ASSUME NEW a, a.body \in DOMAIN Code, a.sp \in Nat, a.argc \in Nat, a.segs \in Seq(SegType)
    PROVE  /\ Len(a.segs) \in Nat /\ BodyAt(a, Len(a.segs)) \in DOMAIN Code /\ View(a).body = BodyAt(a, Len(a.segs))
           /\ Code[BodyAt(a, Len(a.segs))].depth \in Nat
           /\ View(a).operands \in Nat /\ Reach(a, Len(a.segs)) = View(a).operands + Code[BodyAt(a, Len(a.segs))].depth
           /\ \A i \in 1..Len(a.segs) : Reach(a, i) \in Nat /\ Code[a.segs[i].body].depth \in Nat
<1>1. Len(a.segs) \in Nat /\ \A i \in 1..Len(a.segs) : a.segs[i] \in SegType
  OBVIOUS
<1>2. \A i \in 1..Len(a.segs) : /\ enter_frame_view(a.segs[i]).operands \in Nat /\ enter_frame_view(a.segs[i]).body = a.segs[i].body
                                /\ a.segs[i].body \in DOMAIN Code
  BY <1>1, SegShape DEF SegType
<1>3. \A i \in 1..Len(a.segs) : Reach(a, i) \in Nat /\ Code[a.segs[i].body].depth \in Nat
  BY <1>1, <1>2, CodeAssumption DEF Reach, BodyAt
<1>4. CASE a.segs = <<>>
  <2>1. Len(a.segs) = 0 /\ View(a) = RootView(a)
    BY <1>4 DEF View
  <2>2. RootView(a).body = a.body /\ RootView(a).operands \in Nat
    BY RootReach DEF RootView
  <2>. QED BY <1>3, <2>1, <2>2, CodeAssumption DEF Reach, BodyAt
<1>5. CASE a.segs # <<>>
  <2>1. Len(a.segs) \in 1..Len(a.segs) /\ Len(a.segs) # 0 /\ View(a) = enter_frame_view(a.segs[Len(a.segs)])
    BY <1>5 DEF View
  <2>. QED BY <1>1, <1>2, <1>3, <2>1, CodeAssumption DEF Reach, BodyAt
<1>. QED BY <1>4, <1>5

\* All the slots an activation may come to use are inside the stack.
LEMMA Ceiling ==
    ASSUME NEW s \in Nat, HeadroomSuffices(s), NEW a, ActFits(a, s)
    PROVE  /\ View(a).operands \in Nat /\ Code[BodyAt(a, Len(a.segs))].depth \in Nat
           /\ View(a).operands + Code[BodyAt(a, Len(a.segs))].depth < VLimit
           /\ TopOff(a) \in Nat /\ TopOff(a) < VLimit /\ TopOff(a) = View(a).operands + Len(a.ops)
<1>. DEFINE n == Len(a.segs)
            d == Code[BodyAt(a, n)].depth
            top == a.sp + 2 + a.argc
            own == Code[a.body].nargs + FrameSlots(a.body)
<1>1. /\ a.body \in DOMAIN Code /\ a.sp \in Nat /\ a.argc \in Nat /\ a.segs \in Seq(SegType)
      /\ top + Headroom <= VLimit /\ Len(a.ops) \in Nat /\ Len(a.ops) <= d
      /\ n <= MaxSplices /\ (Bars(a.body) => n = 0)
      /\ \A i \in 1..n : Reach(a, i) <= Reach(a, 0) + Over(i, s)
  BY DEF ActFits, SegsFit
<1>2. /\ n \in Nat /\ d \in Nat /\ View(a).operands \in Nat /\ Reach(a, n) = View(a).operands + d
  BY <1>1, ViewAt
<1>3. Reach(a, 0) \in Nat /\ own \in Nat /\ Reach(a, 0) <= top + own
  <2>1. /\ Reach(a, 0) \in Nat /\ Code[a.body].nargs \in Nat /\ FrameSlots(a.body) \in Nat
        /\ Reach(a, 0) <= a.sp + 2 + a.argc + Code[a.body].nargs + FrameSlots(a.body)
    BY <1>1, RootReach
  <2>. DEFINE r == Reach(a, 0)
              x == Code[a.body].nargs
              y == FrameSlots(a.body)
              p == a.sp
              q == a.argc
  <2>2. r \in Nat /\ x \in Nat /\ y \in Nat /\ p \in Nat /\ q \in Nat /\ r <= p + 2 + q + x + y /\ top = p + 2 + q /\ own = x + y
    BY <1>1, <2>1
  <2>. HIDE DEF r, x, y, p, q, top, own
  <2>3. r \in Nat /\ own \in Nat /\ r <= top + own
    BY <2>2
  <2>. QED BY <2>3 DEF r
<1>4. own + (IF Bars(a.body) THEN 0 ELSE Over(MaxSplices, s)) < Headroom
  BY <1>1 DEF HeadroomSuffices, Bars, Over
<1>5. TopOff(a) = View(a).operands + Len(a.ops)
  BY DEF TopOff
<1>6. Over(n, s) \in Nat /\ Over(0, s) = 0 /\ Over(n, s) <= Over(MaxSplices, s) /\ Over(MaxSplices, s) \in Nat
  <2>. HIDE DEF n
  <2>1. MaxSplices \in Nat /\ n \in 0..MaxSplices
    BY <1>1, <1>2, StackAssumption
  <2>. QED BY <1>2, <2>1, OverFacts
<1>. HIDE DEF n, d, top, own
<1>7. Reach(a, n) <= Reach(a, 0) + Over(n, s)
  BY <1>1, <1>2, <1>3, <1>6
<1>8. top \in Nat
  BY <1>1 DEF top
<1>9. own + Over(n, s) < Headroom
  BY <1>1, <1>3, <1>4, <1>6, StackAssumption
<1>10. View(a).operands + d < VLimit
  BY <1>1, <1>2, <1>3, <1>6, <1>7, <1>8, <1>9, StackAssumption
<1>11. TopOff(a) \in Nat /\ TopOff(a) < VLimit
  BY <1>1, <1>2, <1>5, <1>10, StackAssumption
<1>. QED BY <1>2, <1>5, <1>10, <1>11 DEF n, d

\* What the invariant is for.
LEMMA FitWithin ==
    ASSUME NEW s \in Nat, HeadroomSuffices(s)
    PROVE  Fits(s) => WithinLimit
BY Ceiling DEF Fits, WithinLimit, Started

-----------------------------------------------------------------------------
(* Changing the stack of activations.                                       *)

\* The innermost activation changes.
LEMMA SwapFits ==
    ASSUME NEW s, Inv, Fits(s), acts # <<>>, NEW b, acts' = With(b), ActFits(b, s), vtop' <= VLimit
    PROVE  Fits(s)'
<1>. DEFINE S == ActType \cup {b}
<1>1. acts \in Seq(ActType)
  BY TopFacts
<1>2. acts \in Seq(S) /\ b \in S
  BY <1>1
<1>. HIDE DEF S
<1>3. /\ Swapped(acts, b) \in Seq(S) /\ Len(Swapped(acts, b)) = Len(acts) /\ Len(acts) \in Nat
      /\ \A i \in 1..Len(acts) : Swapped(acts, b)[i] = IF i = Len(acts) THEN b ELSE acts[i]
  BY <1>2, SwapSeq
<1>4. acts' = Swapped(acts, b)
  BY WithIs
<1>5. DOMAIN acts' = 1..Len(acts) /\ DOMAIN acts = 1..Len(acts)
  BY <1>1, <1>3, <1>4
<1>. QED BY <1>3, <1>4, <1>5 DEF Fits

\* An activation is entered, and the one that enters it may change.
LEMMA PushFits ==
    ASSUME NEW s, NEW st, NEW S, st \in Seq(S), \A i \in DOMAIN st : ActFits(st[i], s),
           NEW b, acts' = Append(st, b), ActFits(b, s), vtop' <= VLimit
    PROVE  Fits(s)'
<1>. DEFINE R == S \cup {b}
<1>1. st \in Seq(R) /\ b \in R
  OBVIOUS
<1>. HIDE DEF R
<1>2. /\ Append(st, b) \in Seq(R) /\ Len(Append(st, b)) = Len(st) + 1 /\ Len(st) \in Nat
      /\ Append(st, b)[Len(st) + 1] = b /\ \A i \in 1..Len(st) : Append(st, b)[i] = st[i]
  BY <1>1, PushSeq
<1>3. DOMAIN acts' = 1..(Len(st) + 1) /\ DOMAIN st = 1..Len(st)
  BY <1>1, <1>2
<1>4. ASSUME NEW i \in DOMAIN acts' PROVE ActFits(acts'[i], s)
  <2>1. CASE i = Len(st) + 1
    BY <1>2, <2>1
  <2>2. CASE i # Len(st) + 1
    <3>1. i \in 1..Len(st)
      BY <1>2, <1>3, <2>2
    <3>. QED BY <1>2, <1>3, <3>1
  <2>. QED BY <2>1, <2>2
<1>. QED BY <1>4 DEF Fits

\* The innermost activation changes and another one is entered.
LEMMA SwapPushFits ==
    ASSUME NEW s, Inv, Fits(s), acts # <<>>, NEW a, NEW b, acts' = Append(With(a), b), ActFits(a, s), ActFits(b, s),
           vtop' <= VLimit
    PROVE  Fits(s)'
<1>. DEFINE S == ActType \cup {a}
<1>1. acts \in Seq(ActType)
  BY TopFacts
<1>2. acts \in Seq(S) /\ a \in S
  BY <1>1
<1>. HIDE DEF S
<1>3. /\ Swapped(acts, a) \in Seq(S) /\ Len(Swapped(acts, a)) = Len(acts) /\ Len(acts) \in Nat
      /\ \A i \in 1..Len(acts) : Swapped(acts, a)[i] = IF i = Len(acts) THEN a ELSE acts[i]
  BY <1>2, SwapSeq
<1>4. With(a) = Swapped(acts, a)
  BY WithIs
<1>5. DOMAIN With(a) = 1..Len(acts) /\ DOMAIN acts = 1..Len(acts)
  BY <1>1, <1>3, <1>4
<1>6. \A i \in DOMAIN With(a) : ActFits(With(a)[i], s)
  BY <1>3, <1>4, <1>5 DEF Fits
<1>7. With(a) \in Seq(S)
  BY <1>3, <1>4
<1>. QED BY <1>6, <1>7, PushFits

\* The innermost activation is left.
LEMMA PopFits ==
    ASSUME NEW s, Inv, Fits(s), acts # <<>>
    PROVE  /\ Below \in Seq(ActType) /\ \A i \in DOMAIN Below : ActFits(Below[i], s)
           /\ acts' = Below /\ vtop' <= VLimit => Fits(s)'
<1>1. acts \in Seq(ActType)
  BY TopFacts
<1>2. /\ Below \in Seq(ActType) /\ Len(Below) = Len(acts) - 1 /\ Len(acts) \in Nat
      /\ \A i \in 1..(Len(acts) - 1) : Below[i] = acts[i]
  BY <1>1, PopSeq DEF Below
<1>3. DOMAIN Below = 1..(Len(acts) - 1) /\ DOMAIN acts = 1..Len(acts)
  BY <1>1, <1>2
<1>4. \A i \in DOMAIN Below : ActFits(Below[i], s)
  BY <1>2, <1>3 DEF Fits
<1>5. ASSUME acts' = Below, vtop' <= VLimit PROVE Fits(s)'
  BY <1>4, <1>5 DEF Fits
<1>. QED BY <1>2, <1>4, <1>5

\* The innermost activation is left, and the one that called it goes on.
LEMMA PopSwapFits ==
    ASSUME NEW s, Inv, Fits(s), acts # <<>>, Below # <<>>, NEW b, acts' = SubSeq(Below, 1, Len(Below) - 1) \o <<b>>,
           ActFits(b, s), vtop' <= VLimit
    PROVE  Fits(s)'
<1>. DEFINE S == ActType \cup {b}
<1>1. Below \in Seq(ActType) /\ \A i \in DOMAIN Below : ActFits(Below[i], s)
  BY PopFits
<1>2. Below \in Seq(S) /\ b \in S
  BY <1>1
<1>. HIDE DEF S
<1>3. /\ Swapped(Below, b) \in Seq(S) /\ Len(Swapped(Below, b)) = Len(Below) /\ Len(Below) \in Nat
      /\ \A i \in 1..Len(Below) : Swapped(Below, b)[i] = IF i = Len(Below) THEN b ELSE Below[i]
  BY <1>2, SwapSeq
<1>4. acts' = Swapped(Below, b)
  BY DEF Swapped
<1>5. DOMAIN acts' = 1..Len(Below) /\ DOMAIN Below = 1..Len(Below)
  <2>1. acts' \in Seq(S) /\ Len(acts') = Len(Below)
    BY <1>3, <1>4
  <2>. QED BY <1>2, <2>1
<1>. QED BY <1>1, <1>3, <1>4, <1>5 DEF Fits
-----------------------------------------------------------------------------
(* Steps within a frame.                                                    *)

SameRoom(a, b) == b.body = a.body /\ b.sp = a.sp /\ b.argc = a.argc /\ b.saved = a.saved /\ b.segs = a.segs

\* The frame's fields decide where it reaches.
LEMMA SameReach ==
    ASSUME NEW a, NEW b, SameRoom(a, b)
    PROVE  /\ View(b).operands = View(a).operands /\ View(b).body = View(a).body
           /\ BodyAt(b, Len(b.segs)) = BodyAt(a, Len(a.segs))
           /\ \A s : SegsFit(b, s) <=> SegsFit(a, s)
<1>1. RootView(b).operands = RootView(a).operands /\ RootView(b).body = RootView(a).body
  BY DEF SameRoom, RootView, vp
<1>2. \A i : BodyAt(b, i) = BodyAt(a, i) /\ Reach(b, i) = Reach(a, i)
  BY <1>1 DEF SameRoom, BodyAt, Reach
<1>3. View(b).operands = View(a).operands /\ View(b).body = View(a).body
  BY <1>1 DEF SameRoom, View
<1>4. \A s : SegsFit(b, s) <=> SegsFit(a, s)
  BY <1>2 DEF SameRoom, SegsFit
<1>. QED BY <1>2, <1>3, <1>4 DEF SameRoom

\* The same frame with other operands fits as long as they do.
LEMMA SameRoomFits ==
    ASSUME NEW s, NEW a, ActFits(a, s), NEW b, SameRoom(a, b), b.need \in Nat, Len(b.ops) \in Nat,
           Len(b.ops) <= Code[BodyAt(a, Len(a.segs))].depth, WaitFits(b, s)
    PROVE  ActFits(b, s)
<1>1. BodyAt(b, Len(b.segs)) = BodyAt(a, Len(a.segs)) /\ (SegsFit(b, s) <=> SegsFit(a, s))
  BY SameReach
<1>. QED BY <1>1 DEF ActFits, SameRoom

\* What Inv and Fits say of the innermost activation.
LEMMA TopFits ==
    ASSUME NEW s \in Nat, HeadroomSuffices(s), Inv, Fits(s), acts # <<>>
    PROVE  /\ Top \in ActType /\ ActFits(Top, s) /\ ActShape(Top) /\ vtop \in Nat /\ vtop <= VLimit
           /\ Len(Top.ops) \in Nat /\ Len(Top.segs) \in Nat /\ Top.need \in Nat
           /\ View(Top).body = BodyAt(Top, Len(Top.segs)) /\ View(Top).body \in DOMAIN Code
           /\ Code[View(Top).body].depth \in Nat /\ Len(Top.ops) <= Code[View(Top).body].depth
           /\ View(Top).operands \in Nat /\ View(Top).operands + Code[View(Top).body].depth < VLimit
           /\ TopOff(Top) = View(Top).operands + Len(Top.ops) /\ TopOff(Top) < VLimit
<1>1. Top \in ActType /\ ActShape(Top) /\ vtop \in Nat /\ Top = acts[Len(acts)] /\ acts \in Seq(ActType)
  BY TopFacts
<1>2. Len(acts) \in DOMAIN acts
  BY <1>1
<1>3. ActFits(Top, s) /\ vtop <= VLimit
  BY <1>1, <1>2 DEF Fits
<1>4. /\ Len(Top.ops) \in Nat /\ Len(Top.segs) \in Nat /\ Top.need \in Nat /\ Top.segs \in Seq(SegType)
      /\ Top.body \in DOMAIN Code /\ Top.sp \in Nat /\ Top.argc \in Nat
  BY <1>1, Fields
<1>5. View(Top).body = BodyAt(Top, Len(Top.segs)) /\ View(Top).body \in DOMAIN Code
  BY <1>4, ViewAt
<1>6. Len(Top.ops) <= Code[View(Top).body].depth
  BY <1>3, <1>5 DEF ActFits
<1>. QED BY <1>1, <1>3, <1>4, <1>5, <1>6, Ceiling

\* A helper is called with more operands on the stack.
LEMMA HelperCallFits ==
    ASSUME NEW s \in Nat, HeadroomSuffices(s), Inv, Fits(s), acts # <<>>, NEW more \in Seq(LiveValue),
           NEW need \in Nat, Len(Top.ops) + Len(more) <= Code[View(Top).body].depth,
           Len(Top.ops) + Len(more) - need < Code[View(Top).body].depth,
           HelperCall(Top, more, need, "op")
    PROVE  Fits(s)'
<1>. DEFINE a == Top
            c == [a EXCEPT !.ops = @ \o more]
            b == SetNightTop([c EXCEPT !.need = need], TopOff(c), "op")
<1>0. /\ Len(a.ops) + Len(more) <= Code[View(a).body].depth
      /\ Len(a.ops) + Len(more) - need < Code[View(a).body].depth
  OBVIOUS
<1>1. acts' = With(b) /\ vtop' = TopOff(c)
  BY DEF HelperCall
<1>2. a \in ActType /\ a.ops \in Seq(Value) /\ more \in Seq(Value) /\ Len(a.ops) \in Nat /\ Len(more) \in Nat
  BY TopFacts, Fields, LiveSeqValue
<1>3. Len(a.ops \o more) = Len(a.ops) + Len(more)
  BY <1>2
<1>4. SameRoom(a, c) /\ c.ops = a.ops \o more
  BY <1>2 DEF ActType, SameRoom
<1>5. /\ SameRoom(a, b) /\ b.ops = a.ops \o more /\ b.need = need /\ b.mode = "helper" /\ b.want = "op"
  BY <1>2 DEF ActType, SetNightTop, SameRoom
<1>. HIDE DEF a, b, c
<1>6. TopOff(c) = View(a).operands + Len(a.ops) + Len(more)
  <2>1. View(c).operands = View(a).operands
    BY <1>4, SameReach
  <2>2. View(a).operands \in Nat
    BY TopFits DEF a
  <2>. QED BY <1>2, <1>3, <1>4, <2>1, <2>2 DEF TopOff
<1>7. /\ ActFits(a, s) /\ View(a).body = BodyAt(a, Len(a.segs)) /\ View(a).operands \in Nat
      /\ Code[View(a).body].depth \in Nat /\ View(a).operands + Code[View(a).body].depth < VLimit
  BY TopFits DEF a
<1>8. WaitFits(b, s)
  <2>1. BodyAt(b, Len(b.segs)) = BodyAt(a, Len(a.segs))
    BY <1>5, SameReach
  <2>. QED BY <1>0, <1>3, <1>5, <1>7, <2>1 DEF WaitFits
<1>9. ActFits(b, s)
  <2>1. b.need \in Nat /\ Len(b.ops) \in Nat /\ Len(b.ops) <= Code[BodyAt(a, Len(a.segs))].depth
    BY <1>0, <1>2, <1>3, <1>5, <1>7
  <2>. QED BY <1>5, <1>7, <1>8, <2>1, SameRoomFits
<1>10. vtop' <= VLimit
  <2>. DEFINE o == View(a).operands
              d == Code[View(a).body].depth
              x == Len(a.ops)
              y == Len(more)
  <2>1. o \in Nat /\ d \in Nat /\ x \in Nat /\ y \in Nat /\ x + y <= d /\ o + d < VLimit /\ TopOff(c) = o + x + y
    BY <1>0, <1>2, <1>6, <1>7
  <2>. HIDE DEF o, d, x, y
  <2>2. TopOff(c) <= VLimit
    BY <2>1, StackAssumption
  <2>. QED BY <1>1, <2>2
<1>. QED BY <1>1, <1>9, <1>10, SwapFits

\* The running activation goes on in the same frame.
LEMMA RunFits ==
    ASSUME NEW s \in Nat, HeadroomSuffices(s), Inv, Fits(s), acts # <<>>, NEW b, acts' = With(b),
           SameRoom(Top, b), b.need \in Nat, b.mode = "run", Len(b.ops) \in Nat, Len(b.ops) <= Code[View(Top).body].depth,
           vtop' <= VLimit
    PROVE  Fits(s)'
<1>1. WaitFits(b, s)
  BY DEF WaitFits
<1>2. ActFits(Top, s) /\ View(Top).body = BodyAt(Top, Len(Top.segs))
  BY TopFits
<1>3. ActFits(b, s)
  BY <1>1, <1>2, SameRoomFits
<1>. QED BY <1>3, SwapFits

-----------------------------------------------------------------------------
(* Entries.                                                                 *)

\* A new activation fits when its frame leaves the headroom free.
LEMMA NewFits ==
    ASSUME NEW s, NEW t \in DOMAIN Code, NEW sp \in Nat, NEW n \in Nat, NEW kind, NEW saved, saved <= VLimit,
           NEW args, sp + 2 + n + Headroom <= VLimit
    PROVE  ActFits(Act(t, sp, n, kind, saved, args), s)
<1>. DEFINE c == Act(t, sp, n, kind, saved, args)
<1>1. /\ c.body = t /\ c.sp = sp /\ c.argc = n /\ c.saved = saved /\ c.segs = <<>> /\ c.ops = <<>> /\ c.mode = "entry"
      /\ c.need = 0
  BY DEF Act
<1>. HIDE DEF c
<1>2. Len(c.segs) = 0 /\ Len(c.ops) = 0 /\ c.segs \in Seq(SegType)
  BY <1>1
<1>3. SegsFit(c, s)
  BY <1>2, StackAssumption DEF SegsFit
<1>4. BodyAt(c, Len(c.segs)) = t /\ Code[t].depth \in Nat
  BY <1>1, <1>2, CodeAssumption DEF BodyAt
<1>5. WaitFits(c, s)
  BY <1>1 DEF WaitFits
<1>6. ActFits(c, s)
  BY <1>1, <1>2, <1>3, <1>4, <1>5 DEF ActFits
<1>. QED BY <1>6 DEF c

\* A direct call whose frame leaves the headroom free.
LEMMA EnterDirectFits ==
    ASSUME NEW s \in Nat, HeadroomSuffices(s), Inv, Fits(s), acts # <<>>, NEW a, SameRoom(Top, a), a \in ActType,
           a.need <= Len(a.ops), Len(a.ops) <= Code[View(Top).body].depth, Len(a.ops) - a.need < Code[View(Top).body].depth,
           NEW t \in DOMAIN Code, NEW args \in Seq(LiveValue), TopOff(a) + 2 + Len(args) + Headroom <= VLimit,
           2 + Len(args) <= a.need, NEW m, EnterDirect(m, a, t, args)
    PROVE  Fits(s)'
<1>. DEFINE b == [a EXCEPT !.mode = "call"]
            sp == TopOff(a) - a.need
            c == Act(t, sp, Len(args), "direct", 0, args)
<1>1. acts' = Append(With(b), c) /\ vtop' = vtop
  BY DEF EnterDirect
<1>2. /\ ActFits(Top, s) /\ View(Top).body = BodyAt(Top, Len(Top.segs)) /\ View(Top).operands \in Nat /\ vtop <= VLimit
  BY TopFits
<1>3. a.need \in Nat /\ Len(a.ops) \in Nat /\ Len(args) \in Nat
  BY Fields
<1>4. /\ SameRoom(Top, b) /\ b.need = a.need /\ b.ops = a.ops /\ b.mode = "call"
  BY DEF ActType, SameRoom
<1>5. TopOff(a) = View(Top).operands + Len(a.ops)
  BY SameReach DEF TopOff
<1>. HIDE DEF b
<1>6. ActFits(b, s)
  <2>1. BodyAt(b, Len(b.segs)) = BodyAt(Top, Len(Top.segs))
    BY <1>4, SameReach
  <2>2. WaitFits(b, s)
    BY <1>2, <1>4, <2>1 DEF WaitFits
  <2>. QED BY <1>2, <1>3, <1>4, <2>2, SameRoomFits
<1>7. sp \in Nat /\ sp + 2 + Len(args) + Headroom <= VLimit
  <2>. DEFINE o == View(Top).operands
              x == Len(a.ops)
              y == Len(args)
              n == a.need
              z == TopOff(a)
  <2>1. /\ o \in Nat /\ x \in Nat /\ y \in Nat /\ n \in Nat /\ n <= x /\ z = o + x /\ z + 2 + y + Headroom <= VLimit
        /\ sp = z - n
    BY <1>2, <1>3, <1>5
  <2>2. sp + 2 + y + Headroom = sp + 2 + Len(args) + Headroom
    OBVIOUS
  <2>. HIDE DEF o, x, y, n, z, sp
  <2>3. sp \in Nat /\ sp + 2 + y + Headroom <= VLimit
    BY <2>1, StackAssumption
  <2>. QED BY <2>2, <2>3
<1>. HIDE DEF sp
<1>8. ActFits(c, s)
  <2>1. 0 <= VLimit
    BY StackAssumption
  <2>. QED BY <1>3, <1>7, <2>1, NewFits
<1>. HIDE DEF c
<1>. QED BY <1>1, <1>2, <1>6, <1>8, SwapPushFits

\* A call pushes callee, receiver and arguments.
LEMMA DirectCallFits ==
    ASSUME NEW s \in Nat, HeadroomSuffices(s), Inv, Fits(s), InRun, NEW t \in DOMAIN Code, NEW args \in Seq(LiveValue),
           Room(2 + Len(args)), DirectCall(t, args)
    PROVE  Fits(s)'
<1>. DEFINE ops == Top.ops \o <<Callee, This>> \o args
            a == [Top EXCEPT !.ops = ops, !.need = Len(args) + 2, !.want = "op"]
            d == Code[View(Top).body].depth
            n == Len(Top.ops)
<1>0. acts # <<>> /\ Top.mode = "run"
  BY DEF InRun
<1>1. Top \in ActType /\ d \in Nat /\ n \in Nat /\ OpsLive(Top) /\ n + (2 + Len(args)) <= d /\ Len(args) \in Nat
  <2>1. Top \in ActType /\ d \in Nat /\ n \in Nat
    BY <1>0, TopFits
  <2>2. OpsLive(Top)
    BY <1>0, TopFacts
  <2>3. n + (2 + Len(args)) <= d
    BY DEF Room
  <2>4. Len(args) \in Nat
    OBVIOUS
  <2>. QED BY <2>1, <2>2, <2>3, <2>4
<1>2. ops \in Seq(LiveValue) /\ Len(ops) = n + 2 + Len(args)
  <2>1. Top.ops \in Seq(LiveValue)
    BY <1>1, Fields, LiveSeq DEF OpsLive
  <2>. QED BY <2>1, Constants, PushedSeq
<1>3. ops \in Seq(Value) /\ Len(args) + 2 \in Nat
  <2>. HIDE DEF ops
  <2>1. ops \in Seq(Value)
    BY <1>2, LiveSeqValue
  <2>. QED BY <1>1, <2>1
<1>4. DirectCall(t, args) <=> IF emit_stack_fits(TopOff(a), Len(args)) /\ Len(acts) < MaxActs
                              THEN EnterDirect(spill_all(mem, a), a, t, args)
                              ELSE HelperCall(Top, <<Callee, This>> \o args, Len(args) + 2, "op")
  BY DEF DirectCall
<1>. HIDE DEF ops
<1>5. a \in ActType /\ SameRoom(Top, a) /\ a.ops = ops /\ a.need = Len(args) + 2 /\ a.want = "op"
  <2>1. a \in ActType
    BY <1>1, <1>3 DEF ActType
  <2>2. SameRoom(Top, a) /\ a.ops = ops /\ a.need = Len(args) + 2 /\ a.want = "op"
    BY <1>1 DEF ActType, SameRoom
  <2>. QED BY <2>1, <2>2
<1>. HIDE DEF a, d, n
<1>6. CASE emit_stack_fits(TopOff(a), Len(args)) /\ Len(acts) < MaxActs
  <2>1. EnterDirect(spill_all(mem, a), a, t, args) /\ TopOff(a) + 2 + Len(args) + Headroom <= VLimit
    BY <1>4, <1>6 DEF emit_stack_fits
  <2>2. a.need <= Len(a.ops) /\ Len(a.ops) <= d /\ Len(a.ops) - a.need < d /\ 2 + Len(args) <= a.need
    BY <1>1, <1>2, <1>5
  <2>. QED BY <1>0, <1>5, <2>1, <2>2, EnterDirectFits DEF d
<1>7. CASE ~(emit_stack_fits(TopOff(a), Len(args)) /\ Len(acts) < MaxActs)
  <2>. DEFINE more == <<Callee, This>> \o args
              need == Len(args) + 2
  <2>1. HelperCall(Top, more, need, "op")
    BY <1>4, <1>7
  <2>2. more \in Seq(LiveValue) /\ Len(more) = 2 + Len(args)
    BY Constants, PairSeq
  <2>3. need \in Nat
    BY <1>3
  <2>. HIDE DEF more
  <2>4. Len(Top.ops) + Len(more) <= d /\ Len(Top.ops) + Len(more) - need < d
    <3>1. n + Len(more) <= d /\ n + Len(more) - need < d
      BY <1>1, <2>2
    <3>. QED BY <3>1 DEF n
  <2>. HIDE DEF need
  <2>. QED BY <1>0, <2>1, <2>2, <2>3, <2>4, HelperCallFits DEF d
<1>. QED BY <1>6, <1>7

\* A construct pushes new.target too, and allocates with all of it rooted.
LEMMA DirectConstructFits ==
    ASSUME NEW s \in Nat, HeadroomSuffices(s), Inv, Fits(s), InRun, NEW t \in DOMAIN Code, NEW args \in Seq(LiveValue),
           Room(3 + Len(args)), DirectConstruct(t, args)
    PROVE  Fits(s)'
<1>. DEFINE ops == Top.ops \o <<Callee, Undef>> \o args \o <<Callee>>
            more == <<Callee, Undef>> \o args \o <<Callee>>
            need == Len(args) + 3
            a == [Top EXCEPT !.ops = ops]
            b == [SetNightTop(a, TopOff(a), "new") EXCEPT !.need = need, !.target = t, !.actuals = args]
            d == Code[View(Top).body].depth
            n == Len(Top.ops)
            o == View(Top).operands
<1>0. acts # <<>> /\ Top.mode = "run"
  BY DEF InRun
<1>1. /\ Top \in ActType /\ d \in Nat /\ n \in Nat /\ OpsLive(Top) /\ n + (3 + Len(args)) <= d /\ Len(args) \in Nat
      /\ o \in Nat /\ o + d < VLimit /\ ActFits(Top, s) /\ d = Code[BodyAt(Top, Len(Top.segs))].depth
  <2>1. /\ Top \in ActType /\ d \in Nat /\ n \in Nat /\ o \in Nat /\ o + d < VLimit /\ ActFits(Top, s)
        /\ d = Code[BodyAt(Top, Len(Top.segs))].depth
    BY <1>0, TopFits
  <2>2. OpsLive(Top)
    BY <1>0, TopFacts
  <2>3. n + (3 + Len(args)) <= d
    BY DEF Room
  <2>4. Len(args) \in Nat
    OBVIOUS
  <2>. QED BY <2>1, <2>2, <2>3, <2>4
<1>2. ops \in Seq(LiveValue) /\ Len(ops) = n + 3 + Len(args)
  <2>1. Top.ops \in Seq(LiveValue)
    BY <1>1, Fields, LiveSeq DEF OpsLive
  <2>. QED BY <2>1, Constants, PushedMore
<1>3. ops \in Seq(Value) /\ need \in Nat
  <2>. HIDE DEF ops
  <2>1. ops \in Seq(Value)
    BY <1>2, LiveSeqValue
  <2>. QED BY <1>1, <2>1
<1>4. IF emit_stack_fits(TopOff(a), Len(args)) /\ Len(acts) < MaxActs
      THEN vtop' = TopOff(a) /\ acts' = With(b)
      ELSE HelperCall(Top, more, need, "op")
  BY DEF DirectConstruct
<1>. HIDE DEF ops
<1>5. SameRoom(Top, a) /\ a.ops = ops
  BY <1>1 DEF ActType, SameRoom
<1>6. SameRoom(Top, b) /\ b.ops = ops /\ b.need = need /\ b.want = "new" /\ b.mode = "helper" /\ b.actuals = args
  BY <1>1 DEF ActType, SameRoom, SetNightTop
<1>7. TopOff(a) = o + Len(ops) /\ TopOff(b) = o + Len(ops) /\ BodyAt(b, Len(b.segs)) = BodyAt(Top, Len(Top.segs))
  BY <1>5, <1>6, SameReach DEF TopOff
<1>. HIDE DEF a, b, d, n, o, more
<1>8. CASE emit_stack_fits(TopOff(a), Len(args)) /\ Len(acts) < MaxActs
  <2>1. vtop' = TopOff(a) /\ acts' = With(b) /\ TopOff(b) + 2 + Len(b.actuals) + Headroom <= VLimit
    BY <1>4, <1>6, <1>7, <1>8 DEF emit_stack_fits
  <2>2. Len(b.ops) <= d /\ Len(b.ops) - b.need < d /\ Len(b.ops) \in Nat
    BY <1>1, <1>2, <1>6
  <2>3. WaitFits(b, s)
    BY <1>1, <1>6, <1>7, <2>1, <2>2 DEF WaitFits
  <2>4. ActFits(b, s)
    BY <1>1, <1>3, <1>6, <2>2, <2>3, SameRoomFits
  <2>5. vtop' <= VLimit
    BY <1>1, <1>2, <1>7, <2>1, StackAssumption
  <2>. QED BY <1>0, <2>1, <2>4, <2>5, SwapFits
<1>9. CASE ~(emit_stack_fits(TopOff(a), Len(args)) /\ Len(acts) < MaxActs)
  <2>1. HelperCall(Top, more, need, "op")
    BY <1>4, <1>9
  <2>2. more \in Seq(LiveValue) /\ Len(more) = 3 + Len(args)
    <3>2. /\ <<Callee, Undef>> \o args \in Seq(LiveValue) /\ Len(<<Callee, Undef>> \o args) = 2 + Len(args)
          /\ <<Callee>> \in Seq(LiveValue) /\ Len(<<Callee>>) = 1
      BY Constants, PairSeq
    <3>. DEFINE x == <<Callee, Undef>> \o args
                y == <<Callee>>
    <3>3. x \in Seq(LiveValue) /\ Len(x) = 2 + Len(args) /\ y \in Seq(LiveValue) /\ Len(y) = 1 /\ more = x \o y
      BY <3>2 DEF more
    <3>. HIDE DEF x, y
    <3>4. x \o y \in Seq(LiveValue) /\ Len(x \o y) = Len(x) + Len(y)
      BY <3>3, CatFacts
    <3>. QED BY <1>1, <3>3, <3>4
  <2>3. Len(Top.ops) + Len(more) <= d /\ Len(Top.ops) + Len(more) - need < d
    <3>1. n + Len(more) <= d /\ n + Len(more) - need < d
      BY <1>1, <2>2
    <3>. QED BY <3>1 DEF n
  <2>. HIDE DEF need
  <2>. QED BY <1>0, <1>3, <2>1, <2>2, <2>3, HelperCallFits DEF d
<1>. QED BY <1>8, <1>9

-----------------------------------------------------------------------------
(* Splices.                                                                 *)

\* One more splice reaches at most s past the frame around it.
LEMMA SegFits ==
    ASSUME NEW s \in Nat, HeadroomSuffices(s), NEW a \in ActType, ActFits(a, s), ~Bars(a.body), Len(a.segs) < MaxSplices,
           Len(a.ops) < Code[BodyAt(a, Len(a.segs))].depth, NEW t \in DOMAIN Code, NEW args, Len(args) \in Nat,
           SpliceSlots(t, Len(args)) <= s,
           NEW nf \in Nat, nf = seg_nformals(t, Len(args)), NEW rides, NEW sg, SegOf(sg, a, t, args, nf, rides),
           NEW b \in ActType, Spliced(a, b, sg)
    PROVE  ActFits(b, s)
<1>. DEFINE N == Len(a.segs)
            d == Code[BodyAt(a, N)].depth
            o == View(a).operands
            R == Reach(a, 0)
<1>1. /\ a.body \in DOMAIN Code /\ a.sp \in Nat /\ a.argc \in Nat /\ a.segs \in Seq(SegType) /\ N \in Nat
      /\ Len(a.ops) \in Nat
  BY Fields
<1>2. /\ BodyAt(a, N) \in DOMAIN Code /\ d \in Nat /\ o \in Nat /\ Reach(a, N) = o + d
  BY <1>1, ViewAt
<1>3. R \in Nat
  BY <1>1, RootReach
<1>4. /\ N <= MaxSplices /\ a.sp + 2 + a.argc + Headroom <= VLimit /\ a.saved <= VLimit
      /\ \A i \in 1..N : Reach(a, i) <= R + Over(i, s) /\ a.segs[i].depth < Code[BodyAt(a, i - 1)].depth
  BY DEF ActFits, SegsFit
<1>5. /\ b.segs = Append(a.segs, sg) /\ b.body = a.body /\ b.sp = a.sp /\ b.argc = a.argc /\ b.mode = "run" /\ b.ops = <<>>
      /\ b.saved = a.saved
  BY DEF Spliced
<1>6. sg \in SegType /\ sg.base = o + Len(a.ops) /\ sg.depth = Len(a.ops) /\ sg.body = t /\ sg.nformals = nf
  BY DEF SegOf, TopOff
<1>7. /\ b.segs \in Seq(SegType) /\ Len(b.segs) = N + 1 /\ b.segs[N + 1] = sg
      /\ \A i \in 1..N : b.segs[i] = a.segs[i]
  BY <1>1, <1>5, <1>6, PushSeq
<1>8. RootView(b).operands = RootView(a).operands
  BY <1>5 DEF RootView, vp
<1>. HIDE DEF N
<1>9. \A i \in 0..N : BodyAt(b, i) = BodyAt(a, i) /\ Reach(b, i) = Reach(a, i)
  <2>. TAKE i \in 0..N
  <2>1. CASE i = 0
    BY <1>5, <1>8, <2>1 DEF BodyAt, Reach
  <2>2. CASE i # 0
    <3>0. i \in 1..N
      BY <1>1, <2>2
    <3>1. b.segs[i] = a.segs[i]
      BY <1>7, <3>0
    <3>. QED BY <2>2, <3>1 DEF BodyAt, Reach
  <2>. QED BY <2>1, <2>2
<1>10. BodyAt(b, N + 1) = t /\ Reach(b, N + 1) = (sg.base + SpliceSlots(t, Len(args)))
  <2>1. N + 1 # 0
    BY <1>1
  <2>2. BodyAt(b, N + 1) = t
    BY <1>6, <1>7, <2>1 DEF BodyAt
  <2>3. Reach(b, N + 1) = enter_frame_view(sg).operands + Code[t].depth
    BY <1>7, <2>1, <2>2 DEF Reach
  <2>4. enter_frame_view(sg).operands = (sg.base + 2 + nf + Code[t].nlocals) + 1
    BY <1>6 DEF enter_frame_view
  <2>5. SpliceSlots(t, Len(args)) = 2 + nf + Code[t].nlocals + 1 + Code[t].depth
    BY DEF SpliceSlots
  <2>6. sg.base \in Nat /\ Code[t].nlocals \in Nat /\ Code[t].depth \in Nat
    BY <1>6, CodeAssumption DEF SegType
  <2>. DEFINE x == sg.base
              l == Code[t].nlocals
              e == Code[t].depth
              r == Reach(b, N + 1)
              w == SpliceSlots(t, Len(args))
  <2>7. x \in Nat /\ l \in Nat /\ e \in Nat /\ r = ((x + 2 + nf + l) + 1) + e /\ w = 2 + nf + l + 1 + e
    BY <2>3, <2>4, <2>5, <2>6
  <2>. HIDE DEF x, l, e, r, w
  <2>8. r = x + w
    BY <2>7
  <2>. QED BY <2>2, <2>8 DEF x, r, w
<1>11. Over(N, s) \in Nat /\ Over(0, s) = 0 /\ Over(N + 1, s) = Over(N, s) + s
  BY <1>1, OverFacts
<1>12. Reach(a, N) <= R + Over(N, s)
  <2>1. CASE N = 0
    BY <1>3, <1>11, <2>1
  <2>2. CASE N # 0
    <3>1. N \in 1..N
      BY <1>1, <2>2
    <3>. QED BY <1>4, <3>1
  <2>. QED BY <2>1, <2>2
<1>13. Len(a.ops) < d
  BY DEF d, N
<1>14. SpliceSlots(t, Len(args)) \in Nat
  BY CodeAssumption DEF SpliceSlots
<1>15. Reach(b, N + 1) <= R + Over(N + 1, s)
  <2>. DEFINE x == Len(a.ops)
              w == SpliceSlots(t, Len(args))
  <2>1. /\ x \in Nat /\ w \in Nat /\ w <= s /\ x < d /\ Reach(b, N + 1) = (o + x) + w /\ o + d <= R + Over(N, s)
    BY <1>1, <1>2, <1>6, <1>10, <1>12, <1>13, <1>14
  <2>. HIDE DEF x, w, d, o, R
  <2>. QED BY <1>2, <1>3, <1>11, <2>1
<1>16. SegsFit(b, s)
  <2>1. b.segs \in Seq(SegType) /\ Len(b.segs) <= MaxSplices /\ ~Bars(b.body)
    <3>1. N < MaxSplices
      BY DEF N
    <3>. QED BY <1>1, <1>5, <1>7, <3>1, StackAssumption
  <2>2. ASSUME NEW i \in 1..Len(b.segs)
        PROVE  Reach(b, i) <= Reach(b, 0) + Over(i, s) /\ b.segs[i].depth < Code[BodyAt(b, i - 1)].depth
    <3>1. Reach(b, 0) = R
      BY <1>1, <1>9
    <3>2. CASE i = N + 1
      <4>1. b.segs[i].depth = Len(a.ops) /\ BodyAt(b, i - 1) = BodyAt(a, N)
        <5>1. i - 1 = N /\ N \in 0..N
          BY <1>1, <3>2
        <5>. QED BY <1>6, <1>7, <1>9, <3>2, <5>1
      <4>. QED BY <1>13, <1>15, <3>1, <3>2, <4>1
    <3>3. CASE i # N + 1
      <4>1. i \in 1..N /\ i \in 0..N /\ i - 1 \in 0..N
        BY <1>1, <1>7, <3>3
      <4>2. b.segs[i] = a.segs[i] /\ Reach(b, i) = Reach(a, i) /\ BodyAt(b, i - 1) = BodyAt(a, i - 1)
        BY <1>7, <1>9, <4>1
      <4>. QED BY <1>4, <3>1, <4>1, <4>2
    <3>. QED BY <3>2, <3>3
  <2>. QED BY <2>1, <2>2 DEF SegsFit
<1>17. Len(b.ops) = 0 /\ Code[BodyAt(b, Len(b.segs))].depth \in Nat
  BY <1>5, <1>7, <1>10, CodeAssumption
<1>18. b.need \in Nat /\ WaitFits(b, s)
  BY <1>5, Fields DEF WaitFits
<1>. QED BY <1>1, <1>4, <1>5, <1>16, <1>17, <1>18 DEF ActFits

\* The body goes on in the spliced callee.
LEMMA SpliceIntoFits ==
    ASSUME NEW s \in Nat, HeadroomSuffices(s), Inv, Fits(s), acts # <<>>, ~Bars(Top.body), Len(Top.segs) < MaxSplices,
           Len(Top.ops) < Code[View(Top).body].depth, NEW t \in DOMAIN Code, NEW args \in Seq(LiveValue),
           SpliceSlots(t, Len(args)) <= s, NEW m, SpliceInto(m, Top, t, args)
    PROVE  Fits(s)'
<1>. DEFINE nf == seg_nformals(t, Len(args))
            base == TopOff(Top)
            o == View(Top).operands
            d == Len(Top.ops)
            Seg(rides) == [body |-> t, base |-> base, nformals |-> nf, depth |-> d, operands |-> o,
                           wrote |-> FALSE, passed |-> args, carried |-> [k \in rides |-> args[k]]]
            Next1(sg) == [Top EXCEPT !.mode = "run", !.ops = <<>>, !.segs = Append(@, sg)]
<1>1. Top \in ActType /\ ActFits(Top, s) /\ vtop <= VLimit /\ o \in Nat /\ d \in Nat /\ View(Top).body = BodyAt(Top, Len(Top.segs))
  BY TopFits
<1>2. base \in Nat /\ nf \in Nat /\ Len(args) \in Nat
  BY TopFacts, Formals
<1>3. PICK rides \in SUBSET {k \in DOMAIN args : Raw(args[k]) /\ k <= nf} : vtop' = vtop /\ acts' = With(Next1(Seg(rides)))
  BY DEF SpliceInto
<1>. DEFINE sg == Seg(rides)
            b == Next1(sg)
<1>4. \A k \in rides : k \in 1..Len(args)
  OBVIOUS
<1>5. Len(Top.ops) < Code[BodyAt(Top, Len(Top.segs))].depth
  BY <1>1
<1>6. SegOf(sg, Top, t, args, nf, rides)
  <2>1. base = TopOff(Top) /\ sg = Seg(rides) /\ d = Len(Top.ops) /\ o = View(Top).operands
    OBVIOUS
  <2>. HIDE DEF sg, nf, base, o, d
  <2>. QED BY <1>1, <1>2, <1>4, <2>1, SegIs
<1>7. nf = seg_nformals(t, Len(args))
  OBVIOUS
<1>8. sg \in SegType
  BY <1>6 DEF SegOf
<1>. HIDE DEF sg, Seg, nf, base, o, d
<1>9. b \in ActType /\ Spliced(Top, b, sg)
  BY <1>1, <1>8, SplicedIs
<1>10. acts' = With(b) /\ vtop' <= VLimit
  BY <1>1, <1>3 DEF sg
<1>. HIDE DEF b, Next1
<1>11. ActFits(b, s)
  BY <1>1, <1>2, <1>5, <1>6, <1>7, <1>9, SegFits
<1>. QED BY <1>10, <1>11, SwapFits

\* A call is spliced.
LEMMA InlineCallFits ==
    ASSUME NEW s \in Nat, HeadroomSuffices(s), Inv, Fits(s), InRun, NEW t \in DOMAIN Code, NEW args \in Seq(LiveValue),
           Room(2 + Len(args)), Spliceable(t, args), SpliceSlots(t, Len(args)) <= s, emit_inline_call(t, args)
    PROVE  Fits(s)'
<1>1. acts # <<>>
  BY DEF InRun
<1>2. ~Bars(Top.body) /\ Len(Top.segs) < MaxSplices
  BY DEF Spliceable, Bars
<1>3. Len(Top.ops) < Code[View(Top).body].depth
  <2>. DEFINE x == Len(Top.ops)
              d == Code[View(Top).body].depth
              y == Len(args)
  <2>1. x \in Nat /\ d \in Nat
    BY <1>1, TopFits
  <2>2. x + (2 + y) <= d
    BY DEF Room
  <2>3. y \in Nat
    OBVIOUS
  <2>. HIDE DEF x, d, y
  <2>4. x < d
    BY <2>1, <2>2, <2>3
  <2>. QED BY <2>4 DEF x, d
<1>. DEFINE m == store_seam_frame(spill_all(mem, Top), TopOff(Top), <<Callee, This>> \o args, Len(args))
<1>4. SpliceInto(m, Top, t, args)
  BY DEF emit_inline_call
<1>. HIDE DEF m
<1>. QED BY <1>1, <1>2, <1>3, <1>4, SpliceIntoFits

\* A construct is spliced: its frame is staged over the operands while
\* `this` is allocated.
LEMMA InlineConstructFits ==
    ASSUME NEW s \in Nat, HeadroomSuffices(s), Inv, Fits(s), InRun, NEW t \in DOMAIN Code, NEW args \in Seq(LiveValue),
           Room(3 + Len(args)), Spliceable(t, args), SpliceSlots(t, Len(args)) <= s, emit_inline_construct(t, args)
    PROVE  Fits(s)'
<1>. DEFINE popped == <<Callee, Undef>> \o args \o <<Callee>>
            top == TopOff(Top) + Len(popped)
            b == [SetNightTop(Top, top, "splice") EXCEPT !.need = 0, !.target = t, !.actuals = args]
            x == Len(Top.ops)
            d == Code[View(Top).body].depth
            y == Len(args)
            o == View(Top).operands
<1>1. acts # <<>>
  BY DEF InRun
<1>2. ~Bars(Top.body) /\ Len(Top.segs) < MaxSplices
  BY DEF Spliceable, Bars
<1>3. /\ Top \in ActType /\ ActFits(Top, s) /\ x \in Nat /\ d \in Nat /\ o \in Nat /\ o + d < VLimit /\ TopOff(Top) = o + x
      /\ View(Top).body = BodyAt(Top, Len(Top.segs))
  BY <1>1, TopFits
<1>4. x + (3 + y) <= d
  BY DEF Room
<1>5. y \in Nat /\ Len(popped) = 3 + y
  <2>1. /\ <<Callee, Undef>> \o args \in Seq(LiveValue) /\ Len(<<Callee, Undef>> \o args) = 2 + Len(args)
        /\ <<Callee>> \in Seq(LiveValue) /\ Len(<<Callee>>) = 1 /\ y \in Nat
    BY Constants, PairSeq
  <2>. DEFINE p == <<Callee, Undef>> \o args
              q == <<Callee>>
  <2>2. p \in Seq(LiveValue) /\ Len(p) = 2 + y /\ q \in Seq(LiveValue) /\ Len(q) = 1 /\ popped = p \o q /\ y \in Nat
    BY <2>1
  <2>. HIDE DEF p, q, popped, y
  <2>3. Len(p \o q) = Len(p) + Len(q)
    BY <2>2, CatFacts
  <2>. QED BY <2>2, <2>3
<1>6. vtop' = top /\ acts' = With(b)
  BY DEF emit_inline_construct
<1>. HIDE DEF popped
<1>7. SameRoom(Top, b) /\ b.need = 0 /\ b.ops = Top.ops /\ b.mode = "helper" /\ b.want = "splice" /\ b.target = t /\ b.actuals = args
  BY <1>3 DEF ActType, SameRoom, SetNightTop
<1>. HIDE DEF b
<1>8. top <= VLimit /\ x < d
  <2>1. top = (o + x) + (3 + y)
    BY <1>3, <1>5
  <2>. HIDE DEF x, y, o, d, top
  <2>. QED BY <1>3, <1>4, <1>5, <2>1, StackAssumption
<1>. HIDE DEF top
<1>9. BodyAt(b, Len(b.segs)) = BodyAt(Top, Len(Top.segs)) /\ b.segs = Top.segs /\ b.body = Top.body
  BY <1>7, SameReach DEF SameRoom
<1>10. WaitFits(b, s)
  <2>1. Len(b.ops) - b.need < Code[BodyAt(b, Len(b.segs))].depth
    <3>1. Len(b.ops) = x /\ Code[BodyAt(b, Len(b.segs))].depth = d
      BY <1>3, <1>7, <1>9
    <3>. HIDE DEF x, d
    <3>. QED BY <1>3, <1>7, <1>8, <3>1
  <2>. QED BY <1>2, <1>7, <1>9, <2>1 DEF WaitFits
<1>11. ActFits(b, s)
  <2>1. Len(b.ops) \in Nat /\ Len(b.ops) <= Code[BodyAt(Top, Len(Top.segs))].depth /\ b.need \in Nat
    BY <1>1, <1>3, <1>7, TopFits
  <2>. QED BY <1>3, <1>7, <1>10, <2>1, SameRoomFits
<1>. QED BY <1>1, <1>6, <1>8, <1>11, SwapFits

-----------------------------------------------------------------------------
(* The other steps of a running body.                                       *)

\* An operand is pushed.
LEMMA PushOperandFits ==
    ASSUME NEW s \in Nat, HeadroomSuffices(s), Inv, Fits(s), InRun, Room(1),
           acts' = With([Top EXCEPT !.ops = Append(@, Ptr(6))]), UNCHANGED <<mem, vtop>>
    PROVE  Fits(s)'
<1>. DEFINE v == Ptr(6)
            b == [Top EXCEPT !.ops = Append(@, v)]
<1>1. acts # <<>>
  BY DEF InRun
<1>2. Top \in ActType /\ Top.need \in Nat /\ vtop <= VLimit
  BY <1>1, TopFits
<1>3. acts' = With(b) /\ vtop' = vtop
  OBVIOUS
<1>4. v \in Value
  BY Values DEF v
<1>. HIDE DEF v
<1>5. Top.ops \in Seq(Value) /\ Len(Append(Top.ops, v)) = Len(Top.ops) + 1 /\ Len(Top.ops) \in Nat
  <2>1. Top.ops \in Seq(Value)
    BY <1>2, Fields
  <2>. QED BY <1>4, <2>1, PushSeq
<1>6. SameRoom(Top, b) /\ b.need = Top.need /\ b.mode = "run" /\ b.ops = Append(Top.ops, v)
  BY <1>2 DEF ActType, SameRoom, InRun
<1>. HIDE DEF b
<1>7. Len(b.ops) \in Nat /\ Len(b.ops) <= Code[View(Top).body].depth
  BY <1>5, <1>6 DEF Room
<1>8. b.need \in Nat /\ vtop' <= VLimit
  BY <1>2, <1>3, <1>6
<1>. QED BY <1>1, <1>3, <1>6, <1>7, <1>8, RunFits

\* A local is written, in the body's own frame or in a splice's.
LEMMA WriteLocalFits ==
    ASSUME NEW s \in Nat, HeadroomSuffices(s), Inv, Fits(s), InRun,
           acts' = With(IF Top.segs = <<>> THEN [Top EXCEPT !.wrote = TRUE]
                        ELSE [Top EXCEPT !.segs[Len(Top.segs)].wrote = TRUE]),
           UNCHANGED vtop
    PROVE  Fits(s)'
<1>0. acts # <<>> /\ Top.mode = "run"
  BY DEF InRun
<1>1. Top \in ActType /\ ActFits(Top, s) /\ vtop <= VLimit /\ Top.need \in Nat /\ SegsNest(Top) /\ Len(Top.ops) \in Nat
  BY <1>0, TopFits, TopFacts
<1>2. CASE Top.segs = <<>>
  <2>. DEFINE b == [Top EXCEPT !.wrote = TRUE]
  <2>1. acts' = With(b)
    BY <1>2
  <2>2. SameRoom(Top, b) /\ b.need = Top.need /\ b.mode = "run" /\ b.ops = Top.ops
    BY <1>0, <1>1 DEF ActType, SameRoom
  <2>. HIDE DEF b
  <2>3. Len(b.ops) \in Nat /\ Len(b.ops) <= Code[View(Top).body].depth /\ b.need \in Nat
    BY <1>0, <1>1, <2>2, TopFits
  <2>. QED BY <1>0, <1>1, <2>1, <2>2, <2>3, RunFits
<1>3. CASE Top.segs # <<>>
  <2>. DEFINE b == [Top EXCEPT !.segs[Len(Top.segs)].wrote = TRUE]
              N == Len(Top.segs)
              q == [Top.segs[N] EXCEPT !.wrote = TRUE]
  <2>1. acts' = With(b)
    BY <1>3
  <2>2. Top.segs \in Seq(SegType) /\ N \in Nat /\ DOMAIN Top.segs = 1..N /\ N \in 1..N /\ Top.segs[N] \in SegType
    <3>1. Top.segs \in Seq(SegType)
      BY <1>1, Fields
    <3>. QED BY <1>3, <3>1
  <2>3. b.segs = [Top.segs EXCEPT ![N] = q]
    BY <1>1 DEF ActType
  <2>4. /\ b.need = Top.need /\ b.mode = "run" /\ b.ops = Top.ops /\ b.body = Top.body /\ b.sp = Top.sp /\ b.argc = Top.argc
        /\ b.saved = Top.saved
    BY <1>0, <1>1 DEF ActType
  <2>5. b \in ActType
    BY <1>1, <1>3, RewroteSeg
  <2>. HIDE DEF b
  <2>6. /\ q \in SegType /\ q.body = Top.segs[N].body /\ q.base = Top.segs[N].base /\ q.nformals = Top.segs[N].nformals
        /\ q.depth = Top.segs[N].depth
    BY <2>2 DEF SegType
  <2>. HIDE DEF q
  <2>7. enter_frame_view(q).operands = enter_frame_view(Top.segs[N]).operands
    BY <2>6 DEF enter_frame_view
  <2>8. Len(b.segs) = N /\ \A i \in 1..N : b.segs[i] = IF i = N THEN q ELSE Top.segs[i]
    BY <2>2, <2>3
  <2>9. b.segs \in Seq(SegType)
    BY <2>5, Fields
  <2>. HIDE DEF N
  <2>10. RootView(b).operands = RootView(Top).operands
    BY <2>4 DEF RootView, vp
  <2>11. \A i \in 0..N : /\ BodyAt(b, i) = BodyAt(Top, i) /\ Reach(b, i) = Reach(Top, i)
                         /\ i # 0 => b.segs[i].depth = Top.segs[i].depth
    <3>. TAKE i \in 0..N
    <3>1. CASE i = 0
      BY <2>4, <2>10, <3>1 DEF BodyAt, Reach
    <3>2. CASE i # 0
      <4>1. i \in 1..N
        BY <2>2, <3>2
      <4>2. /\ b.segs[i].body = Top.segs[i].body /\ b.segs[i].depth = Top.segs[i].depth
            /\ enter_frame_view(b.segs[i]).operands = enter_frame_view(Top.segs[i]).operands
        BY <2>6, <2>7, <2>8, <4>1
      <4>. QED BY <3>2, <4>2 DEF BodyAt, Reach
    <3>. QED BY <3>1, <3>2
  <2>12. SegsFit(Top, s) /\ N = Len(Top.segs)
    BY <1>1 DEF ActFits, N
  <2>13. SegsFit(b, s)
    <3>1. /\ N <= MaxSplices /\ (Bars(Top.body) => N = 0)
          /\ \A i \in 1..N : /\ Reach(Top, i) <= Reach(Top, 0) + Over(i, s)
                             /\ Top.segs[i].depth < Code[BodyAt(Top, i - 1)].depth
      BY <2>12 DEF SegsFit
    <3>2. \A i \in 1..N : i \in 0..N /\ i - 1 \in 0..N /\ i # 0 /\ 0 \in 0..N
      BY <2>2
    <3>3. \A i \in 1..N : /\ Reach(b, i) <= Reach(b, 0) + Over(i, s)
                          /\ b.segs[i].depth < Code[BodyAt(b, i - 1)].depth
      BY <2>11, <3>1, <3>2
    <3>. QED BY <2>4, <2>8, <2>9, <3>1, <3>3 DEF SegsFit
  <2>14. BodyAt(b, Len(b.segs)) = BodyAt(Top, Len(Top.segs))
    <3>1. N \in 0..N
      BY <2>2
    <3>. QED BY <2>8, <2>11, <2>12, <3>1
  <2>15. WaitFits(b, s)
    BY <2>4 DEF WaitFits
  <2>16. ActFits(b, s)
    BY <1>1, <2>4, <2>13, <2>14, <2>15 DEF ActFits
  <2>. QED BY <1>0, <1>1, <2>1, <2>16, SwapFits
<1>. QED BY <1>2, <1>3

-----------------------------------------------------------------------------
(* Coming back.                                                             *)

\* A caller that goes on has its operands less what the call popped, and the
\* result.
LEMMA ContinueFits ==
    ASSUME NEW s, NEW a \in ActType, ActShape(a), ActFits(a, s),
           a.mode = "call" \/ (a.mode = "helper" /\ a.want \notin {"env", "args"}), NEW m
    PROVE  ActFits(Continue(m, a), s)
<1>. DEFINE o == View(a).operands
            n == Len(a.ops)
            q == n - a.need
            d == Code[BodyAt(a, Len(a.segs))].depth
            S == {m[o + i - 1] : i \in 1..n} \cup {m[TopOff(a)]}
            r == ReadSlots(m, o, n)
            h == SubSeq(r, 1, q)
            ops == Append(h, m[TopOff(a)])
            b == Continue(m, a)
<1>1. n \in Nat /\ a.need \in Nat /\ a.need <= n
  BY Fields DEF ActShape
<1>2. q < d
  BY DEF ActFits, WaitFits
<1>3. d \in Nat
  <2>1. a.body \in DOMAIN Code /\ a.sp \in Nat /\ a.argc \in Nat /\ a.segs \in Seq(SegType)
    BY Fields
  <2>. QED BY <2>1, ViewAt
<1>. HIDE DEF n
<1>4. r \in Seq(S) /\ Len(r) = n
  <2>1. \A i \in 1..n : m[o + i - 1] \in S
    OBVIOUS
  <2>. HIDE DEF S
  <2>. QED BY <1>1, <2>1 DEF ReadSlots
<1>5. b = [a EXCEPT !.mode = "run", !.ops = ops]
  BY <1>4 DEF Continue, Popped, reload, n
<1>6. q \in Nat /\ q <= n
  BY <1>1
<1>7. m[TopOff(a)] \in S
  OBVIOUS
<1>. HIDE DEF r, b, S, d, q
<1>8. h \in Seq(S) /\ Len(h) = q
  BY <1>4, <1>6, HeadSeq
<1>. HIDE DEF h
<1>9. Len(ops) = q + 1
  BY <1>7, <1>8, PushSeq
<1>. HIDE DEF ops
<1>10. SameRoom(a, b) /\ b.mode = "run" /\ b.ops = ops /\ b.need = a.need
  BY <1>5 DEF ActType, SameRoom
<1>11. Len(b.ops) \in Nat /\ Len(b.ops) <= d
  BY <1>2, <1>3, <1>6, <1>9, <1>10
<1>12. WaitFits(b, s)
  BY <1>10 DEF WaitFits
<1>13. ActFits(b, s)
  BY <1>1, <1>10, <1>11, <1>12, SameRoomFits DEF d
<1>. QED BY <1>13 DEF b

\* A body that catches an error goes on with no operands.
LEMMA CatchFits ==
    ASSUME NEW s, NEW a \in ActType, ActFits(a, s)
    PROVE  ActFits([a EXCEPT !.mode = "run", !.ops = <<>>], s)
<1>. DEFINE b == [a EXCEPT !.mode = "run", !.ops = <<>>]
<1>1. SameRoom(a, b) /\ b.mode = "run" /\ b.ops = <<>> /\ b.need = a.need
  BY DEF ActType, SameRoom
<1>. HIDE DEF b
<1>2. Code[BodyAt(a, Len(a.segs))].depth \in Nat
  <2>1. a.body \in DOMAIN Code /\ a.sp \in Nat /\ a.argc \in Nat /\ a.segs \in Seq(SegType)
    BY Fields
  <2>. QED BY <2>1, ViewAt
<1>3. Len(b.ops) = 0 /\ b.need \in Nat
  BY <1>1, Fields
<1>4. WaitFits(b, s)
  BY <1>1 DEF WaitFits
<1>5. ActFits(b, s)
  BY <1>1, <1>2, <1>3, <1>4, SameRoomFits
<1>. QED BY <1>5 DEF b

\* What the prologue has still to build is under the frame's operands.
LEMMA BuildFits ==
    ASSUME NEW s \in Nat, HeadroomSuffices(s), Inv, Fits(s), acts # <<>>, Top.ops = <<>>, NEW m, NEW from, Build(m, Top, from)
    PROVE  Fits(s)'
<1>. DEFINE c == Code[Top.body]
            want == IF from = "env" /\ c.env = "setup" THEN "env" ELSE IF c.args = "mapped" THEN "args" ELSE "none"
<1>1. /\ Top \in ActType /\ ActFits(Top, s) /\ vtop <= VLimit /\ Top.need \in Nat /\ TopOff(Top) < VLimit
      /\ Code[View(Top).body].depth \in Nat /\ View(Top).body = BodyAt(Top, Len(Top.segs))
  BY TopFits
<1>2. Len(Top.ops) = 0
  OBVIOUS
<1>3. CASE want = "none"
  <2>. DEFINE b == [Top EXCEPT !.mode = "run"]
  <2>1. acts' = With(b) /\ vtop' = vtop
    BY <1>3 DEF Build
  <2>2. SameRoom(Top, b) /\ b.mode = "run" /\ b.need = Top.need /\ b.ops = Top.ops
    BY <1>1 DEF ActType, SameRoom
  <2>. HIDE DEF b
  <2>3. Len(b.ops) \in Nat /\ Len(b.ops) <= Code[View(Top).body].depth /\ b.need \in Nat /\ vtop' <= VLimit
    BY <1>1, <1>2, <2>1, <2>2
  <2>. QED BY <2>1, <2>2, <2>3, RunFits
<1>4. CASE want # "none"
  <2>. DEFINE b == SetNightTop(Top, TopOff(Top), want)
  <2>1. acts' = With(b) /\ vtop' = TopOff(Top) /\ want \in {"env", "args"}
    BY <1>4 DEF Build
  <2>. HIDE DEF want
  <2>2. SameRoom(Top, b) /\ b.mode = "helper" /\ b.need = Top.need /\ b.ops = Top.ops /\ b.want = want
    BY <1>1 DEF ActType, SameRoom, SetNightTop
  <2>. HIDE DEF b
  <2>3. WaitFits(b, s)
    BY <2>1, <2>2 DEF WaitFits
  <2>4. Len(b.ops) \in Nat /\ Len(b.ops) <= Code[BodyAt(Top, Len(Top.segs))].depth /\ b.need \in Nat
    BY <1>1, <1>2, <2>2
  <2>5. ActFits(b, s)
    BY <1>1, <2>2, <2>3, <2>4, SameRoomFits
  <2>6. vtop' <= VLimit
    <3>1. TopOff(Top) \in Nat
      BY TopFacts
    <3>. QED BY <1>1, <2>1, <3>1, StackAssumption
  <2>. QED BY <2>1, <2>5, <2>6, SwapFits
<1>. QED BY <1>3, <1>4

\* Every return of a helper.
LEMMA HelperReturnFits ==
    ASSUME NEW s \in Nat, HeadroomSuffices(s), Inv, Fits(s), InHelper, NEW v, HelperReturn(v)
    PROVE  Fits(s)'
<1>0. acts # <<>> /\ Top.mode = "helper"
  BY DEF InHelper
<1>1. /\ Top \in ActType /\ ActShape(Top) /\ ActFits(Top, s) /\ vtop <= VLimit /\ Top.need \in Nat
      /\ View(Top).body = BodyAt(Top, Len(Top.segs)) /\ Len(Top.ops) \in Nat /\ Len(Top.ops) <= Code[View(Top).body].depth
  BY <1>0, TopFits
<1>2. /\ Top.want \in {"op", "env", "args", "splice", "new"} /\ Top.target \in DOMAIN Code
      /\ Top.actuals \in Seq(LiveValue) /\ Len(Top.actuals) \in Nat
  BY <1>1, Fields
<1>. DEFINE m == [mem EXCEPT ![vtop] = v]
<1>3. CASE Top.want = "op"
  <2>. DEFINE b == Continue(m, Top)
  <2>1. acts' = With(b) /\ vtop' = vtop
    BY <1>3 DEF HelperReturn
  <2>2. ActFits(b, s)
    BY <1>0, <1>1, <1>3, ContinueFits
  <2>. HIDE DEF b
  <2>. QED BY <1>0, <1>1, <2>1, <2>2, SwapFits
<1>4. CASE Top.want = "env"
  <2>1. Build([m EXCEPT ![RootView(Top).env] = v], Top, "args")
    BY <1>4 DEF HelperReturn
  <2>2. Top.ops = <<>>
    BY <1>0, <1>1, <1>4 DEF ActShape
  <2>. QED BY <1>0, <2>1, <2>2, BuildFits
<1>5. CASE Top.want = "args"
  <2>. DEFINE b == [Top EXCEPT !.mode = "run"]
  <2>1. acts' = With(b) /\ vtop' = vtop
    BY <1>5 DEF HelperReturn
  <2>2. SameRoom(Top, b) /\ b.mode = "run" /\ b.need = Top.need /\ b.ops = Top.ops
    BY <1>1 DEF ActType, SameRoom
  <2>. HIDE DEF b
  <2>. QED BY <1>0, <1>1, <2>1, <2>2, RunFits
<1>6. CASE Top.want = "splice"
  <2>1. SpliceInto([m EXCEPT ![TopOff(Top) + 1] = v], Top, Top.target, Top.actuals)
    BY <1>6 DEF HelperReturn
  <2>2. /\ Len(Top.segs) < MaxSplices /\ ~Bars(Top.body) /\ SpliceSlots(Top.target, Len(Top.actuals)) <= s
        /\ Top.need = 0 /\ Len(Top.ops) - Top.need < Code[View(Top).body].depth
    BY <1>0, <1>1, <1>6 DEF ActFits, WaitFits
  <2>3. Len(Top.ops) < Code[View(Top).body].depth
    BY <1>1, <2>2
  <2>. QED BY <1>0, <1>2, <2>1, <2>2, <2>3, SpliceIntoFits
<1>7. CASE Top.want = "new"
  <2>1. EnterDirect([m EXCEPT ![TopOff(Top) - Top.need + 1] = v], Top, Top.target, Top.actuals)
    BY <1>7 DEF HelperReturn
  <2>2. TopOff(Top) + 2 + Len(Top.actuals) + Headroom <= VLimit /\ Len(Top.ops) - Top.need < Code[View(Top).body].depth
    BY <1>0, <1>1, <1>7 DEF ActFits, WaitFits
  <2>3. Top.need <= Len(Top.ops) /\ 2 + Len(Top.actuals) <= Top.need
    <3>1. Top.need <= Len(Top.ops) /\ Top.need = Len(Top.actuals) + 3
      BY <1>0, <1>1, <1>7 DEF ActShape
    <3>. QED BY <1>2, <3>1
  <2>4. SameRoom(Top, Top)
    BY DEF SameRoom
  <2>. QED BY <1>0, <1>1, <1>2, <2>1, <2>2, <2>3, <2>4, EnterDirectFits
<1>. QED BY <1>2, <1>3, <1>4, <1>5, <1>6, <1>7

\* A spliced callee returns: its caller kept an operand free.
LEMMA SpliceReturnFits ==
    ASSUME NEW s \in Nat, HeadroomSuffices(s), Inv, Fits(s), InRun, Top.segs # <<>>, NEW v, SpliceReturn(v)
    PROVE  Fits(s)'
<1>. DEFINE N == Len(Top.segs)
            g == Top.segs[N]
            rd == ReadSlots(mem, g.operands, g.depth)
            ops == Append(rd, v)
            sg == SubSeq(Top.segs, 1, N - 1)
            b == [Top EXCEPT !.segs = sg, !.ops = ops]
<1>0. acts # <<>> /\ Top.mode = "run"
  BY DEF InRun
<1>1. Top \in ActType /\ ActFits(Top, s) /\ vtop <= VLimit /\ Top.need \in Nat
  BY <1>0, TopFits
<1>2. vtop' = vtop /\ acts' = With(b)
  BY DEF SpliceReturn
<1>3. /\ Top.segs \in Seq(SegType) /\ sg \in Seq(SegType) /\ Len(sg) = N - 1 /\ N \in Nat /\ N >= 1
      /\ \A i \in 1..(N - 1) : sg[i] = Top.segs[i]
  <2>1. Top.segs \in Seq(SegType)
    BY <1>1, Fields
  <2>. QED BY <2>1, PopSeq
<1>4. /\ b.segs = sg /\ b.ops = ops /\ b.body = Top.body /\ b.sp = Top.sp /\ b.argc = Top.argc /\ b.saved = Top.saved
      /\ b.mode = "run" /\ b.need = Top.need
  BY <1>0, <1>1 DEF ActType
<1>. HIDE DEF b, sg
<1>5. N \in 1..N /\ g.depth \in Nat
  <2>1. N \in 1..N
    BY <1>3
  <2>2. g \in SegType
    BY <1>3, <2>1
  <2>. QED BY <2>1, <2>2 DEF SegType
<1>6. Len(ops) = g.depth + 1
  <2>. DEFINE n == g.depth
              f == g.operands
              S == {mem[f + i - 1] : i \in 1..n} \cup {v}
  <2>1. (\A i \in 1..n : mem[f + i - 1] \in S) /\ v \in S /\ n \in Nat /\ rd = ReadSlots(mem, f, n)
    BY <1>5
  <2>. HIDE DEF S, n, f, rd
  <2>2. rd \in Seq(S) /\ Len(rd) = n
    BY <2>1 DEF ReadSlots
  <2>3. Len(Append(rd, v)) = n + 1
    BY <2>1, <2>2, PushSeq
  <2>. QED BY <2>3 DEF n
<1>7. /\ N <= MaxSplices /\ (Bars(Top.body) => N = 0)
      /\ \A i \in 1..N : /\ Reach(Top, i) <= Reach(Top, 0) + Over(i, s)
                         /\ Top.segs[i].depth < Code[BodyAt(Top, i - 1)].depth
  BY <1>1 DEF ActFits, SegsFit
<1>8. g.depth < Code[BodyAt(Top, N - 1)].depth
  BY <1>5, <1>7
<1>. DEFINE M == N - 1
<1>9. M \in Nat /\ M <= N /\ Len(b.segs) = M /\ (\A i \in 1..M : i \in 1..N /\ i \in 0..M /\ i - 1 \in 0..M) /\ 0 \in 0..M /\ M \in 0..M
  BY <1>3, <1>4
<1>10. \A i \in 1..M : b.segs[i] = Top.segs[i]
  BY <1>3, <1>4
<1>. HIDE DEF N, M, g, ops
<1>11. RootView(b).operands = RootView(Top).operands
  BY <1>4 DEF RootView, vp
<1>12. \A i \in 0..M : BodyAt(b, i) = BodyAt(Top, i) /\ Reach(b, i) = Reach(Top, i)
  <2>. TAKE i \in 0..M
  <2>1. CASE i = 0
    BY <1>4, <1>11, <2>1 DEF BodyAt, Reach
  <2>2. CASE i # 0
    <3>0. i \in 1..M
      BY <1>9, <2>2
    <3>1. b.segs[i] = Top.segs[i]
      BY <1>10, <3>0
    <3>. QED BY <2>2, <3>1 DEF BodyAt, Reach
  <2>. QED BY <2>1, <2>2
<1>13. SegsFit(b, s)
  <2>1. b.segs \in Seq(SegType) /\ Len(b.segs) <= MaxSplices /\ (Bars(b.body) => Len(b.segs) = 0)
    BY <1>3, <1>4, <1>7, <1>9, StackAssumption
  <2>2. \A i \in 1..M : /\ Reach(b, i) <= Reach(b, 0) + Over(i, s)
                        /\ b.segs[i].depth < Code[BodyAt(b, i - 1)].depth
    BY <1>7, <1>9, <1>10, <1>12
  <2>. QED BY <1>9, <2>1, <2>2 DEF SegsFit
<1>14. Len(b.ops) \in Nat /\ Len(b.ops) <= Code[BodyAt(b, Len(b.segs))].depth
  <2>. DEFINE d == Code[BodyAt(Top, M)].depth
  <2>1. BodyAt(b, Len(b.segs)) = BodyAt(Top, M) /\ g.depth < d
    BY <1>8, <1>9, <1>12 DEF M
  <2>2. d \in Nat
    <3>1. b.body \in DOMAIN Code /\ b.sp \in Nat /\ b.argc \in Nat /\ b.segs \in Seq(SegType)
      BY <1>1, <1>3, <1>4, Fields
    <3>2. Code[BodyAt(b, Len(b.segs))].depth \in Nat
      BY <3>1, ViewAt
    <3>. QED BY <2>1, <3>2
  <2>. HIDE DEF d
  <2>3. g.depth + 1 <= d /\ g.depth + 1 \in Nat
    BY <1>5, <2>1, <2>2
  <2>. QED BY <1>4, <1>6, <2>1, <2>3 DEF d
<1>15. WaitFits(b, s)
  BY <1>4 DEF WaitFits
<1>16. ActFits(b, s)
  BY <1>1, <1>4, <1>13, <1>14, <1>15 DEF ActFits
<1>. QED BY <1>0, <1>1, <1>2, <1>16, SwapFits

\* The engine gets its top back.
LEMMA LeaveFits ==
    ASSUME NEW s \in Nat, HeadroomSuffices(s), Inv, Fits(s), acts # <<>>, Leave(mem)
    PROVE  Fits(s)'
<1>1. acts' = Below /\ vtop' = Top.saved
  BY DEF Leave
<1>2. ActFits(Top, s)
  BY TopFits
<1>3. Top.saved <= VLimit
  BY <1>2 DEF ActFits
<1>. QED BY <1>1, <1>3, PopFits

\* The caller of the innermost activation.
LEMMA CallerFits ==
    ASSUME NEW s \in Nat, HeadroomSuffices(s), Inv, Fits(s), acts # <<>>, Top.kind = "direct", NEW a, a = Below[Len(Below)]
    PROVE  Below # <<>> /\ a \in ActType /\ ActShape(a) /\ a.mode = "call" /\ ActFits(a, s) /\ vtop <= VLimit
<1>1. Below # <<>> /\ a \in ActType /\ ActShape(a) /\ a.mode = "call"
  BY CallerFacts
<1>2. Below \in Seq(ActType) /\ \A i \in DOMAIN Below : ActFits(Below[i], s)
  BY PopFits
<1>3. Len(Below) \in DOMAIN Below
  BY <1>1, <1>2
<1>4. ActFits(a, s)
  BY <1>2, <1>3
<1>. QED BY <1>1, <1>4 DEF Fits

\* Every return of a body.
LEMMA ReturnFits ==
    ASSUME NEW s \in Nat, HeadroomSuffices(s), Inv, Fits(s), InRun, NEW v, emit_return_value(v)
    PROVE  Fits(s)'
<1>0. acts # <<>>
  BY DEF InRun
<1>1. CASE Top.segs # <<>>
  BY <1>1, SpliceReturnFits DEF emit_return_value
<1>2. CASE Top.segs = <<>> /\ Top.kind # "direct"
  BY <1>0, <1>2, LeaveFits DEF emit_return_value
<1>3. CASE Top.segs = <<>> /\ Top.kind = "direct"
  <2>. DEFINE a == Below[Len(Below)]
              m == [mem EXCEPT ![TopOff(a)] = v]
              b == Continue(m, a)
  <2>1. vtop' = vtop /\ acts' = SubSeq(Below, 1, Len(Below) - 1) \o <<b>>
    BY <1>3 DEF emit_return_value
  <2>2. Below # <<>> /\ a \in ActType /\ ActShape(a) /\ a.mode = "call" /\ ActFits(a, s) /\ vtop <= VLimit
    BY <1>0, <1>3, CallerFits
  <2>. HIDE DEF m, a
  <2>3. ActFits(b, s)
    BY <2>2, ContinueFits
  <2>. HIDE DEF b
  <2>. QED BY <1>0, <2>1, <2>2, <2>3, PopSwapFits
<1>. QED BY <1>1, <1>2, <1>3

\* An error leaves the frame.
LEMMA ThrowsFits ==
    ASSUME NEW s \in Nat, HeadroomSuffices(s), Inv, Fits(s), acts # <<>>, Throws
    PROVE  Fits(s)'
<1>1. CASE Top.kind # "direct"
  BY <1>1, LeaveFits DEF Throws
<1>2. CASE Top.kind = "direct"
  <2>. DEFINE a == Below[Len(Below)]
              b == [a EXCEPT !.mode = "run", !.ops = <<>>]
  <2>1. vtop' = vtop /\ acts' = SubSeq(Below, 1, Len(Below) - 1) \o <<b>>
    BY <1>2 DEF Throws
  <2>2. Below # <<>> /\ a \in ActType /\ ActFits(a, s) /\ vtop <= VLimit
    BY <1>2, CallerFits
  <2>3. ActFits(b, s)
    BY <2>2, CatchFits
  <2>. HIDE DEF a, b
  <2>. QED BY <2>1, <2>2, <2>3, PopSwapFits
<1>. QED BY <1>1, <1>2

\* Everything that comes back.
LEMMA BackFits ==
    ASSUME NEW s \in Nat, HeadroomSuffices(s), Inv, Fits(s), Back
    PROVE  Fits(s)'
<1>1. CASE InHelper /\ HelperReturn(Ptr(9))
  BY <1>1, HelperReturnFits
<1>2. CASE InHelper /\ acts' = With([Top EXCEPT !.mode = "run", !.ops = <<>>]) /\ UNCHANGED <<mem, vtop>>
  <2>. DEFINE b == [Top EXCEPT !.mode = "run", !.ops = <<>>]
  <2>1. acts # <<>> /\ acts' = With(b) /\ vtop' = vtop
    BY <1>2 DEF InHelper
  <2>2. Top \in ActType /\ ActFits(Top, s) /\ vtop <= VLimit
    BY <2>1, TopFits
  <2>3. ActFits(b, s)
    BY <2>2, CatchFits
  <2>. HIDE DEF b
  <2>. QED BY <2>1, <2>2, <2>3, SwapFits
<1>3. CASE InRun /\ emit_return_value(Ptr(9))
  BY <1>3, ReturnFits
<1>4. CASE (InRun \/ InHelper) /\ Throws
  BY <1>4, ThrowsFits DEF InRun, InHelper
<1>. QED BY <1>1, <1>2, <1>3, <1>4 DEF Back

-----------------------------------------------------------------------------
(* The rest.                                                                *)

\* The prologue, and a generator's dispatch, which pushes four operands.
LEMMA BeginFits ==
    ASSUME NEW s \in Nat, HeadroomSuffices(s), Inv, Fits(s), Begin
    PROVE  Fits(s)'
<1>0. acts # <<>> /\ Top.mode = "entry"
  BY DEF Begin
<1>1. Top \in ActType /\ ActShape(Top) /\ ActFits(Top, s) /\ vtop <= VLimit /\ Top.need \in Nat
  BY <1>0, TopFits
<1>2. Top.segs = <<>> /\ Top.ops = <<>> /\ (Top.kind = "resume" => Code[Top.body].gen)
  BY <1>0, <1>1 DEF ActShape
<1>3. CASE Top.kind = "resume"
  <2>. DEFINE desc == ReadSlots(mem, RootView(Top).locals, 3)
              ops == <<GenFrame(mem, Top)[RootView(Top).operands], desc[3], desc[2], desc[1]>>
              b == [Top EXCEPT !.mode = "run", !.wrote = TRUE, !.ops = ops]
  <2>1. acts' = With(b) /\ vtop' = vtop
    BY <1>3 DEF Begin, finalize_gen_dispatch, GenFrame
  <2>. HIDE DEF desc
  <2>2. Len(ops) = 4
    OBVIOUS
  <2>. HIDE DEF ops
  <2>3. SameRoom(Top, b) /\ b.mode = "run" /\ b.ops = ops /\ b.need = Top.need
    BY <1>1 DEF ActType, SameRoom
  <2>. HIDE DEF b
  <2>4. View(Top).body = Top.body /\ Top.body \in DOMAIN Code
    BY <1>1, <1>2, Fields DEF View, RootView
  <2>5. 4 <= Code[View(Top).body].depth
    BY <1>2, <1>3, <2>4, CodeAssumption
  <2>6. Len(b.ops) \in Nat /\ Len(b.ops) <= Code[View(Top).body].depth
    <3>1. Len(b.ops) = 4
      BY <2>2, <2>3
    <3>. QED BY <2>5, <3>1
  <2>7. b.need \in Nat /\ vtop' <= VLimit
    BY <1>1, <2>1, <2>3
  <2>. QED BY <1>0, <2>1, <2>3, <2>6, <2>7, RunFits
<1>4. CASE Top.kind # "resume"
  <2>. DEFINE m == emit_env_setup(InitSlots(emit_formal_padding(mem, Top), Top), Top)
  <2>1. Build(m, Top, "env")
    BY <1>4 DEF Begin, emit_frame_prologue
  <2>. HIDE DEF m
  <2>. QED BY <1>0, <1>2, <2>1, BuildFits
<1>. QED BY <1>3, <1>4

\* The engine enters where the headroom is free.
LEMMA ReenterFits ==
    ASSUME NEW s \in Nat, HeadroomSuffices(s), Inv, Fits(s), Reenter
    PROVE  Fits(s)'
<1>0. vtop \in Nat /\ acts \in Seq(ActType) /\ vtop <= VLimit /\ \A i \in DOMAIN acts : ActFits(acts[i], s)
  <2>1. CanEnter
    BY DEF Reenter
  <2>. QED BY <2>1, EntryFacts DEF Fits
<1>1. ASSUME NEW e \in Calls("engine", "resume"), EnterNightResume(e.to) PROVE Fits(s)'
  <2>. DEFINE t == e.to
              n == Code[t].nargs
              c == Act(t, vtop, 0, "resume", vtop, <<>>)
  <2>1. t \in DOMAIN Code /\ n \in Nat
    BY EdgesAssumption, CodeAssumption DEF Calls
  <2>2. acts' = Append(acts, c) /\ vtop' = vtop + 2 + n /\ vtop + 2 + n + 3 + Headroom <= VLimit
    BY <1>1 DEF EnterNightResume
  <2>. HIDE DEF n, t
  <2>3. vtop + 2 + 0 + Headroom <= VLimit /\ vtop' <= VLimit
    BY <1>0, <2>1, <2>2, StackAssumption
  <2>4. ActFits(c, s)
    BY <1>0, <2>1, <2>3, NewFits
  <2>. HIDE DEF c
  <2>. QED BY <1>0, <2>2, <2>3, <2>4, PushFits
<1>2. ASSUME NEW e \in Calls("engine", "call"), EnterNight(e.to, e.args) PROVE Fits(s)'
  <2>. DEFINE t == e.to
              args == e.args
              n == Larger(Len(args), Code[t].nargs)
              c == Act(t, vtop, Len(args), "engine", vtop, args)
  <2>1. t \in DOMAIN Code /\ args \in Seq(LiveValue)
    BY EdgesAssumption DEF Calls
  <2>2. acts' = Append(acts, c) /\ vtop' = vtop + 2 + n /\ vtop + 2 + n + Headroom <= VLimit
    BY <1>2 DEF EnterNight
  <2>3. Len(args) \in Nat /\ Code[t].nargs \in Nat
    BY <2>1, CodeAssumption
  <2>4. n \in Nat /\ Len(args) <= n
    BY <2>3 DEF Larger
  <2>. HIDE DEF n, t, args
  <2>5. vtop + 2 + Len(args) + Headroom <= VLimit /\ vtop' <= VLimit
    BY <1>0, <2>2, <2>3, <2>4, StackAssumption
  <2>6. ActFits(c, s)
    BY <1>0, <2>1, <2>3, <2>5, NewFits
  <2>. HIDE DEF c
  <2>. QED BY <1>0, <2>2, <2>5, <2>6, PushFits
<1>3. ASSUME NEW e \in Calls("engine", "call"), NightApplyOrCall(e.to, e.args) PROVE Fits(s)'
  <2>1. EnterNight(e.to, e.args) \/ (vtop' = vtop /\ acts' = acts)
    BY <1>3 DEF NightApplyOrCall
  <2>2. CASE vtop' = vtop /\ acts' = acts
    BY <1>0, <2>2 DEF Fits
  <2>. QED BY <1>2, <2>1, <2>2
<1>. QED BY <1>1, <1>2, <1>3 DEF Reenter

\* A collection changes no frame.
LEMMA TraceFits ==
    ASSUME NEW s \in Nat, HeadroomSuffices(s), Inv, Fits(s), trace
    PROVE  Fits(s)'
<1>1. acts' = [i \in DOMAIN acts |-> Forward(acts[i])] /\ vtop' = vtop
  BY DEF trace, Forward
<1>2. acts \in Seq(ActType)
  BY DEF Inv, Stacked
<1>3. ASSUME NEW i \in DOMAIN acts PROVE ActFits(Forward(acts[i]), s)
  <2>. DEFINE a == acts[i]
              b == Forward(a)
  <2>1. a \in ActType /\ ActFits(a, s)
    BY <1>2 DEF Fits
  <2>2. Forwarded(a, b)
    BY <2>1, ForwardIs
  <2>. HIDE DEF a, b
  <2>3. /\ b.mode = a.mode /\ b.want = a.want /\ b.need = a.need /\ b.target = a.target /\ b.actuals = a.actuals
        /\ Len(b.ops) = Len(a.ops) /\ SameRoom(a, b)
    BY <2>2 DEF Forwarded, SameFrame, SameRoom
  <2>4. b.segs = a.segs /\ b.body = a.body /\ BodyAt(b, Len(b.segs)) = BodyAt(a, Len(a.segs)) /\ TopOff(b) = TopOff(a)
    BY <2>3, SameReach DEF SameRoom, TopOff
  <2>5. WaitFits(a, s) /\ a.need \in Nat /\ Len(a.ops) \in Nat /\ Len(a.ops) <= Code[BodyAt(a, Len(a.segs))].depth
    BY <2>1 DEF ActFits
  <2>6. WaitFits(b, s)
    BY <2>3, <2>4, <2>5 DEF WaitFits
  <2>7. ActFits(b, s)
    BY <2>1, <2>3, <2>5, <2>6, SameRoomFits
  <2>. QED BY <2>7 DEF a, b
<1>. QED BY <1>1, <1>3 DEF Fits

\* Everything a running body does.
LEMMA WorkFits ==
    ASSUME NEW s \in Nat, HeadroomSuffices(s), Inv, Fits(s), Work
    PROVE  Fits(s)'
<1>0. InRun /\ acts # <<>>
  BY DEF Work, InRun
<1>1. \A how : \A e \in Calls(View(Top).body, how) : e.to \in DOMAIN Code /\ e.args \in Seq(LiveValue)
  BY EdgesAssumption DEF Calls
<1>2. \A how \in {"splice", "splice new"} : \A e \in Calls(View(Top).body, how) : SpliceSlots(e.to, Len(e.args)) <= s
  BY DEF HeadroomSuffices, Calls
<1>3. CASE Room(1) /\ HelperCall(Top, <<>>, 0, "op")
  <2>. DEFINE more == <<>>
              z == 0
  <2>1. more \in Seq(LiveValue) /\ z \in Nat /\ Len(more) = 0 /\ z = 0 /\ HelperCall(Top, more, z, "op")
    BY <1>3
  <2>. HIDE DEF more, z
  <2>2. /\ Len(Top.ops) + Len(more) <= Code[View(Top).body].depth
        /\ Len(Top.ops) + Len(more) - z < Code[View(Top).body].depth
    <3>. DEFINE x == Len(Top.ops)
                d == Code[View(Top).body].depth
    <3>1. x \in Nat /\ d \in Nat
      BY <1>0, TopFits
    <3>2. x + 1 <= d
      BY <1>3 DEF Room
    <3>. HIDE DEF x, d
    <3>3. x + Len(more) <= d /\ x + Len(more) - z < d
      BY <2>1, <3>1, <3>2
    <3>. QED BY <3>3 DEF x, d
  <2>. QED BY <1>0, <2>1, <2>2, HelperCallFits
<1>4. ASSUME NEW e \in Calls(View(Top).body, "call"), Room(2 + Len(e.args)), DirectCall(e.to, e.args) PROVE Fits(s)'
  BY <1>0, <1>1, <1>4, DirectCallFits
<1>5. ASSUME NEW e \in Calls(View(Top).body, "new"), Room(3 + Len(e.args)), DirectConstruct(e.to, e.args) PROVE Fits(s)'
  BY <1>0, <1>1, <1>5, DirectConstructFits
<1>6. ASSUME NEW e \in Calls(View(Top).body, "splice"), Room(2 + Len(e.args)), Spliceable(e.to, e.args),
             emit_inline_call(e.to, e.args)
      PROVE  Fits(s)'
  BY <1>0, <1>1, <1>2, <1>6, InlineCallFits
<1>7. ASSUME NEW e \in Calls(View(Top).body, "splice new"), Room(3 + Len(e.args)), Spliceable(e.to, e.args),
             emit_inline_construct(e.to, e.args)
      PROVE  Fits(s)'
  BY <1>0, <1>1, <1>2, <1>7, InlineConstructFits
<1>8. CASE Room(1) /\ acts' = With([Top EXCEPT !.ops = Append(@, Ptr(6))]) /\ UNCHANGED <<mem, vtop>>
  BY <1>0, <1>8, PushOperandFits
<1>9. CASE /\ acts' = With(IF Top.segs = <<>> THEN [Top EXCEPT !.wrote = TRUE]
                           ELSE [Top EXCEPT !.segs[Len(Top.segs)].wrote = TRUE])
           /\ UNCHANGED vtop
  BY <1>0, <1>9, WriteLocalFits
<1>. QED BY <1>3, <1>4, <1>5, <1>6, <1>7, <1>8, <1>9 DEF Work

\* The empty stack fits.
LEMMA FitInit ==
    ASSUME NEW s
    PROVE  VsInit => Fits(s)
BY StackAssumption DEF VsInit, Fits

\* Every step keeps all frames within the headroom, one case per action.
LEMMA FitStep ==
    ASSUME NEW s \in Nat, HeadroomSuffices(s)
    PROVE  Inv /\ Fits(s) /\ [VsNext]_vsVars => Fits(s)'
<1>. SUFFICES ASSUME Inv, Fits(s), [VsNext]_vsVars PROVE Fits(s)'
  OBVIOUS
<1>1. CASE Reenter
  BY <1>1, ReenterFits
<1>2. CASE Work
  BY <1>2, WorkFits
<1>3. CASE trace
  BY <1>3, TraceFits
<1>4. CASE Begin
  BY <1>4, BeginFits
<1>5. CASE Back
  BY <1>5, BackFits
<1>6. CASE UNCHANGED vsVars
  <2>1. vtop' = vtop /\ acts' = acts
    BY <1>6 DEF vsVars
  <2>. QED BY <2>1 DEF Fits
<1>. QED BY <1>1, <1>2, <1>3, <1>4, <1>5, <1>6 DEF VsNext


-----------------------------------------------------------------------------
(* The theorems.                                                            *)

\* The stack's invariant, as long as no body uses more than the headroom it
\* was entered with (kNightStackHeadroomSlots, which nothing checks).
THEOREM StackInvariant == VsSpec /\ []WithinLimit => []Inv
<1>. QED BY InvInit, InvStep, PTL DEF VsSpec

\* NightStack::trace forwards only values, and every frame, splice and
\* operand in flight was reached by it: for every program, every
\* interleaving of collections, re-entries and errors.
THEOREM RootedCorrect == VsSpec /\ []WithinLimit => []Rooted
<1>. QED BY StackInvariant, InvRooted, PTL

\* AutoNightReentry: a helper that re-entered compiled code goes on with the
\* top it set, and the engine with an empty stack.
THEOREM TopCorrect == VsSpec /\ []WithinLimit => []TopIsBack
<1>. QED BY StackInvariant, InvTop, PTL

\* Activations nest: none starts in the slots another still needs.
THEOREM NestedCorrect == VsSpec /\ []WithinLimit => []Nested
<1>. QED BY StackInvariant, InvNested, PTL

\* A body finds its arguments as the call passed them whether the engine, a
\* direct call or a splice built its frame, unless a splice passes a raw
\* number past the formals (version.rs:1121).
THEOREM FrameCorrect ==
    ASSUME ~RawSurplus
    PROVE  VsSpec /\ []WithinLimit => []FrameAsCalled
<1>. QED BY StackInvariant, InvFrame, PTL

\* The headroom suffices: no frame and no published top reaches past the
\* stack and activations nest, for every program whose frames and splices
\* have fewer slots than the headroom (kNightStackHeadroomSlots).
THEOREM FitsCorrect ==
    ASSUME NEW s \in Nat, HeadroomSuffices(s)
    PROVE  VsSpec => []FramesFit
<1>1. VsInit => Inv /\ Fits(s)
  BY InvInit, FitInit
<1>2. Inv /\ Fits(s) /\ [VsNext]_vsVars => Inv' /\ Fits(s)'
  <2>. SUFFICES ASSUME Inv, Fits(s), [VsNext]_vsVars PROVE Inv' /\ Fits(s)'
    OBVIOUS
  <2>1. Fits(s)'
    BY FitStep
  <2>2. WithinLimit /\ WithinLimit'
    BY <2>1, FitWithin, PTL
  <2>3. Inv'
    BY <2>2, InvStep
  <2>. QED BY <2>1, <2>3
<1>3. Inv /\ Fits(s) => FramesFit
  BY FitWithin, InvNested DEF FramesFit
<1>. QED BY <1>1, <1>2, <1>3, PTL DEF VsSpec

\* So for those programs nothing is assumed of the run: what a collection
\* forwards is valid, nothing in use is stale, a helper finds the top it set,
\* and a body its arguments as they were passed.
THEOREM StackSound ==
    ASSUME NEW s \in Nat, HeadroomSuffices(s)
    PROVE  VsSpec => [](Rooted /\ TopIsBack /\ (~RawSurplus => FrameAsCalled))
<1>1. VsSpec => []Inv
  <2>1. VsSpec => []FramesFit
    BY FitsCorrect
  <2>2. FramesFit => WithinLimit
    BY DEF FramesFit
  <2>. QED BY <2>1, <2>2, StackInvariant, PTL
<1>2. Inv => Rooted /\ TopIsBack /\ (~RawSurplus => FrameAsCalled)
  BY InvRooted, InvTop, InvFrame
<1>. QED BY <1>1, <1>2, PTL
===============================================================================
