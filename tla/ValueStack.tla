------------------------------ MODULE ValueStack ------------------------------
(***************************************************************************)
(* The value stack (runtime/NightStack, NightEntry) and the frames compiled *)
(* bodies lay out on it: entries from the engine, direct calls, spliced     *)
(* callees, helpers that collect and re-enter, generator resumption.        *)
(*                                                                          *)
(* The stack is the only root of compiled code: a collection forwards the   *)
(* slots under the published top, and every pointer elsewhere (a slot above *)
(* it, a value in a register) is left pointing at what has moved.  A value  *)
(* is <<kind, n>>: "u" undefined, "i" a number held raw, "p" a pointer, "s" *)
(* a pointer a collection has left behind.                                  *)
(***************************************************************************)
EXTENDS Integers, Sequences

CONSTANTS
    Code,        \* body -> [nargs, nlocals, depth (operands at most: its script's nslots less
                 \* the locals), env ("none", "plain", "setup"), args ("none", "lazy", "mapped"),
                 \* nt (uses new.target), gen, wrapper, inl (may be spliced)]
    Edges,       \* [from, how, to, args]: the calls of the program; from is a body or "engine",
                 \* how "call", "new", "splice", "splice new", "resume"
    VLimit,      \* slots of the stack
    Headroom,    \* slots a body may use past its incoming frame
    MaxSplices,  \* how deep callees are spliced into one body
    MaxActs, MaxVops,   \* bounds: activations, steps
    RawSurplus   \* TRUE: a spliced call may pass a raw number past the formals

\* The values a program holds, and with the pointers a collection left behind
\* the contents of the stack.
LiveValue == {"u", "i", "p"} \X Nat
Value == {"u", "i", "p", "s"} \X Nat

\* A generator that uses arguments is not compiled (bbv/mod.rs, NightGenerator.cpp).
ASSUME CodeAssumption ==
    \A b \in DOMAIN Code :
        /\ Code[b].nargs \in Nat /\ Code[b].nlocals \in Nat /\ Code[b].depth \in Nat
        /\ Code[b].gen => Code[b].args = "none" /\ Code[b].depth >= 4
ASSUME EdgesAssumption == \A e \in Edges : e.to \in DOMAIN Code /\ e.args \in Seq(LiveValue)
ASSUME StackAssumption == VLimit \in Nat /\ Headroom \in Nat /\ MaxSplices \in Nat

VARIABLES
    mem,         \* slot -> value
    vtop,        \* the published top
    acts,        \* activations, the innermost last
    vops         \* steps left

vsVars == <<mem, vtop, acts, vops>>

Undef == <<"u", 0>>
Ptr(n) == <<"p", n>>
Raw(v) == v[1] = "i"
Left(v) == IF v[1] = "p" THEN <<"s", v[2]>> ELSE v
Larger(x, y) == IF x > y THEN x ELSE y
Fill(m, from, n, v) == [i \in DOMAIN m |-> IF i >= from /\ i < from + n THEN v ELSE m[i]]
Write(m, from, vs) == [i \in DOMAIN m |-> IF i >= from /\ i < from + Len(vs) THEN vs[i - from + 1] ELSE m[i]]
ReadSlots(m, from, n) == [i \in 1..n |-> m[from + i - 1]]

--------------------------------------------------------------------------
(* Frame layouts.  A view addresses one frame: the activation's own, or    *)
(* the innermost splice's.                                                  *)
NeedsArgsObj(b) == Code[b].args # "none"
vp(a) == a.sp + IF NeedsArgsObj(a.body) /\ a.argc > Code[a.body].nargs THEN a.argc - Code[a.body].nargs ELSE 0

RootView(a) ==
    LET c == Code[a.body]
        locals == vp(a) + 2 + c.nargs
        env == locals + c.nlocals
        args == env + IF c.env # "none" THEN 1 ELSE 0
        nt == args + IF NeedsArgsObj(a.body) THEN 1 ELSE 0
        rval == nt + IF c.nt THEN 1 ELSE 0
    IN [body |-> a.body, base |-> a.sp, locals |-> locals, env |-> env, args |-> args, nt |-> nt, rval |-> rval,
        operands |-> rval + 1, passed |-> a.passed, carried |-> <<>>, wrote |-> a.wrote,
        seen |-> IF NeedsArgsObj(a.body) THEN Larger(c.nargs, a.argc) ELSE c.nargs]
enter_frame_view(s) ==
    LET locals == s.base + 2 + s.nformals
        rval == locals + Code[s.body].nlocals
    IN [body |-> s.body, base |-> s.base, locals |-> locals, env |-> rval, args |-> rval, nt |-> rval, rval |-> rval,
        operands |-> rval + 1, passed |-> s.passed, carried |-> s.carried, wrote |-> s.wrote, seen |-> s.nformals]
View(a) == IF a.segs = <<>> THEN RootView(a) ELSE enter_frame_view(a.segs[Len(a.segs)])
TopOff(a) == View(a).operands + Len(a.ops)

Act(b, sp, argc, kind, saved, passed) ==
    [body |-> b, sp |-> sp, argc |-> argc, kind |-> kind, saved |-> saved, passed |-> passed, wrote |-> FALSE,
     segs |-> <<>>, ops |-> <<>>, mode |-> "entry", want |-> "op", need |-> 0, top |-> 0, target |-> b, actuals |-> <<>>]

Top == acts[Len(acts)]
Below == SubSeq(acts, 1, Len(acts) - 1)
With(a) == Below \o <<a>>
InRun == acts # <<>> /\ Top.mode = "run"
InHelper == acts # <<>> /\ Top.mode = "helper"

\* Every live operand into its slot, and back from it.
spill_all(m, a) == Write(m, View(a).operands, a.ops)
reload_none(m, a) == a.ops
reload(m, a) == ReadSlots(m, View(a).operands, Len(a.ops))
SetNightTop(a, top, want) == [a EXCEPT !.mode = "helper", !.top = top, !.want = want]

\* A may-collect helper called with `more` pushed on the operands.
HelperCall(a, more, need, want) ==
    LET b == [a EXCEPT !.ops = @ \o more]
    IN /\ mem' = spill_all(mem, b) /\ vtop' = TopOff(b)
       /\ acts' = With(SetNightTop([b EXCEPT !.need = need], TopOff(b), want))

--------------------------------------------------------------------------
(* Entering from the engine: outermost, or from inside a helper.            *)
CanEnter == (acts = <<>> \/ InHelper) /\ Len(acts) < MaxActs
Callee == Ptr(7)
This == Ptr(8)

Stage(b, args, nslots) ==
    [i \in 1..(2 + nslots) |-> IF i = 1 THEN Callee ELSE IF i = 2 THEN This
                               ELSE IF i - 2 <= Len(args) THEN args[i - 2] ELSE Undef]
\* The frame must leave the headroom free; otherwise over-recursion is reported.
EnterNight(b, args) ==
    LET nslots == Larger(Len(args), Code[b].nargs)
        frameTop == vtop + 2 + nslots
    IN /\ ~Code[b].gen /\ frameTop + Headroom <= VLimit
       /\ mem' = Write(mem, vtop, Stage(b, args, nslots))
       /\ acts' = Append(acts, Act(b, vtop, Len(args), "engine", vtop, args))
       /\ vtop' = frameTop
\* A target found unsuitable once part of its frame has been written.
NightApplyOrCall(b, args) ==
    LET nslots == Larger(Len(args), Code[b].nargs)
    IN \/ EnterNight(b, args)
       \/ /\ args # <<>> /\ vtop + 2 + nslots + Headroom <= VLimit
          /\ mem' = Write(mem, vtop, SubSeq(Stage(b, args, nslots), 1, 1 + Len(args)))
          /\ UNCHANGED <<vtop, acts>>
\* The descriptor lies above the published top: index and kind, generator, sent value.
EnterNightResume(b) ==
    LET nargs == Code[b].nargs
        frameTop == vtop + 2 + nargs
    IN /\ Code[b].gen /\ frameTop + 3 + Headroom <= VLimit
       /\ mem' = Write(Write(mem, vtop, <<Callee, <<"i", 9>>>> \o [i \in 1..nargs |-> Undef]),
                       frameTop, <<<<"i", 1>>, Ptr(2), Ptr(3)>>)
       /\ acts' = Append(acts, Act(b, vtop, 0, "resume", vtop, <<>>))
       /\ vtop' = frameTop

Calls(from, how) == {e \in Edges : e.from = from /\ e.how = how}
Reenter ==
    /\ CanEnter
    /\ \/ \E e \in Calls("engine", "resume") : EnterNightResume(e.to)
       \/ \E e \in Calls("engine", "call") : IF acts = <<>> THEN EnterNight(e.to, e.args) ELSE NightApplyOrCall(e.to, e.args)

--------------------------------------------------------------------------
(* The prologue: padding, locals, the other frame slots, and only then the *)
(* helpers that may collect.                                                *)
emit_formal_padding(m, a) ==
    LET n == Code[a.body].nargs
    IN IF a.argc < n THEN Fill(m, a.sp + 2 + a.argc, n - a.argc, Undef) ELSE m
InitSlots(m, a) ==
    LET v == RootView(a)
    IN Fill(m, v.locals, v.operands - v.locals, Undef)
emit_env_setup(m, a) == IF Code[a.body].env = "plain" THEN [m EXCEPT ![RootView(a).env] = Ptr(1)] ELSE m
\* What is still to be built: the environment by a helper, then a mapped arguments object.
Build(m, a, from) ==
    LET c == Code[a.body]
        want == IF from = "env" /\ c.env = "setup" THEN "env" ELSE IF c.args = "mapped" THEN "args" ELSE "none"
    IN /\ mem' = m
       /\ IF want = "none" THEN acts' = With([a EXCEPT !.mode = "run"]) /\ UNCHANGED vtop
          ELSE acts' = With(SetNightTop(a, TopOff(a), want)) /\ vtop' = TopOff(a)
emit_frame_prologue ==
    LET m == InitSlots(emit_formal_padding(mem, Top), Top) IN Build(emit_env_setup(m, Top), Top, "env")

\* A resumed body reads its descriptor, then the engine half fills the frame
\* over it: locals, environment and one saved operand.
finalize_gen_dispatch ==
    LET a == Top
        v == RootView(a)
        c == Code[a.body]
        desc == ReadSlots(mem, v.locals, 3)
        m1 == Fill(mem, v.nt, v.operands - v.nt, Undef)
        m2 == Fill(m1, v.locals, c.nlocals + (IF c.env # "none" THEN 1 ELSE 0), Ptr(4))
        m3 == Fill(m2, v.operands, 1, Ptr(5))
    IN /\ mem' = m3 /\ UNCHANGED vtop
       /\ acts' = With([a EXCEPT !.mode = "run", !.wrote = TRUE,
                                 !.ops = <<m3[v.operands], desc[3], desc[2], desc[1]>>])

Begin == acts # <<>> /\ Top.mode = "entry"
          /\ IF Top.kind = "resume" THEN finalize_gen_dispatch ELSE emit_frame_prologue

--------------------------------------------------------------------------
(* Calls between compiled bodies.                                           *)
emit_stack_fits_bare(top, argc) == top + 2 + argc <= VLimit
emit_stack_fits(top, argc) == top + 2 + argc + Headroom <= VLimit

EnterDirect(m, a, b, args) ==   \* a is the caller, its operands spilled
    /\ mem' = m /\ UNCHANGED vtop
    /\ acts' = Append(With([a EXCEPT !.mode = "call"]),
                      Act(b, TopOff(a) - a.need, Len(args), "direct", 0, args))
DirectCall(b, args) ==
    LET a == [Top EXCEPT !.ops = @ \o <<Callee, This>> \o args, !.need = Len(args) + 2, !.want = "op"]
    IN IF emit_stack_fits(TopOff(a), Len(args)) /\ Len(acts) < MaxActs
       THEN EnterDirect(spill_all(mem, a), a, b, args)
       ELSE HelperCall(Top, <<Callee, This>> \o args, Len(args) + 2, "op")

--------------------------------------------------------------------------
(* Splices.  The operands popped by the call become the head of a frame    *)
(* inside the caller's; raw actuals may ride the edge in registers.         *)
Wrapped(b, argc) == IF Code[b].wrapper THEN Larger(Code[b].nargs, argc) ELSE Code[b].nargs
seg_nformals(b, argc) == Wrapped(b, argc)
store_seam_frame(m, base, popped, argc) ==
    Write(m, base, [i \in DOMAIN popped |-> IF i - 2 \in 1..argc /\ Raw(popped[i]) THEN Undef ELSE popped[i]])
init_child_unpadded(m, base, argc, nformals, b) ==
    LET locals == base + 2 + nformals
    IN Fill(m, locals, Code[b].nlocals + 1, Undef)
init_child_frame(m, base, argc, nformals, b) ==
    LET locals == base + 2 + nformals
        padded == IF argc < Code[b].nargs THEN Fill(m, base + 2 + argc, Code[b].nargs - argc, Undef) ELSE m
    IN Fill(padded, locals, Code[b].nlocals + 1, Undef)
\* A raw actual the callee's entry does not take in a register is stored on the edge.
StoreSeam(m, base, args, rides) ==
    [i \in DOMAIN m |-> LET k == i - base - 1
                        IN IF k \in DOMAIN args /\ Raw(args[k]) /\ k \notin rides THEN args[k] ELSE m[i]]
SpliceInto(m, a, b, args) ==
    LET base == TopOff(a)
        nformals == seg_nformals(b, Len(args))
        framed == init_child_frame(m, base, Len(args), nformals, b)
    IN \E rides \in SUBSET {k \in DOMAIN args : Raw(args[k]) /\ k <= nformals} :
        /\ mem' = StoreSeam(framed, base, args, rides)
        /\ UNCHANGED vtop
        /\ acts' = With([a EXCEPT !.mode = "run", !.ops = <<>>,
              !.segs = Append(@, [body |-> b, base |-> base, nformals |-> nformals, depth |-> Len(a.ops),
                                  operands |-> View(a).operands, wrote |-> FALSE, passed |-> args,
                                  carried |-> [k \in rides |-> args[k]]])])
Spliceable(b, args) ==
    /\ Code[b].inl /\ ~NeedsArgsObj(Top.body) /\ ~Code[Top.body].gen /\ Len(Top.segs) < MaxSplices
    /\ RawSurplus \/ \A k \in DOMAIN args : k > Code[b].nargs => ~Raw(args[k])
emit_inline_call(b, args) ==
    LET a == Top
    IN SpliceInto(store_seam_frame(spill_all(mem, a), TopOff(a), <<Callee, This>> \o args, Len(args)), a, b, args)
\* The constructor's `this` is allocated with the popped frame rooted.
emit_inline_construct(b, args) ==
    LET a == Top
        popped == <<Callee, Undef>> \o args \o <<Callee>>
    IN /\ mem' = store_seam_frame(spill_all(mem, a), TopOff(a), popped, Len(args))
       /\ vtop' = TopOff(a) + Len(popped)
       /\ acts' = With([SetNightTop(a, vtop', "splice") EXCEPT !.need = 0, !.target = b, !.actuals = args])
\* The same for a constructor that is called.
DirectConstruct(b, args) ==
    LET a == [Top EXCEPT !.ops = @ \o <<Callee, Undef>> \o args \o <<Callee>>]
    IN IF emit_stack_fits(TopOff(a), Len(args)) /\ Len(acts) < MaxActs
       THEN /\ mem' = spill_all(mem, a) /\ vtop' = TopOff(a)
            /\ acts' = With([SetNightTop(a, vtop', "new") EXCEPT !.need = Len(args) + 3, !.target = b, !.actuals = args])
       ELSE HelperCall(Top, <<Callee, Undef>> \o args \o <<Callee>>, Len(args) + 3, "op")

\* The bytecode never pushes past its script's depth: callee, receiver,
\* arguments and new.target are operands of the caller.
Room(n) == Len(Top.ops) + n <= Code[View(Top).body].depth

Work ==
    /\ InRun
    /\ \/ Room(1) /\ HelperCall(Top, <<>>, 0, "op")
       \/ \E e \in Calls(View(Top).body, "call") : Room(2 + Len(e.args)) /\ DirectCall(e.to, e.args)
       \/ \E e \in Calls(View(Top).body, "new") : Room(3 + Len(e.args)) /\ DirectConstruct(e.to, e.args)
       \/ \E e \in Calls(View(Top).body, "splice") :
            Room(2 + Len(e.args)) /\ Spliceable(e.to, e.args) /\ emit_inline_call(e.to, e.args)
       \/ \E e \in Calls(View(Top).body, "splice new") :
            Room(3 + Len(e.args)) /\ Spliceable(e.to, e.args) /\ emit_inline_construct(e.to, e.args)
       \/ /\ Len(Top.ops) < 1 /\ Room(1)
          /\ acts' = With([Top EXCEPT !.ops = Append(@, Ptr(6))]) /\ UNCHANGED <<mem, vtop>>
       \/ /\ Code[View(Top).body].nlocals > 0 /\ ~View(Top).wrote
          /\ mem' = [mem EXCEPT ![View(Top).locals] = Ptr(6)]
          /\ acts' = With(IF Top.segs = <<>> THEN [Top EXCEPT !.wrote = TRUE]
                          ELSE [Top EXCEPT !.segs[Len(Top.segs)].wrote = TRUE])
          /\ UNCHANGED vtop

--------------------------------------------------------------------------
(* Coming back.                                                             *)
Popped(ops, need) == SubSeq(ops, 1, Len(ops) - need)
\* A call's caller reads its operands and the result from their slots.
Continue(m, a) == [a EXCEPT !.mode = "run", !.ops = Append(Popped(reload(m, a), a.need), m[TopOff(a)])]

HelperReturn(v) ==
    LET a == Top
        m == [mem EXCEPT ![vtop] = v]   \* WriteNightOut
    IN CASE a.want = "op" -> mem' = m /\ acts' = With(Continue(m, a)) /\ UNCHANGED vtop
         [] a.want = "env" -> Build([m EXCEPT ![RootView(a).env] = v], a, "args")
         [] a.want = "args" -> /\ mem' = [m EXCEPT ![RootView(a).args] = v] /\ UNCHANGED vtop
                               /\ acts' = With([a EXCEPT !.mode = "run"])
         [] a.want = "splice" -> SpliceInto([m EXCEPT ![TopOff(a) + 1] = v], a, a.target, a.actuals)
         [] a.want = "new" -> EnterDirect([m EXCEPT ![TopOff(a) - a.need + 1] = v], a, a.target, a.actuals)

\* A spliced callee returns along an edge; the caller's operands are read
\* from where the splice left them.
SpliceReturn(v) ==
    LET s == Top.segs[Len(Top.segs)]
    IN /\ acts' = With([Top EXCEPT !.segs = SubSeq(@, 1, Len(@) - 1),
                                   !.ops = Append(ReadSlots(mem, s.operands, s.depth), v)])
       /\ UNCHANGED <<mem, vtop>>
\* AutoNightReentry gives the engine its top back.
LeaveKeepingTop(m) == mem' = m /\ acts' = Below /\ UNCHANGED vtop
Leave(m) == mem' = m /\ acts' = Below /\ vtop' = Top.saved
\* The result goes to the caller's out slot, which is inside the dying frame.
emit_return_value(v) ==
    IF Top.segs # <<>> THEN SpliceReturn(v)
    ELSE IF Top.kind # "direct" THEN Leave(mem)
    ELSE LET caller == Below[Len(Below)]
             m == [mem EXCEPT ![TopOff(caller)] = v]
         IN /\ mem' = m /\ UNCHANGED vtop
            /\ acts' = SubSeq(Below, 1, Len(Below) - 1) \o <<Continue(m, caller)>>
\* An error leaves every splice of the frame; a caller may catch it, with
\* an empty operand stack, unless the call was spliced.
Throws ==
    IF Top.kind # "direct" THEN Leave(mem)
    ELSE LET caller == Below[Len(Below)]
         IN /\ UNCHANGED <<mem, vtop>>
            /\ acts' = SubSeq(Below, 1, Len(Below) - 1)
                         \o <<[caller EXCEPT !.mode = "run", !.ops = <<>>]>>

Back ==
    \/ InHelper /\ HelperReturn(Ptr(9))
    \/ InHelper /\ Top.want = "op" /\ Top.segs = <<>>   \* the helper fails, and is caught
         /\ acts' = With([Top EXCEPT !.mode = "run", !.ops = <<>>]) /\ UNCHANGED <<mem, vtop>>
    \/ InRun /\ emit_return_value(Ptr(9))
    \/ (InRun \/ InHelper) /\ Throws

\* NightStack::trace on every collection, minor or major: slots are
\* forwarded in place.
trace ==
    /\ acts = <<>> \/ InHelper
    /\ mem' = [i \in DOMAIN mem |-> IF i < vtop THEN mem[i] ELSE Left(mem[i])]
    /\ acts' = [i \in DOMAIN acts |-> [acts[i] EXCEPT !.ops = [k \in DOMAIN @ |-> Left(@[k])]]]
    /\ UNCHANGED vtop

VsInit ==
    /\ mem = [i \in 0..VLimit |-> Undef] /\ vtop = 0 /\ acts = <<>> /\ vops = MaxVops
VsNext == \/ vops > 0 /\ vops' = vops - 1 /\ (Reenter \/ Work \/ trace)
          \/ (Begin \/ Back) /\ UNCHANGED vops
VsSpec == VsInit /\ [][VsNext]_vsVars

--------------------------------------------------------------------------
(* Properties.                                                              *)
Views(a) == {RootView(a)} \cup {enter_frame_view(a.segs[i]) : i \in DOMAIN a.segs}
Started == {i \in DOMAIN acts : acts[i].mode # "entry"}

\* Activations nest: each frame starts at or above the end of the slots its
\* caller still needs, and every activation but the last waits for a callee.
Nested ==
    \A i \in 1..(Len(acts) - 1) :
        /\ acts[i].mode = IF acts[i + 1].kind = "direct" THEN "call" ELSE "helper"
        /\ acts[i + 1].sp >= TopOff(acts[i]) - acts[i].need

\* What the collector forwards (every slot under the published top,
\* NightStack::trace) is a value: nothing uninitialised, and nothing a
\* former frame left there, whenever a collection can happen.
TracedValid == (acts = <<>> \/ InHelper) => \A i \in 0..(vtop - 1) : mem[i][1] # "s"

\* No live frame holds a pointer a collection has left behind: the slots of
\* every frame and splice in flight, and the operands of the one that runs
\* (spill_all, reload).
NothingStale ==
    /\ \A i \in Started : \A v \in Views(acts[i]) :
         \A k \in v.base..(v.operands - 1) :
             k \in {v.base, v.base + 1} \cup ((v.base + 2)..(v.base + 1 + v.seen)) \cup (v.locals..v.rval)
               => mem[k][1] # "s"
    /\ InRun => \A k \in DOMAIN Top.ops : Top.ops[k][1] # "s"

\* A body finds its arguments as a call passes them and nothing else in its
\* frame: the actuals in order, undefined for a missing one, undefined in
\* the return value and in the locals until they are written, whether the
\* frame was built by the engine, a direct call or a splice.
FrameAsCalled ==
    \A i \in Started : \A v \in Views(acts[i]) :
        /\ \A k \in 1..v.seen :
             LET found == IF k \in DOMAIN v.carried THEN v.carried[k] ELSE mem[v.base + 1 + k]
             IN found = (IF k \in DOMAIN v.passed THEN v.passed[k] ELSE Undef)
        /\ mem[v.rval] = Undef
        /\ ~v.wrote => \A k \in 1..Code[v.body].nlocals : mem[v.locals + k - 1] = Undef

\* A helper that re-entered compiled code goes on with the top it set: what
\* it allocates next is collected against its caller's frame
\* (AutoNightReentry).
TopIsBack == /\ InHelper => vtop = Top.top
             /\ acts = <<>> => vtop = 0

\* No frame and no published top reaches past the stack as long as every body
\* keeps within its headroom (emit_stack_fits, kNightStackHeadroomSlots).
WithinLimit == vtop <= VLimit /\ \A i \in Started : TopOff(acts[i]) < VLimit

\* What the code takes on trust and never computes: a body's slots past its
\* formals, with those of the splices inside it (s bounds one), are fewer
\* than the headroom.
FrameSlots(b) ==
    Code[b].nlocals + (IF Code[b].env # "none" THEN 1 ELSE 0) + (IF NeedsArgsObj(b) THEN 1 ELSE 0)
      + (IF Code[b].nt THEN 1 ELSE 0) + 1 + Code[b].depth
SpliceSlots(b, argc) == 2 + seg_nformals(b, argc) + Code[b].nlocals + 1 + Code[b].depth
HeadroomSuffices(s) ==
    /\ \A e \in Edges : e.how \in {"splice", "splice new"} => SpliceSlots(e.to, Len(e.args)) <= s
    /\ \A b \in DOMAIN Code :
         Code[b].nargs + FrameSlots(b) + (IF NeedsArgsObj(b) \/ Code[b].gen THEN 0 ELSE MaxSplices * s) < Headroom

\* What the collector reaches is valid and what the code still uses was reached.
Rooted == TracedValid /\ NothingStale

\* Frames are stacked apart and inside the stack.
FramesFit == Nested /\ WithinLimit
=============================================================================
