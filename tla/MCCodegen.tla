----------------------------- MODULE MCCodegen -----------------------------
(***************************************************************************)
(* TLC instance of the passes over one function: the analyses of its flow  *)
(* graph (BodyGraph), the facts of a slot (SlotContext) and the versions   *)
(* of the function's ops (Versioning), the arithmetic lowerings            *)
(* (ArithLowering) and code motion over emitted code (Licm).  A behaviour  *)
(* is of one pass.                                                         *)
(***************************************************************************)
EXTENDS BodyGraph, Licm, ArithLowering, MCVersionScripts

VARIABLE pass   \* the pass this behaviour is of

Nxt == [op |-> "Nop", t |-> {}]
Br(p) == [op |-> "Goto", t |-> {p}]
Cond(p) == [op |-> "JumpIfFalse", t |-> {p}]
Ret == [op |-> "RetRval", t |-> {}]
Halt == [op |-> "Throw", t |-> {}]
Switch(T) == [op |-> "TableSwitch", t |-> T]

\* Every flow over three ops in front of a return, irreducible ones included.
Small == {[ops |-> <<a, b, c, Ret>>, handlers |-> H, root |-> 4, segs |-> <<>>] :
            a \in {Nxt, Cond(3), Cond(4)},
            b \in {Nxt, Br(1), Br(2), Cond(1), Cond(2), Cond(4), Halt},
            c \in {Nxt, Br(1), Br(2), Cond(1), Cond(2), Cond(3), Halt},
            H \in {{}, {[start |-> 1, land |-> 3]}, {[start |-> 2, land |-> 4]}}}

NestedLoops == [ops |-> <<Nxt, Cond(7), Cond(6), Cond(6), Br(3), Br(2), Ret>>,
           handlers |-> {}, root |-> 7, segs |-> <<>>]
TwoLatches == [ops |-> <<Nxt, Cond(7), Switch({2, 5, 6}), Br(2), Cond(2), Br(5), Ret>>,
               handlers |-> {[start |-> 3, land |-> 5]}, root |-> 7, segs |-> <<>>]
\* A return to the header that one sweep over the order settles too early.
Tangled == [ops |-> <<Cond(5), Cond(4), Br(2), Br(3), Br(4), Ret, Ret>>,
            handlers |-> {}, root |-> 7, segs |-> <<>>]
Spliced == [ops |-> <<Nxt, Cond(4), Br(2), Ret, Cond(7), Br(5), Ret>>,
            handlers |-> {[start |-> 2, land |-> 4]}, root |-> 4,
            segs |-> <<[base |-> 5, call |-> 2, ret |-> 3]>>]

MCBodies == Small \cup {NestedLoops, TwoLatches, Tangled, Spliced}

Loc == [k |-> "local", i |-> 1]
Arg == [k |-> "arg", i |-> 1]
Gc == [k |-> "gcell", i |-> 1]
No == [op |-> "other", s |-> Loc]
Acc(op, s) == [op |-> op, s |-> s]

MCAccesses ==
    {<<Acc("set", Loc), Acc("get", Loc), Acc("set", Arg), Acc("get", Loc), No, No, No>>,
     <<Acc("set", Arg), Acc("set", Loc), Acc("get", Loc), Acc("arguments", Arg), No, Acc("get", Loc), Acc("rest", Arg)>>,
     <<Acc("set", Loc), Acc("get_g_name", Gc), Acc("init_lexical", Loc), Acc("yield", Loc), No, No, Acc("get", Gc)>>}

(* Functions for code motion. *)
P == [op |-> "param", args |-> <<>>, tag |-> NoTag]
I(op, args, tag) == [op |-> op, args |-> args, tag |-> tag]
To(b, args) == [to |-> b, args |-> args]
B(params, insts, succ) == [params |-> params, insts |-> insts, succ |-> succ]

Call(name) == I("call", <<3>>, NoteCallEff(HelperRows[name]))
\* What a loop may do: write, call, or nothing.
Doings == {I("pure", <<3>>, NoTag), I("store", <<6, 3>>, Write("Slot")), I("store", <<6, 3>>, NoTag),
           I("store", <<7, 3>>, NoTag), I("store", <<2, 3>>, Write("EngineTable")), I("call", <<3>>, NoTag)}
          \cup {Call(n) : n \in DOMAIN HelperRows}
\* What it may read.
Reads == {I("load", <<6>>, Read("Slot")), I("load", <<2>>, Read("EngineTable")), I("load", <<5>>, Read("EngineTable")),
          I("load", <<5>>, Read("Shape")), I("load", <<5>>, NoTag), I("load", <<7>>, NoTag),
          I("load", <<2>>, Read("FuseCell"))}

\* 1 is the frame pointer, 2 and 3 constants, 4 and 5 the header's params, 6 an address
\* computed from the second, 7 a frame address, 8 the read, 9 a use of it, 10 the doing.
OneLoop(d, r, second, order) ==
    [blk |-> (1 :> B(<<1>>, <<2, 3>>, <<To(2, <<2, 3>>)>>)
          @@ 2 :> B(<<4, 5>>, <<6, 7>>, <<To(3, <<>>), To(4, <<>>)>>)
          @@ 3 :> B(<<>>, order, <<To(2, <<9, second>>)>>)
          @@ 4 :> B(<<>>, <<>>, <<>>)),
     def |-> (1 :> P @@ 2 :> I("const", <<>>, NoTag) @@ 3 :> I("const", <<>>, NoTag) @@ 4 :> P @@ 5 :> P
          @@ 6 :> I("add", <<5, 2>>, NoTag) @@ 7 :> I("add", <<1, 2>>, NoTag)
          @@ 8 :> r @@ 9 :> I("pure", <<8>>, NoTag) @@ 10 :> d)]

\* An inner loop with two ways in, inside an outer one; 6 is invariant in both.
TwoLoops(r, d) ==
    [blk |-> (1 :> B(<<1>>, <<2, 3>>, <<To(2, <<3>>)>>)
          @@ 2 :> B(<<4>>, <<10>>, <<To(3, <<2>>), To(3, <<3>>)>>)
          @@ 3 :> B(<<5>>, <<6, 8, 9>>, <<To(3, <<5>>), To(4, <<>>)>>)
          @@ 4 :> B(<<>>, <<7>>, <<To(2, <<4>>), To(5, <<>>)>>)
          @@ 5 :> B(<<>>, <<>>, <<>>)),
     def |-> (1 :> P @@ 2 :> I("const", <<>>, NoTag) @@ 3 :> I("const", <<>>, NoTag) @@ 4 :> P @@ 5 :> P
          @@ 6 :> I("add", <<5, 4>>, NoTag) @@ 7 :> I("pure", <<6>>, NoTag)
          @@ 8 :> r @@ 9 :> I("pure", <<8>>, NoTag) @@ 10 :> d)]

\* A cache site in a loop beside d: 5 reads the shape word of the row at 2, 6 its slot
\* word, which the emitter leaves untagged, and 7 tests and uses them.
RowLoop(d, order) ==
    [blk |-> (1 :> B(<<1>>, <<2, 3>>, <<To(2, <<3>>)>>)
          @@ 2 :> B(<<4>>, order, <<To(2, <<4>>), To(3, <<>>)>>)
          @@ 3 :> B(<<>>, <<>>, <<>>)),
     def |-> (1 :> P @@ 2 :> I("const", <<>>, NoTag) @@ 3 :> I("const", <<>>, NoTag) @@ 4 :> P
          @@ 5 :> I("load", <<2>>, Read("EngineTable")) @@ 6 :> I("load", <<2>>, NoTag)
          @@ 7 :> I("hit", <<5, 6>>, NoTag) @@ 10 :> d)]

Irreducible ==
    [blk |-> (1 :> B(<<1>>, <<>>, <<To(2, <<>>), To(3, <<>>)>>)
          @@ 2 :> B(<<>>, <<>>, <<To(3, <<>>)>>)
          @@ 3 :> B(<<>>, <<>>, <<To(2, <<>>)>>)),
     def |-> (1 :> P)]

MCEmitted == {OneLoop(d, r, second, order) :
                d \in Doings, r \in Reads, second \in {5, 3, 2}, order \in {<<8, 9, 10>>, <<10, 8, 9>>}}
             \cup {TwoLoops(r, d) : r \in Reads \ {I("load", <<7>>, NoTag)}, d \in {Call("call"), Call("math_unary"), Call("new_object")}}
             \cup {RowLoop(d, order) : d \in {Call(n) : n \in DOMAIN HelperRows} \cup {I("call", <<3>>, NoTag), I("store", <<3, 3>>, Write("Slot"))},
                                       order \in {<<5, 6, 7, 10>>, <<10, 5, 6, 7>>}}
             \cup {Irreducible}

(* Expressions to lower: of one or two operators over every kind of         *)
(* operand, and longer integer ones, where truncation demand matters.       *)
Binary == {"Add", "Sub", "Mul", "Div", "Mod"} \cup BitOps
Second == {"Add", "Mul", "Mod", "Ursh", "BitOr"}

OpPrograms ==
    {<<"Push", u>> : u \in Unary}
      \cup {<<"Push", "Push", o>> : o \in Binary}
      \cup {<<"Push", "Push", o, u>> : o \in Binary, u \in Unary}
      \cup {<<"Push", "Store", u, "Push", o>> : u \in Unary, o \in Second}
      \cup {<<"Push", "Push", o, "Store", "Push", p>> : o \in Binary, p \in Second}

Int32 == PrimDesc({"int32"})
Double == PrimDesc({"double"})
Number == PrimDesc(NUM)

OpLeaves ==
    { Word(I32_LO, NoIv), Word(I32_HI, NoIv), Word(1, Iv(1, 1, FALSE)), Word(2, Iv(0, 2, FALSE)),
      Boxed(IntV(0), Int32, NoIv), Boxed(IntV(-1), Number, NoIv),
      Operand(IntV(3), "Boxed", "double", Number, NoIv),
      Float(HalfV(3), Double, NoIv), Float(NegZero, Double, NoIv),
      Boxed(NaN, BottomTy, NoIv), Boxed(StrV(2), BottomTy, NoIv),
      Boxed(StrV(1), PrimDesc({"string"}), NoIv), Boxed(BoolV(TRUE), BottomTy, NoIv),
      Boxed(BigV, BottomTy, NoIv) }

\* (x o y) p z ... then a truncating use, or none.
ChainPrograms ==
    {<<"Push", "Push", o, "Push", p, "Push", q>> :
        o \in {"Add", "Sub", "Mul"}, p \in {"Add", "Sub"}, q \in {"BitOr", "Add", "Lsh"}}
      \cup {<<"Push", "Push", "Mul", "Push", "Push", "Mul", p, "Push", "Add", "Push", q>> :
               p \in {"Add", "Sub"}, q \in {"BitAnd", "Ursh"}}
      \cup {<<"Push", "Push", o, "Store", "BitNot">> : o \in {"Add", "Mul"}}
      \cup {<<"Push", "Push", o, "Push", p, "BitNot">> : o \in {"Add", "Mul"}, p \in {"Sub", "Mul"}}

ChainLeaves ==
    { Word(I32_LO, NoIv), Word(I32_HI, NoIv), Word(3, Iv(0, 3, FALSE)),
      Boxed(IntV(-2), BottomTy, NoIv) }

OpUnit == [progs |-> OpPrograms, leaves |-> OpLeaves, frac |-> {"Add"}, bigIntFree |-> FALSE]
MCUnits ==
    { OpUnit,
      [progs |-> ChainPrograms, leaves |-> ChainLeaves, frac |-> {}, bigIntFree |-> TRUE] }

BodyIdle == /\ body \in {NestedLoops} /\ graph = <<>> /\ phase = "idle" /\ stack = <<>> /\ post = <<>> /\ idom = <<>>
            /\ k = 0 /\ changed = FALSE /\ access = <<>> /\ live = <<>>
LicmIdle == /\ orig = Irreducible /\ ir = orig /\ mode = "idle" /\ members = <<>> /\ todo = {} /\ at = 1 /\ idx = 1
            /\ env = <<>> /\ mem = <<>> /\ way = <<>> /\ seen = <<>> /\ fuel = 0

LowIdle == unit = OpUnit /\ prog = <<"Push", "Push", "Add">> /\ lpc = 1 /\ ostack = <<>> /\ jstack = <<>>

SlotIdle == arriving = STR_SLOT /\ recorded = OBJ_ONLY_SLOT
VersionIdle == /\ script = Counter /\ rung = "full" /\ large = {} /\ CTXONLY_MAX_ROUNDS = 1 /\ stage = "run" /\ cs = <<>>
               /\ rounds = 0 /\ stripping = FALSE /\ tries = 0 /\ code = <<>> /\ rt = NoRun

vars == <<pass, graphVars, licmVars, lowVars, slotVars, versionVars>>

\* The expression is lowered; the function is refused, or its code has run as far as it is followed.
Ended == \/ pass = "lower" /\ ~Running
         \/ pass = "versions" /\ stage = "skipped"
         \/ pass = "versions" /\ stage = "run" /\ (rt.n = Steps \/ code[rt.at] = <<>>)

Init == \/ pass = "graph" /\ GraphInit /\ LicmIdle /\ LowIdle /\ SlotIdle /\ VersionIdle
        \/ pass = "licm" /\ LicmInit /\ BodyIdle /\ LowIdle /\ SlotIdle /\ VersionIdle
        \/ pass = "lower" /\ LowInit /\ BodyIdle /\ LicmIdle /\ SlotIdle /\ VersionIdle
        \/ pass = "slots" /\ SlotInit /\ BodyIdle /\ LicmIdle /\ LowIdle /\ VersionIdle
        \/ pass = "versions" /\ VersionInit /\ BodyIdle /\ LicmIdle /\ LowIdle /\ SlotIdle
Next == \/ pass = "graph" /\ GraphNext /\ UNCHANGED <<pass, licmVars, lowVars, slotVars, versionVars>>
        \/ pass = "licm" /\ LicmNext /\ UNCHANGED <<pass, graphVars, lowVars, slotVars, versionVars>>
        \/ pass = "lower" /\ LowNext /\ UNCHANGED <<pass, graphVars, licmVars, slotVars, versionVars>>
        \/ pass = "slots" /\ SlotNext /\ UNCHANGED <<pass, graphVars, licmVars, lowVars, versionVars>>
        \/ pass = "versions" /\ VersionNext /\ UNCHANGED <<pass, graphVars, licmVars, lowVars, slotVars>>
        \/ Ended /\ UNCHANGED vars

\* Weak fairness of the compiler's steps, with their enabling condition written out: a step is
\* possible in every state of the two passes, and every step changes what the compiler keeps.
Compiles == []<>(stage \notin {"context", "code"}) \/ []<><<TRUE>>_compileVars
\* A pass runs to its end: nothing runs beside the compiler.
Spec == Init /\ [][Next]_vars /\ GraphFairness /\ Compiles
=============================================================================
