------------------------------ MODULE MCAnalyses ------------------------------
(***************************************************************************)
(* TLC instance of the parts that compute by themselves: Worklist (a       *)
(* caller with a loop and a callee entered when the function value reaches *)
(* the call, whose evaluation also links a class view), EffectSummary (the *)
(* write summaries of small programs), ArithClaims (the transfers of a     *)
(* five-bit word, whose ladder of exponents has room for magnitudes above  *)
(* 8) and RegexMachine.  A behaviour is of one of the four.                *)
(***************************************************************************)
EXTENDS Worklist, EffectSummary, ArithClaims, MCRegexPrograms

VARIABLE part   \* what this behaviour is of

CONSTANTS v0, v1, v2, arg, view, ret,
          str, fn, wide, num,
          seed, loop, back, call, body, concat

MCCell == {v0, v1, v2, arg, view, ret}
MCTask == {seed, loop, back, call, body, concat}
MCRow == {"caller", "callee"}
MCEvidence == {str, fn, wide, num}
MCShadow == {num}

Reads1(t) == CASE t = seed -> {} [] t = loop -> {v0} [] t = back -> {v1} [] t = call -> {v1, v0}
               [] t = body -> {arg} [] t = concat -> {v2}
MCReadCells == [t \in Task |-> Reads1(t)]
MCDstCell == [t \in Task |->
    CASE t = seed -> v0 [] t = loop -> v1 [] t = back -> v0 [] t = call -> arg
      [] t = body -> ret [] t = concat -> v0]
MCTasksOf == [r \in MCRow |-> IF r = "caller" THEN {seed, loop, back, call, concat} ELSE {body}]
MCSeedOf == [c \in MCCell |-> IF c = v2 THEN [ev |-> {str, wide}, unk |-> FALSE]
                              ELSE [ev |-> {}, unk |-> c = v1]]
MCTransfer(t, f) ==
    CASE t = seed -> [ev |-> {fn}, unk |-> FALSE]
      [] t = loop -> f[v0]
      [] t = back -> f[v1]
      [] t = call -> IF fn \in f[v1].ev THEN f[v0] ELSE Bottom
      [] t = body -> f[arg]
      [] t = concat -> [ev |-> {str, wide}, unk |-> FALSE]
MCEnters(t, f) == IF t = call /\ fn \in f[v1].ev THEN {"callee"} ELSE {}
MCInstalls(t, f) ==
    IF t = call /\ fn \in f[v1].ev THEN {<<v0, view>>, <<view, arg>>, <<arg, view>>, <<arg, arg>>} ELSE {}
MCRoots == {"caller"}

(* Programs whose summaries are computed.                                   *)
S(ops) == [gen |-> FALSE, thisRange |-> "none", ops |-> ops]
NoSite == [scripted |-> Missing, native |-> Missing, apply |-> Missing, ctor |-> Missing,
           elem |-> FALSE, alloc |-> FALSE]
CallOp(site) == [k |-> "call", site |-> site]
CallS(s) == CallOp([NoSite EXCEPT !.scripted = <<Fn("script", s)>>])
Prop(r, n) == [k |-> "prop", recv |-> r, name |-> n]
GName(n) == [k |-> "gname", name |-> n]
Op(k) == [k |-> k]
Get(fns) == [k |-> "get", targets |-> fns]
SiteAnswers == {NoSite,
    [NoSite EXCEPT !.scripted = <<>>, !.native = <<Fn("Pure", 0)>>],
    [NoSite EXCEPT !.scripted = <<>>],
    [NoSite EXCEPT !.scripted = Multi, !.native = <<Fn("Pure", 0)>>],
    [NoSite EXCEPT !.native = <<>>, !.apply = <<Fn("script", 2)>>],
    [NoSite EXCEPT !.native = <<Fn("Elems", 0)>>],
    [NoSite EXCEPT !.native = <<Fn("Top", 0)>>],
    [NoSite EXCEPT !.apply = <<>>, !.elem = TRUE],
    [NoSite EXCEPT !.apply = Multi],
    [NoSite EXCEPT !.ctor = <<Fn("alloc", 0)>>],
    [NoSite EXCEPT !.ctor = <<Fn("odd", 0)>>],
    [NoSite EXCEPT !.elem = TRUE],
    [NoSite EXCEPT !.alloc = TRUE],
    [NoSite EXCEPT !.scripted = <<Fn("script", 2), Fn("script", 3)>>, !.elem = TRUE]}
OneOps == {Prop("C", "x"), Prop("D", "x"), Prop("this", "y"), Prop("D", NONE), GName("g"), GName("h"), GName(NONE),
           Op("elem"), Op("env"), Op("benign"), Op("odd"), Get(<<>>), Get(<<2>>)}
           \cup {CallOp(c) : c \in SiteAnswers}
Leaf == [gen |-> FALSE, thisRange |-> "T", ops |-> <<Prop("this", "z"), Prop("C", "x"), GName("g")>>]
\* Every pair of ops beside two callees, one of them recursive.
PairPrograms == {<<S(<<o1, o2>>), S(<<CallS(3)>>), l>> :
                    o1 \in OneOps, o2 \in OneOps, l \in {Leaf, S(<<Op("env"), CallS(1)>>), [Leaf EXCEPT !.gen = TRUE]}}
\* Rings of calls into which writes come from several sides.
Ring(d, l) == [s \in 1..6 |-> S([i \in 1..Len(l[s]) |-> Prop("D", l[s][i])] \o [i \in 1..Len(d[s]) |-> CallS(d[s][i])])]
RingPrograms == {
    Ring(<<<<4>>, <<1>>, <<5, 6>>, <<3, 4>>, <<1, 2>>, <<2, 5, 6>>>>,
         <<<<>>, <<"x", "y">>, <<>>, <<>>, <<>>, <<"y">>>>)}
WideScript == S(<<Prop("C", "x"), Prop("C", "x"), Prop("D", "x"), Prop("this", "x"), Prop("D", "y")>>)
WidePrograms == {<<S(<<o, CallS(2)>>), WideScript>> : o \in {Op("benign"), Prop("C", "z")}}
MCPrograms == WidePrograms \cup PairPrograms \cup RingPrograms
MCRangeOf == [C |-> "RC", D |-> "none"]

MCFactOps == {"Add", "Sub", "Mul", "Mod", "Inc", "Dec", "Neg", "Pos", "Ursh", "BitAnd",
              "BitOr", "BitXor", "Lsh", "Rsh", "BitNot", "Div"}
MCBounds == {-17, -16, -1, 0, 2, 15}
MCCellOps == MCFactOps \ {"Dec", "Pos", "BitXor", "Div"}
MCEvidenceA == {IntegerValue(-5), IntegerValue(10), Prim({"double"}), Prim({"string"}),
                Prim({"boolean"}), UnknownEvidence}
MCEvidenceB == {IntegerValue(3), IntegerValue(12), Prim({"undefined"}), IntegralDouble}
MCLiterals == {NoRange, VRange(2, 2), VRange(1, 5)}

MCMatches == Of(Patterns, MCSubjects, {1, 3, 9}) \cup Of(Probes \cup BackRefs, ShortSubjects, {1})

\* The other parts stay in a state where they are done, or in a first one.
WorkIdle == /\ ts = SeedOf /\ work = {} /\ subs = [c \in Cell |-> {}] /\ links = {}
            /\ live = {} /\ pending = {} /\ evaluated = {}
EffIdle == /\ program = <<S(<<>>)>> /\ phase = "settle" /\ next = 1 /\ locals = <<NoEffects>>
           /\ deps = <<<<>>>> /\ sums = <<Clean>> /\ queue = <<>>
ClaimIdle == level = "operands" /\ opcode = "Add" /\ left = NoIv /\ right = NoIv /\ literal = NoRange
RxIdle == /\ prog = OffEnd /\ subj = <<>> /\ cap = 1 /\ current = 0 /\ char = NewLine /\ regs = <<>>
          /\ buf = [k \in {0} |-> [v |-> 0, label |-> FALSE]]
          /\ at = 1 /\ sp = 0 /\ cnt = 0 /\ status = "run" /\ out = <<>>

Init == \/ part = "types" /\ WorkInit /\ EffIdle /\ ClaimIdle /\ RxIdle
        \/ part = "effects" /\ EffInit /\ WorkIdle /\ ClaimIdle /\ RxIdle
        \/ part = "claims" /\ ClaimInit /\ WorkIdle /\ EffIdle /\ RxIdle
        \/ part = "match" /\ RxInit /\ WorkIdle /\ EffIdle /\ ClaimIdle
Match == part = "match" /\ Step /\ UNCHANGED <<part, workVars, effVars, claimVars>>
Next == \/ part = "types" /\ WorkNext /\ UNCHANGED <<part, effVars, claimVars, rxVars>>
        \/ part = "effects" /\ EffNext /\ UNCHANGED <<part, workVars, claimVars, rxVars>>
        \/ part = "claims" /\ ClaimNext /\ UNCHANGED <<part, workVars, effVars, rxVars>>
        \/ Match
vars == <<part, workVars, effVars, claimVars, rxVars>>
\* Nothing runs beside a part: each loop goes on while it can, and a call of a matcher, straight
\* code that nothing preempts, runs until it returns.
Spec == Init /\ [][Next]_vars /\ WorkFairness /\ EffFairness /\ WF_vars(Match)

\* Every call of a matcher returns: no scan, counted loop or cycle of backtracks runs
\* forever.
MatchEnds == part = "match" => <>(status # "run")
=============================================================================
