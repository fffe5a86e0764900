------------------------------- MODULE MCCalls -------------------------------
(***************************************************************************)
(* Leaving a body and coming back, on small instances: one call site with  *)
(* its caches over a moving heap (CallDispatch), what a frame keeps across *)
(* nested calls (CallKeep), the frames of nested activations on the value  *)
(* stack (ValueStack), and the exceptional exits of bodies laid out as the *)
(* engine's frontend does (Unwind, MCUnwindBodies).  A behaviour runs one  *)
(* of the four; the others stay as they start.                             *)
(***************************************************************************)
EXTENDS CallDispatch, CallKeep, ValueStack, MCUnwindBodies

VARIABLE part

MCIds == {"apply", "call", "hasOwn", "Array", "OP", "f", "g", "k", "u", "P", "Q", "w"}
MCKind == [i \in MCIds |-> CASE i \in {"apply", "call", "hasOwn", "Array"} -> "native"
                             [] i \in {"f", "g", "u"} -> "normal" [] i = "k" -> "class" [] i = "w" -> "arrow" [] OTHER -> "plain"]
MCScriptOf == [f |-> "A", g |-> "B", k |-> "K", u |-> "U", w |-> "W"]
Scr(i, n, o, odd) == [idx |-> i, nargs |-> n, observes |-> o, odd |-> odd]
MCScript == [A |-> Scr(1, 1, FALSE, FALSE), B |-> Scr(2, 2, FALSE, FALSE), K |-> Scr(3, 1, FALSE, TRUE),
             U |-> Scr(0, 1, FALSE, FALSE), W |-> Scr(4, 0, TRUE, FALSE)]
MCSite(fam, likely, ids, ops) == [fam |-> fam, super |-> FALSE, likely |-> likely, fwd |-> "none", known |-> {}, seg |-> -1, ids |-> ids, ops |-> ops]
MCSites ==
    {MCSite("call", "none", {"f", "g", "k"}, 5), MCSite("call", "A", {"f", "g", "u"}, 4), MCSite("call", "K", {"k", "f"}, 4),
     MCSite("construct", "none", {"f", "P", "Q"}, 5), MCSite("construct", "none", {"f", "g", "P"}, 4),
     MCSite("construct", "A", {"f", "k", "w", "P"}, 3), MCSite("construct", "none", {"Array", "f", "P"}, 4),
     [MCSite("construct", "none", {"Array", "f", "k", "P"}, 4) EXCEPT !.super = TRUE],
     [MCSite("apply", "none", {"f", "g", "apply", "w"}, 3) EXCEPT !.known = {"A", "B", "W"}],
     [MCSite("apply", "none", {"f", "g", "apply"}, 4) EXCEPT !.fwd = "A", !.seg = 2],
     [MCSite("apply", "none", {"w", "f", "apply"}, 4) EXCEPT !.fwd = "W"],
     MCSite("hasown", "none", {"call", "hasOwn", "f"}, 3)}

KeptBody(top, writes, ret, mapped, threaded, scanned, reads) ==
    [top |-> top, writes |-> writes, retThis |-> ret, mapped |-> mapped, threaded |-> threaded, scanned |-> scanned, reads |-> reads]
MCClass == [o \in {"o1", "o2", "n1"} |-> IF o = "o2" THEN "d" ELSE "c"]
MCRow == [c \in {"c", "d"} |-> IF c = "c" THEN {"p"} ELSE {"p", "q"}]
MCBodies == [s \in {"caller", "quiet", "loud", "maker"} |->
   CASE s = "caller" -> KeptBody(TRUE, {}, TRUE, FALSE, TRUE, TRUE, TRUE)
     [] s = "quiet" -> KeptBody(FALSE, {<<"d", "q">>}, TRUE, FALSE, TRUE, TRUE, FALSE)
     [] s = "loud" -> KeptBody(FALSE, {<<"any", "q">>}, TRUE, FALSE, FALSE, TRUE, FALSE)
     [] s = "maker" -> KeptBody(TRUE, {}, FALSE, TRUE, TRUE, TRUE, FALSE)]
MCOutermost == {<<"caller", "o1">>}
MCCallSites == {<<"quiet", "quiet">>, <<"loud", "loud">>, <<"maker", "maker">>, <<"maker", "engine">>,
            <<"engine", "quiet">>}

\* What CallKeepProofs assumes of a program's bindings is true of this one.
ASSUME BindingForked

MkBody(nargs, nlocals, depth, e, args, g, wrapper, inl) ==
    [nargs |-> nargs, nlocals |-> nlocals, depth |-> depth, env |-> e, args |-> args, nt |-> FALSE, gen |-> g,
     wrapper |-> wrapper, inl |-> inl]
MCCode == "A" :> MkBody(1, 1, 6, "setup", "none", FALSE, FALSE, FALSE) @@ "B" :> MkBody(1, 13, 3, "plain", "mapped", FALSE, FALSE, FALSE)
       @@ "C" :> MkBody(1, 1, 4, "none", "none", FALSE, FALSE, TRUE) @@ "W" :> MkBody(0, 0, 3, "none", "none", FALSE, TRUE, TRUE)
       @@ "G" :> [MkBody(0, 1, 7, "plain", "none", TRUE, FALSE, FALSE) EXCEPT !.nt = TRUE]
\* What ValueStackProofs assumes of a program's bodies is true of these.
ASSUME HeadroomSuffices(9)
Edge(f, h, t, args) == [from |-> f, how |-> h, to |-> t, args |-> args]
Num(n) == <<"i", n>>
MCEdges == {Edge("engine", "call", "A", <<>>), Edge("engine", "call", "B", <<Ptr(1), Num(2)>>), Edge("engine", "resume", "G", <<>>),
   Edge("A", "call", "B", <<Ptr(1), Ptr(2)>>), Edge("A", "call", "A", <<>>), Edge("A", "new", "B", <<Ptr(1), Num(2)>>),
   Edge("A", "splice", "C", <<>>), Edge("A", "splice", "C", <<Num(1), Ptr(2)>>), Edge("A", "splice", "W", <<Ptr(1), Num(2)>>), 
   Edge("A", "splice", "C", <<Ptr(1), Num(2)>>), Edge("A", "splice new", "C", <<Num(1)>>),
   Edge("W", "splice", "C", <<Num(1)>>), Edge("C", "call", "B", <<Ptr(1)>>), Edge("B", "call", "B", <<>>), Edge("G", "call", "A", <<Ptr(1)>>)}

calls == <<part, dispVars, keepVars, unwVars, vsVars>>

Init ==
    /\ part \in {"dispatch", "keep", "unwind", "frames"}
    /\ DispInit /\ (part # "dispatch" => site = CHOOSE s \in Sites : TRUE)
    /\ KeepInit
    /\ UnwInit /\ (part # "unwind" => script = Loops)
    /\ VsInit
Next ==
    \/ part = "dispatch" /\ DispNext /\ UNCHANGED <<part, keepVars, unwVars, vsVars>>
    \/ part = "keep" /\ KeepNext /\ UNCHANGED <<part, dispVars, unwVars, vsVars>>
    \/ part = "unwind" /\ UnwNext /\ UNCHANGED <<part, dispVars, keepVars, vsVars>>
    \/ part = "frames" /\ VsNext /\ UNCHANGED <<part, dispVars, keepVars, unwVars>>
    \/ part # "unwind" /\ UNCHANGED calls   \* the bounds stop these three
Spec == Init /\ [][Next]_calls
=============================================================================
