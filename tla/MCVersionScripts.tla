------------------------------ MODULE MCVersionScripts ------------------------------
(***************************************************************************)
(* The facts and the scripts TLC explores SlotContext and Versioning on.   *)
(***************************************************************************)
EXTENDS Versioning

MCSlotVals ==
    {[UndefinedVal EXCEPT !.tag = "int32", !.h = 2 * n] : n \in I32_LO..I32_HI}
      \cup {[UndefinedVal EXCEPT !.tag = "double", !.h = h] : h \in {-10, 1, 2, 8, 80}}
      \cup {[UndefinedVal EXCEPT !.tag = "double", !.nz = TRUE], UndefinedVal}
      \cup {[UndefinedVal EXCEPT !.tag = t] : t \in {"string", "boolean"}}
      \cup {[UndefinedVal EXCEPT !.tag = "object", !.idx = i, !.shallow = s, !.slots = s \/ i = 2, !.ta = t] :
              i \in 1..3, s \in BOOLEAN, t \in {NoTa, "f64"}}
Cls(l, h, s) == [OBJ_ONLY_SLOT EXCEPT !.cls = VRange(l, h), !.shallow = s, !.slots = s]
IntSlot(l, h) == [INT32_SLOT EXCEPT !.iv = VRange(l, h)]
MCSlots == {TOP, OBJ_ONLY_SLOT, INT32_SLOT, NUMERIC_SLOT, DOUBLE_SLOT, STR_SLOT, SlotOf({"undefined"}, FALSE, Top),
            Cls(1, 1, TRUE), Cls(2, 3, FALSE), [OBJ_ONLY_SLOT EXCEPT !.ta = "f64"], IntSlot(0, 0), IntSlot(1, 2),
            [Slot(NUM, FALSE, I53) EXCEPT !.iv = VRange(-4, 4)]}

-----------------------------------------------------------------------------
\* Slots 1 and 2 are locals, slot 3 a formal.  Liveness is computed from the ops.
MCLocals == 1..3
Op(o) == [o |-> o]
On(o, l) == [o |-> o, l |-> l]
Jump(o, t) == [o |-> o, t |-> t]
CallAt(h, c) == [o |-> "call", t |-> h, closes |-> c]
Load(l, claim) == [o |-> "load", l |-> l, claim |-> claim]
ClaimOf(prims, df) == [object |-> FALSE, ta |-> NoTa, prims |-> prims, double_first |-> df]

Uses(op) == IF op.o \in {"inc", "guard", "use"} THEN {op.l} ELSE {}
Defs(op) == IF op.o \in {"int", "inc", "load"} THEN {op.l} ELSE {}
Nexts(ops, p) == LET op == ops[p]
                 IN CASE op.o = "ret" -> {} [] op.o = "goto" -> {op.t}
                      [] op.o \in {"br", "splice"} -> {op.t, p + 1}
                      [] op.o = "call" -> {p + 1} \cup ({op.t} \ {0})
                      [] OTHER -> {p + 1}
LiveAt(ops) ==
    LET n == Len(ops)
        L[j \in 0..n] == IF j = 0 THEN [p \in 1..n |-> {}]
                         ELSE [p \in 1..n |-> Uses(ops[p]) \cup (UNION {L[j - 1][q] : q \in Nexts(ops, p)} \ Defs(ops[p]))]
    IN L[n]

ScriptOf(ops, loops, claims) ==
    [ops |-> ops, slots |-> MCLocals, loops |-> loops, seg |-> [p \in DOMAIN ops |-> 0],
     sites |-> [p \in DOMAIN ops |-> {}], outer |-> [p \in DOMAIN ops |-> {}], live |-> LiveAt(ops), formals |-> {3}, claims |-> claims, generator |-> FALSE]

\* for (i = 0; ...; i++) with the formal guarded and read in the loop: the counter overflows.
Counter == ScriptOf(<<On("int", 1), Op("head"), Jump("br", 7), On("guard", 3), On("inc", 1), Jump("goto", 2), On("use", 1), Op("ret")>>,
                    <<[h |-> 2, e |-> 7]>>, <<>>)
\* A call in the loop between two class guards, with a handler outside.
CallLoop == ScriptOf(<<On("int", 1), Op("head"), On("guard", 3), CallAt(8, FALSE), On("guard", 3), On("inc", 1), Jump("br", 2),
                       On("use", 1), On("use", 3), Op("ret")>>, <<[h |-> 2, e |-> 8]>>, <<>>)
\* Nested loops over a typed formal; the inner one loads a claimed number.
NestedLoads == ScriptOf(<<On("int", 1), Op("head"), On("int", 2), Op("head"), On("inc", 2), Load(1, ClaimOf(NUM, TRUE)), Jump("br", 4),
                     On("inc", 3), Jump("br", 2), On("use", 1), On("use", 3), Op("ret")>>,
                   <<[h |-> 2, e |-> 10], [h |-> 4, e |-> 8]>>, 3 :> ClaimOf({"int32"}, FALSE))
\* Two spliced callees: one with a loop, before the loop (pcs 9 to 12), one inside it (pcs 13 to 15).
SplicedTwice == [ScriptOf(<<Jump("splice", 9), Op("head"), On("guard", 3), Jump("splice", 13), On("inc", 1), Jump("br", 2), On("use", 2), Op("ret"),
                       Op("head"), On("inc", 2), Jump("br", 9), Jump("goto", 2),
                       On("inc", 2), CallAt(0, FALSE), Jump("goto", 5)>>,
                     <<[h |-> 2, e |-> 7], [h |-> 9, e |-> 12]>>, <<>>)
            EXCEPT !.seg = [p \in 1..15 |-> IF p >= 13 THEN 2 ELSE IF p >= 9 THEN 1 ELSE 0],
                   !.sites = [p \in 1..15 |-> IF p >= 13 THEN {4} ELSE IF p >= 9 THEN {1} ELSE {}],
                   !.outer = [p \in 1..15 |-> IF p >= 9 THEN {1, 3} ELSE {}]]
\* for (k in o) { p.x; i++; f(); p.x; i } inside a try: when f throws the iterator is closed.
Closing == ScriptOf(<<On("int", 1), Op("head"), On("guard", 3), On("inc", 1), CallAt(9, TRUE), On("guard", 3), On("use", 1), Jump("br", 2),
                      On("use", 3), Op("ret")>>, <<[h |-> 2, e |-> 9]>>, <<>>)
Gen == [Counter EXCEPT !.generator = TRUE]

MCScripts == {Counter, CallLoop, NestedLoads, SplicedTwice, Gen}
MCClosing == {Closing}
MCMaxRounds == {1, 3}
MCSizes == {{}, {"full"}, {"full", "fanout", "gen"}}
MCArgVals == {NumberVal(0), NumberVal(2 * I32_HI), Fraction, [UndefinedVal EXCEPT !.tag = "object"]}
=============================================================================
