------------------------------- MODULE MCUnwindBodies -------------------------------
(***************************************************************************)
(* Bodies for Unwind, laid out as the engine's frontend lays them out: the *)
(* ops with the number of handlers the source program has open after each, *)
(* the try notes inner before outer (a ForOfIterClose note covers a close  *)
(* and the rest of the jump it belongs to, a for-of loop with a yield has  *)
(* a finally that closes on a forced return), and the scope notes (a jump  *)
(* out of a scope opens a note for the scope it is back in).               *)
(***************************************************************************)
EXTENDS Unwind

Op_(o, a, b, d) == [op |-> o, a |-> a, b |-> b, d |-> d]
TryNote(k, depth, start, length) == [kind |-> k, depth |-> depth, start |-> start, length |-> length]
Scope(s, start, length) == [scope |-> s, start |-> start, length |-> length]

\* try { { let a; for (k in o) { try { for (x of y) { { let b; f(); } if (?) break; if (?) break outer; } } catch { if (?) break; f(); } } } } catch { f(); }
Loops ==
    [code |-> <<Op_("trycatch", 42, 0, 1), Op_("env", 1, 0, 1), Op_("iter", 0, 0, 1), Op_("trycatch", 33, 0, 2),
              Op_("iter", 0, 0, 2), Op_("trycatch", 27, 0, 3), Op_("env", 2, 0, 3), Op_("op", 0, 0, 3),
              Op_("unenv", 0, 0, 3), Op_("push", 0, 0, 3), Op_("op", 0, 0, 3), Op_("pop", 0, 0, 3),
              Op_("branch", 17, 0, 3), Op_("nop", 0, 0, 2), Op_("close", 0, 0, 2), Op_("goto", 32, 0, 2),
              Op_("nop", 0, 0, 3), Op_("branch", 25, 0, 3), Op_("push", 0, 0, 3), Op_("pop", 0, 0, 3),
              Op_("nop", 0, 0, 2), Op_("close", 0, 0, 2), Op_("goto", 39, 0, 1), Op_("pop", 0, 0, 3),
              Op_("nop", 0, 0, 3), Op_("goto", 31, 0, 2), Op_("exception", 0, 0, 2), Op_("dup", 2, 0, 2),
              Op_("close", 1, 0, 2), Op_("throw", 0, 0, 2), Op_("exhaust", 2, 0, 2), Op_("goto", 39, 0, 1),
              Op_("exception", 0, 0, 1), Op_("pop", 0, 0, 1), Op_("branch", 37, 0, 1), Op_("goto", 39, 0, 1),
              Op_("nop", 0, 0, 1), Op_("op", 0, 0, 1), Op_("enditer", 0, 0, 1), Op_("unenv", 0, 0, 1),
              Op_("goto", 45, 0, 0), Op_("exception", 0, 0, 0), Op_("pop", 0, 0, 0), Op_("op", 0, 0, 0),
              Op_("ret", 0, 0, 0)>>,
     notes |-> <<TryNote("iterclose", 0, 15, 2), TryNote("iterclose", 0, 22, 2), TryNote("catch", 2, 7, 20), TryNote("iterclose", 0, 29, 1),
               TryNote("forof", 2, 6, 25), TryNote("catch", 1, 5, 28), TryNote("forin", 1, 4, 35), TryNote("catch", 0, 2, 40)>>,
     scopes |-> <<Scope(1, 3, 38), Scope(2, 8, 2)>>,
     generator |-> FALSE]

\* for (x of y) { try { for (k in o) { { let b; f(); } for (z of w) { try { f(); if (?) break or break of any loop or return; } finally { f(); } } } } catch { f(); } }
Exits ==
    [code |-> <<Op_("iter", 0, 0, 0), Op_("trycatch", 63, 0, 1), Op_("trycatch", 59, 0, 2), Op_("iter", 0, 0, 2),
              Op_("env", 1, 0, 2), Op_("op", 0, 0, 2), Op_("unenv", 0, 0, 2), Op_("iter", 0, 0, 2),
              Op_("trycatch", 52, 0, 3), Op_("tryfinally", 29, 0, 4), Op_("push", 0, 0, 4), Op_("op", 0, 0, 4),
              Op_("branch", 16, 0, 4), Op_("pop", 0, 0, 4), Op_("gosub", 29, 33, 3), Op_("nop", 0, 0, 4),
              Op_("pop", 0, 0, 4), Op_("branch", 20, 0, 4), Op_("gosub", 29, 39, 3), Op_("nop", 0, 0, 4),
              Op_("branch", 23, 0, 4), Op_("gosub", 29, 42, 3), Op_("nop", 0, 0, 4), Op_("branch", 27, 0, 4),
              Op_("result", 0, 0, 4), Op_("gosub", 29, 45, 3), Op_("nop", 0, 0, 4), Op_("gosub", 29, 51, 3),
              Op_("getrval", 0, 0, 3), Op_("op", 0, 0, 3), Op_("setrval", 0, 0, 3), Op_("endfinally", 0, 0, 3),
              Op_("nop", 0, 0, 2), Op_("close", 0, 0, 2), Op_("enditer", 0, 0, 2), Op_("nop", 0, 0, 0),
              Op_("close", 0, 0, 0), Op_("goto", 68, 0, 0), Op_("nop", 0, 0, 2), Op_("close", 0, 0, 2),
              Op_("goto", 57, 0, 2), Op_("nop", 0, 0, 2), Op_("close", 0, 0, 2), Op_("goto", 57, 0, 2),
              Op_("nop", 0, 0, 2), Op_("close", 0, 0, 2), Op_("enditer", 0, 0, 2), Op_("nop", 0, 0, 0),
              Op_("close", 0, 0, 0), Op_("ret", 0, 0, 0), Op_("goto", 56, 0, 2), Op_("exception", 0, 0, 2),
              Op_("dup", 3, 0, 2), Op_("close", 1, 0, 2), Op_("throw", 0, 0, 2), Op_("exhaust", 3, 0, 2),
              Op_("enditer", 0, 0, 2), Op_("goto", 62, 0, 1), Op_("exception", 0, 0, 1), Op_("pop", 0, 0, 1),
              Op_("op", 0, 0, 1), Op_("goto", 67, 0, 0), Op_("exception", 0, 0, 0), Op_("dup", 1, 0, 0),
              Op_("close", 1, 0, 0), Op_("throw", 0, 0, 0), Op_("exhaust", 1, 0, 0), Op_("ret", 0, 0, 0)>>,
     notes |-> <<TryNote("finally", 3, 11, 18), TryNote("iterclose", 0, 34, 5), TryNote("iterclose", 0, 37, 2), TryNote("iterclose", 0, 40, 2),
               TryNote("iterclose", 0, 43, 2), TryNote("iterclose", 0, 46, 5), TryNote("iterclose", 0, 49, 2), TryNote("catch", 3, 10, 42),
               TryNote("iterclose", 0, 54, 1), TryNote("forof", 3, 9, 47), TryNote("forin", 2, 5, 52), TryNote("catch", 1, 4, 55),
               TryNote("catch", 1, 3, 60), TryNote("iterclose", 0, 65, 1), TryNote("forof", 1, 2, 65)>>,
     scopes |-> <<Scope(1, 6, 2)>>,
     generator |-> FALSE]

\* try { for (x of y) { for (z of w) { f(); if (?) return; } if (?) return; } } catch { if (?) return; f(); } finally { f(); if (?) return; }
Returns ==
    [code |-> <<Op_("tryfinally", 43, 0, 1), Op_("trycatch", 35, 0, 2), Op_("iter", 0, 0, 2), Op_("trycatch", 29, 0, 3),
              Op_("iter", 0, 0, 3), Op_("trycatch", 17, 0, 4), Op_("op", 0, 0, 4), Op_("branch", 15, 0, 4),
              Op_("result", 0, 0, 4), Op_("nop", 0, 0, 3), Op_("close", 0, 0, 3), Op_("nop", 0, 0, 2),
              Op_("close", 0, 0, 2), Op_("gosub", 43, 51, 0), Op_("nop", 0, 0, 4), Op_("goto", 21, 0, 3),
              Op_("exception", 0, 0, 3), Op_("dup", 2, 0, 3), Op_("close", 1, 0, 3), Op_("throw", 0, 0, 3),
              Op_("exhaust", 2, 0, 3), Op_("branch", 27, 0, 3), Op_("result", 0, 0, 3), Op_("nop", 0, 0, 2),
              Op_("close", 0, 0, 2), Op_("gosub", 43, 52, 0), Op_("nop", 0, 0, 3), Op_("goto", 33, 0, 2),
              Op_("exception", 0, 0, 2), Op_("dup", 1, 0, 2), Op_("close", 1, 0, 2), Op_("throw", 0, 0, 2),
              Op_("exhaust", 1, 0, 2), Op_("goto", 42, 0, 1), Op_("exception", 0, 0, 1), Op_("pop", 0, 0, 1),
              Op_("branch", 40, 0, 1), Op_("result", 0, 0, 1), Op_("gosub", 43, 53, 0), Op_("nop", 0, 0, 1),
              Op_("op", 0, 0, 1), Op_("gosub", 43, 54, 0), Op_("getrval", 0, 0, 0), Op_("op", 0, 0, 0),
              Op_("branch", 48, 0, 0), Op_("result", 0, 0, 0), Op_("ret", 0, 0, 0), Op_("nop", 0, 0, 0),
              Op_("setrval", 0, 0, 0), Op_("endfinally", 0, 0, 0), Op_("ret", 0, 0, 0), Op_("ret", 0, 0, 0),
              Op_("ret", 0, 0, 0), Op_("ret", 0, 0, 0)>>,
     notes |-> <<TryNote("iterclose", 0, 11, 4), TryNote("iterclose", 0, 13, 2), TryNote("catch", 2, 7, 10), TryNote("iterclose", 0, 19, 1),
               TryNote("forof", 2, 6, 15), TryNote("iterclose", 0, 25, 2), TryNote("catch", 1, 5, 24), TryNote("iterclose", 0, 31, 1),
               TryNote("forof", 1, 4, 29), TryNote("catch", 0, 3, 32), TryNote("finally", 0, 3, 40)>>,
     scopes |-> <<>>,
     generator |-> FALSE]

\* function*: try { for (x of y) { try { l = 1; yield; f(); if (?) return; } catch { if (?) break; f(); } } } finally { yield; }
GenLoops ==
    [code |-> <<Op_("tryfinally", 38, 0, 1), Op_("iter", 0, 0, 1), Op_("tryfinally", 32, 0, 2), Op_("trycatch", 27, 0, 3),
              Op_("trycatch", 18, 0, 4), Op_("local", 0, 0, 4), Op_("yield", 0, 0, 4), Op_("check", 0, 0, 4),
              Op_("pop", 0, 0, 4), Op_("op", 0, 0, 4), Op_("branch", 16, 0, 4), Op_("result", 0, 0, 4),
              Op_("nop", 0, 0, 1), Op_("close", 0, 0, 1), Op_("gosub", 38, 44, 0), Op_("nop", 0, 0, 4),
              Op_("goto", 26, 0, 3), Op_("exception", 0, 0, 3), Op_("pop", 0, 0, 3), Op_("branch", 24, 0, 3),
              Op_("nop", 0, 0, 1), Op_("close", 0, 0, 1), Op_("goto", 37, 0, 1), Op_("nop", 0, 0, 3),
              Op_("op", 0, 0, 3), Op_("goto", 31, 0, 2), Op_("exception", 0, 0, 2), Op_("dup", 1, 0, 2),
              Op_("close", 1, 0, 2), Op_("throw", 0, 0, 2), Op_("gosub", 32, 36, 1), Op_("ifclosing", 35, 0, 1),
              Op_("dup", 1, 0, 1), Op_("close", 0, 0, 1), Op_("endfinally", 0, 0, 1), Op_("exhaust", 1, 0, 1),
              Op_("gosub", 38, 45, 0), Op_("getrval", 0, 0, 0), Op_("yield", 0, 0, 0), Op_("check", 0, 0, 0),
              Op_("pop", 0, 0, 0), Op_("setrval", 0, 0, 0), Op_("endfinally", 0, 0, 0), Op_("ret", 0, 0, 0),
              Op_("ret", 0, 0, 0)>>,
     notes |-> <<TryNote("iterclose", 0, 14, 2), TryNote("catch", 1, 6, 12), TryNote("iterclose", 0, 22, 2), TryNote("catch", 1, 5, 22),
               TryNote("iterclose", 0, 29, 1), TryNote("finally", 1, 5, 27), TryNote("iterclose", 0, 34, 1), TryNote("forof", 1, 3, 33),
               TryNote("finally", 0, 2, 36)>>,
     scopes |-> <<>>,
     generator |-> TRUE]

\* function*: try { for (k in o) { try { for (j in p) { { let a; yield; } } } catch { f(); } } } catch { f(); } finally { if (?) return; }
GenClose ==
    [code |-> <<Op_("tryfinally", 24, 0, 1), Op_("trycatch", 20, 0, 2), Op_("iter", 0, 0, 2), Op_("trycatch", 15, 0, 3),
              Op_("iter", 0, 0, 3), Op_("env", 1, 0, 3), Op_("push", 0, 0, 3), Op_("yield", 0, 0, 3),
              Op_("check", 0, 0, 3), Op_("pop", 0, 0, 3), Op_("pop", 0, 0, 3), Op_("unenv", 0, 0, 3),
              Op_("enditer", 0, 0, 3), Op_("goto", 18, 0, 2), Op_("exception", 0, 0, 2), Op_("pop", 0, 0, 2),
              Op_("op", 0, 0, 2), Op_("enditer", 0, 0, 2), Op_("goto", 23, 0, 1), Op_("exception", 0, 0, 1),
              Op_("pop", 0, 0, 1), Op_("op", 0, 0, 1), Op_("gosub", 24, 31, 0), Op_("getrval", 0, 0, 0),
              Op_("branch", 28, 0, 0), Op_("result", 0, 0, 0), Op_("ret", 0, 0, 0), Op_("nop", 0, 0, 0),
              Op_("setrval", 0, 0, 0), Op_("endfinally", 0, 0, 0), Op_("ret", 0, 0, 0)>>,
     notes |-> <<TryNote("forin", 2, 6, 7), TryNote("catch", 1, 5, 10), TryNote("forin", 1, 4, 14), TryNote("catch", 0, 3, 17),
               TryNote("finally", 0, 3, 21)>>,
     scopes |-> <<Scope(1, 7, 6)>>,
     generator |-> TRUE]

\* function*: try { try { [a = yield, b = f()] = y; } catch { f(); } } finally { f(); }
GenPattern ==
    [code |-> <<Op_("tryfinally", 20, 0, 1), Op_("trycatch", 16, 0, 2), Op_("dstr", 0, 0, 2), Op_("yield", 0, 0, 2),
              Op_("check", 0, 0, 2), Op_("pop", 0, 0, 2), Op_("op", 0, 0, 2), Op_("exhaust", 1, 2, 2),
              Op_("pop", 0, 0, 2), Op_("pop", 0, 0, 2), Op_("dstr", 0, 0, 2), Op_("op", 0, 0, 2),
              Op_("pop", 0, 0, 2), Op_("close", 0, 0, 2), Op_("goto", 19, 0, 1), Op_("exception", 0, 0, 1),
              Op_("pop", 0, 0, 1), Op_("op", 0, 0, 1), Op_("gosub", 20, 24, 0), Op_("getrval", 0, 0, 0),
              Op_("op", 0, 0, 0), Op_("setrval", 0, 0, 0), Op_("endfinally", 0, 0, 0), Op_("ret", 0, 0, 0)>>,
     notes |-> <<TryNote("dstr", 2, 4, 5), TryNote("dstr", 2, 12, 1), TryNote("catch", 0, 3, 13), TryNote("finally", 0, 2, 18)>>,
     scopes |-> <<>>,
     generator |-> TRUE]

MCScripts == {Loops, Exits, Returns, GenLoops, GenClose, GenPattern}
=============================================================================
