-------------------------------- MODULE Unwind --------------------------------
(***************************************************************************)
(* Exceptional control flow of one compiled body: bbv/frame.rs (the walk   *)
(* over the try notes, the environment pop, the landing pads) and          *)
(* bbv/generator.rs (suspend, resume, forced return).                      *)
(*                                                                         *)
(* A script is bytecode with its try and scope notes, laid out as the      *)
(* engine's frontend does.  Each op names the number of source constructs  *)
(* open after it (d): from that, and from nothing in the notes, the        *)
(* variable open keeps what the structured program has open, with the      *)
(* stack and environment each construct was entered with.  A throw is      *)
(* resolved both ways: by the code's walk, and by that reference.          *)
(***************************************************************************)
EXTENDS Integers, Sequences, FiniteSets, SequencesExt

CONSTANT Scripts       \* [code, notes, scopes, generator]

Closing == "closing"   \* the JS_GENERATOR_CLOSING magic, as a pending exception

VARIABLES
    script, pc, stack,
    env,        \* the frame's env slot: the chain of block environments, outermost first
    local,      \* one local slot, written through to the frame
    rval,       \* the rval slot
    pend,       \* the pending exception, or "none"
    iters,      \* the iterators made so far: [n: times closed, done]
    gen,        \* the generator object: [st, storage, ridx, env]
    status,     \* "run", "suspended", "return" or "throw"
    open,       \* reference: the open constructs, [k, h, depth, stack, env]
    landing,    \* the last throw: what the code and what the reference do
    forced      \* reference: the completion under way is a forced return's

unwVars == <<script, pc, stack, env, local, rval, pend, iters, gen, status, open, landing, forced>>

-----------------------------------------------------------------------------
Op == script.code[pc]
InRange(n) == pc >= n.start /\ pc < n.start + n.length

\* The walk's skip of a ForOfIterClose note: the index behind the ForOf it pairs with.
SkipIterClose(i) ==
    LET Level(j) == Cardinality({m \in i..j : InRange(script.notes[m]) /\ script.notes[m].kind = "iterclose"})
                      - Cardinality({m \in i..j : InRange(script.notes[m]) /\ script.notes[m].kind = "forof"})
        ends == {j \in i..Len(script.notes) : Level(j) = 0}
    IN IF ends = {} THEN Len(script.notes) + 1
       ELSE 1 + CHOOSE j \in ends : \A m \in ends : j <= m

Step(i) == IF script.notes[i].kind = "iterclose" /\ InRange(script.notes[i])
           THEN SkipIterClose(i) ELSE i + 1

\* A note of a deeper stack was left behind by a jump that has popped its operands.
Deeper(n, depth) == n.depth > depth

\* walk_try_notes_impl: the closes on the way, and the handler note, if any.
RECURSIVE Walk(_, _, _, _)
Walk(i, depth, skipCatches, closes) ==
    IF i > Len(script.notes) THEN [closes |-> closes, handler |-> <<>>]
    ELSE LET n == script.notes[i]
         IN IF ~InRange(n) \/ n.kind \in {"iterclose", "forof"} \/ Deeper(n, depth)
              THEN Walk(Step(i), depth, skipCatches, closes)
            ELSE IF n.kind \in {"forin", "dstr"}
              THEN Walk(i + 1, depth, skipCatches, Append(closes, n))
            ELSE IF n.kind = "catch" /\ skipCatches
              THEN Walk(i + 1, depth, skipCatches, closes)
            ELSE [closes |-> closes, handler |-> <<n>>]

\* env_depth_at: the scope notes of env-bearing scopes (scope 0 bears none) covering p.
EnvDepthAt(p) ==
    Cardinality({i \in 1..Len(script.scopes) :
        LET n == script.scopes[i] IN n.scope # 0 /\ p >= n.start /\ p < n.start + n.length})

\* unwind_env_to: the static difference is popped from the frame's env slot.  The
\* note is found by where its handler starts; the Try op precedes its range.
UnwindEnv(handler) ==
    LET note == SelectSeq(script.notes, LAMBDA n : n.kind \in {"catch", "finally"}
                                                  /\ n.start + n.length = handler.start + handler.length)[1]
        site == EnvDepthAt(pc)
        base == EnvDepthAt(note.start - 1)
        k == IF site > base THEN site - base ELSE 0
    IN SubSeq(env, 1, IF k > Len(env) THEN 0 ELSE Len(env) - k)

\* end_iter and close_iter_for_exception on the iterator a note's depth points at.
ClosedBy(its, n) ==
    IF n.kind = "forin" THEN [its EXCEPT ![stack[n.depth]].n = @ + 1]
    ELSE IF stack[n.depth] = "done" THEN its
    ELSE [its EXCEPT ![stack[n.depth - 1]].n = @ + 1]

\* Mutant: only the closes that can run user code are run.
RunClosesSpilled(its, closes) == FoldLeft(ClosedBy, its, SelectSeq(closes, LAMBDA n : n.kind = "dstr"))
RunCloses(its, closes) == FoldLeft(ClosedBy, its, closes)

\* The closes of a walk that run an iterator's return method, which may throw.
RunsUserReturn(closes) ==
    \E i \in 1..Len(closes) : closes[i].kind = "dstr" /\ stack[closes[i].depth] # "done"

-----------------------------------------------------------------------------
\* The reference: which construct of the source program handles the exception,
\* and which iterators the language closes on the way.
Handles(c, closing) == c.k = "finally" \/ (c.k = "catch" /\ ~closing)
RefHandler(closing) ==
    LET hs == {i \in 1..Len(open) : Handles(open[i], closing)}
    IN IF hs = {} THEN 0 ELSE CHOOSE i \in hs : \A j \in hs : j <= i
RefLanding(exc) ==
    LET i == RefHandler(exc = Closing)
    IN IF i = 0 THEN [h |-> 0, stack |-> <<>>, env |-> <<>>]
       ELSE [h |-> open[i].h, stack |-> open[i].stack, env |-> open[i].env]

NoLanding == [got |-> [h |-> 0, stack |-> <<>>, env |-> <<>>],
              want |-> [h |-> 0, stack |-> <<>>, env |-> <<>>]]

LandingStack(note) == SubSeq(stack, 1, note.depth)

\* The error epilogue; a generator's turns a surviving closing magic into a return.
Epilogue(exc) == IF exc = Closing THEN "return" ELSE "throw"

\* handler_target and the landing pads.  A catch is entered with the stack cut to
\* the note's depth; a finally's pad takes the exception and pushes its triple;
\* with no handler the error epilogue runs.
Land(walk, exc, its) ==
    /\ iters' = its
    /\ landing' = [got |-> IF walk.handler = <<>> THEN NoLanding.got
                           ELSE [h |-> walk.handler[1].start + walk.handler[1].length,
                                 stack |-> LandingStack(walk.handler[1]),
                                 env |-> UnwindEnv(walk.handler[1])],
                   want |-> RefLanding(exc)]
    /\ IF walk.handler = <<>>
       THEN /\ status' = Epilogue(exc)
            /\ pend' = IF exc = Closing THEN "none" ELSE exc
            /\ gen' = [gen EXCEPT !.st = "closed"]
            /\ open' = <<>>
            /\ UNCHANGED <<pc, stack, env>>
       ELSE /\ pc' = landing'.got.h
            /\ env' = landing'.got.env
            /\ open' = SubSeq(open, 1, RefHandler(exc = Closing) - 1)
            /\ IF walk.handler[1].kind = "catch"
               THEN stack' = landing'.got.stack /\ pend' = exc
               ELSE stack' = landing'.got.stack \o <<exc, "stk", "true">> /\ pend' = "none"
            /\ UNCHANGED <<status, gen>>
    /\ forced' = (exc = Closing)
    /\ UNCHANGED <<script, local>>

Rest(full, closes) == SubSeq(full, Len(closes) + 1, Len(full))

Split(w) == script.generator /\ w.handler # <<>> /\ w.handler[1].kind = "catch"

\* exception_target: the closes, then the handler.  In a generator a catch is split
\* at run time (exception_target_gen_catch): the closes up to the catch run, the
\* magic is peeked at, and a closing unwind goes on past every catch.  A closing
\* unwind's user return method may throw, which replaces the magic.
Throw(exc, depth, before) ==
    LET w == Walk(1, depth, FALSE, <<>>)
        full == Walk(1, depth, TRUE, <<>>)
        its == RunCloses(before, w.closes)
    IN \E now \in {exc} \cup (IF exc = Closing /\ RunsUserReturn(w.closes) THEN {"user"} ELSE {}) :
         /\ IF Split(w) /\ now = Closing
            THEN Land(full, now, RunCloses(its, Rest(full.closes, w.closes)))
            ELSE Land(w, now, its)

-----------------------------------------------------------------------------
Running(names) == status = "run" /\ Op.op \in names

\* The reference's open constructs after an op.
Cut == SubSeq(open, 1, Op.d)
EnterConstruct(k) == Append(SubSeq(open, 1, Op.d - 1), [k |-> k, h |-> Op.a, stack |-> stack, env |-> env])

Quiet == pc' = pc + 1 /\ open' = Cut /\ UNCHANGED <<script, landing, status, gen, pend, forced>>

Plain == /\ Running({"op", "nop"})
         /\ Quiet /\ UNCHANGED <<stack, env, local, rval, iters>>

\* Ops that run user code or allocate may throw, with their operands on the stack.
OpThrows == Running({"op"}) /\ Throw("user", Len(stack), iters) /\ UNCHANGED rval

Push == /\ Running({"push", "dup", "getrval"})
        /\ stack' = Append(stack, CASE Op.op = "push" -> "tmp"
                                    [] Op.op = "dup" -> stack[Op.a]
                                    [] OTHER -> rval)
        /\ Quiet /\ UNCHANGED <<env, local, rval, iters>>

\* Pop and SetRval
PopOp == /\ Running({"pop", "setrval"})
         /\ stack' = Front(stack)
         /\ rval' = IF Op.op = "setrval" THEN Last(stack) ELSE rval
         /\ Quiet /\ UNCHANGED <<env, local, iters>>

\* A jump; the source's conditions are not modelled, so a branch goes either way.
Goto == /\ Running({"goto", "branch"})
        /\ pc' \in {Op.a} \cup (IF Op.op = "branch" THEN {pc + 1} ELSE {})
        /\ open' = Cut
        /\ UNCHANGED <<script, stack, env, local, rval, pend, iters, gen, status, landing, forced>>

\* SetLocal: the frame slot is written at once.
SetLocal == /\ Running({"local"})
            /\ local' = "set"
            /\ Quiet /\ UNCHANGED <<stack, env, rval, iters>>

PushLexicalEnv == /\ Running({"env"})
                  /\ env' = Append(env, Op.a)
                  /\ Quiet /\ UNCHANGED <<stack, local, rval, iters>>

PopLexicalEnv == /\ Running({"unenv"})
                 /\ env' = Front(env)
                 /\ Quiet /\ UNCHANGED <<stack, local, rval, iters>>

Try == /\ Running({"trycatch", "tryfinally"})
       /\ open' = EnterConstruct(IF Op.op = "trycatch" THEN "catch" ELSE "finally")
       /\ pc' = pc + 1
       /\ UNCHANGED <<script, stack, env, local, rval, pend, iters, gen, status, landing, forced>>

\* Exception: the handler's first op takes the pending exception.
Exception == /\ Running({"exception"})
             /\ stack' = Append(stack, pend) /\ pend' = "none"
             /\ pc' = pc + 1 /\ open' = Cut
             /\ UNCHANGED <<script, env, local, rval, iters, gen, status, landing, forced>>

\* Throw and ThrowWithStack, with the exception on top.
ThrowOp == Running({"throw"}) /\ Throw(Last(stack), Len(stack) - 1, iters) /\ UNCHANGED rval

\* A jump into a finally pushes where to go on, and that nothing was thrown; its
\* end goes there, or throws the exception it was entered with again.
GoSub == /\ Running({"gosub"})
         /\ stack' = stack \o <<Op.b, "stk", "false">>
         /\ pc' = Op.a /\ open' = Cut
         /\ UNCHANGED <<script, env, local, rval, pend, iters, gen, status, landing, forced>>

EndFinally ==
    /\ Running({"endfinally"})
    /\ LET n == Len(stack)
       IN IF stack[n] = "true" THEN Throw(stack[n - 2], n - 3, iters) /\ UNCHANGED rval
          ELSE /\ pc' = stack[n - 2] /\ stack' = SubSeq(stack, 1, n - 3) /\ open' = Cut
               /\ UNCHANGED <<script, env, local, rval, pend, iters, gen, status, landing, forced>>

\* Iter, a for-of head and a destructuring pattern make an iterator.
Iter == /\ Running({"iter", "dstr"})
        /\ iters' = Append(iters, [n |-> 0, done |-> FALSE])
        /\ stack' = stack \o (IF Op.op = "dstr" THEN <<Len(iters) + 1, "more">> ELSE <<Len(iters) + 1>>)
        /\ Quiet /\ UNCHANGED <<env, local, rval>>

\* The iterator below the top runs out: a pattern sets its done flag on the stack,
\* a for-of loop pops it and ends.
Exhaust == /\ Running({"exhaust"})
           /\ iters' = [iters EXCEPT ![stack[Op.a]].done = TRUE]
           /\ stack' = IF Op.b = 0 THEN Front(stack) ELSE [stack EXCEPT ![Op.b] = "done"]
           /\ Quiet /\ UNCHANGED <<env, local, rval>>

EndIter == /\ Running({"enditer"})
           /\ iters' = [iters EXCEPT ![Last(stack)].n = @ + 1]
           /\ stack' = Front(stack)
           /\ Quiet /\ UNCHANGED <<env, local, rval>>

\* CloseIter: the return method of the iterator on top runs, and may throw.  With a
\* throw completion (Op.a = 1) what it throws is dropped.
CloseIter ==
    /\ Running({"close"})
    /\ LET its == [iters EXCEPT ![Last(stack)].n = @ + 1]
       IN \/ iters' = its /\ stack' = Front(stack) /\ Quiet /\ UNCHANGED <<env, local, rval>>
          \/ Op.a = 0 /\ Throw("user", Len(stack), its) /\ UNCHANGED rval

\* IsGenClosing and its jump, on the exception a finally was entered with.
IsGenClosing ==
    /\ Running({"ifclosing"})
    /\ pc' = (IF Last(stack) = "true" /\ stack[Len(stack) - 2] = Closing THEN pc + 1 ELSE Op.a) /\ open' = Cut
    /\ UNCHANGED <<script, stack, env, local, rval, pend, iters, gen, status, landing, forced>>

\* SetRval of a return statement; RetRval and FinalYieldRval.
SetRval == /\ Running({"result"})
           /\ rval' = "own" /\ forced' = FALSE
           /\ pc' = pc + 1 /\ open' = Cut
           /\ UNCHANGED <<script, stack, env, local, pend, iters, gen, status, landing>>

RetRval == /\ Running({"ret"})
           /\ status' = "return" /\ gen' = [gen EXCEPT !.st = "closed"] /\ open' = <<>>
           /\ UNCHANGED <<script, pc, stack, env, local, rval, pend, iters, landing, forced>>

-----------------------------------------------------------------------------
Saved == <<local>> \o stack

\* emit_yield and gen_suspend: locals and operands go to the generator's storage.
Yield == /\ Running({"yield"})
         /\ gen' = [st |-> "suspended", storage |-> Saved, ridx |-> pc + 1, env |-> env,
                     frame |-> <<local, stack, env>>]
         /\ status' = "suspended" /\ stack' = <<>>
         /\ UNCHANGED <<script, pc, env, local, rval, pend, iters, open, landing, forced>>

\* What the entry fork finds in the frame's locals: the staged descriptor, which the
\* restored locals and operands overwrite.
Staged(kind, arg) == <<<<gen.ridx, kind>>, "gen", arg>>

Emptied == <<>>

Sent(kind, arg) == Staged(kind, arg)[3]

\* EnterNightResume and finalize_gen_dispatch: the descriptor is read, the frame
\* restored, the storage emptied, and the landing entered with the resume triple.
\* Another generator, or the same one, may have run since: env and local hold garbage.
Resume(kind) ==
    /\ status = "suspended"
    /\ status' = "run" /\ pc' = gen.ridx
    /\ local' = gen.storage[1]
    /\ stack' = Tail(gen.storage) \o <<Sent(kind, "sent"), "gen", kind>>
    /\ env' = gen.env
    /\ rval' = "undef"
    /\ gen' = [gen EXCEPT !.st = "running", !.storage = Emptied]
    /\ UNCHANGED <<script, pend, iters, open, landing, forced>>

\* emit_check_resume_kind and NightGenCheckResume
CheckResumeKind ==
    /\ Running({"check"})
    /\ LET n == Len(stack)
           kind == stack[n]
       IN IF kind = "next"
          THEN /\ stack' = SubSeq(stack, 1, n - 2)
               /\ Quiet /\ UNCHANGED <<env, local, rval, iters>>
          ELSE /\ rval' = IF kind = "return" THEN stack[n - 2] ELSE rval
               /\ Throw(IF kind = "return" THEN Closing ELSE "user", n - 2, iters)

-----------------------------------------------------------------------------
UnwInit == /\ script \in Scripts
           /\ pc = 1 /\ stack = <<>> /\ env = <<>> /\ local = "undef" /\ rval = "undef"
           /\ pend = "none" /\ iters = <<>>
           /\ gen = [st |-> "running", storage |-> <<>>, ridx |-> 0, env |-> <<>>, frame |-> <<>>]
           /\ status = "run" /\ open = <<>> /\ landing = NoLanding /\ forced = FALSE

\* A body that has ended stays so; a running one always has a next op.
Ended == status \in {"return", "throw"} /\ UNCHANGED unwVars

UnwNext ==
    \/ Ended
    \/ Plain \/ OpThrows \/ Push \/ PopOp \/ Goto \/ SetLocal
    \/ PushLexicalEnv \/ PopLexicalEnv
    \/ Try \/ Exception \/ ThrowOp \/ GoSub \/ EndFinally
    \/ Iter \/ Exhaust \/ EndIter \/ CloseIter
    \/ IsGenClosing \/ SetRval \/ RetRval
    \/ Yield \/ CheckResumeKind
    \/ \E kind \in {"next", "throw", "return"} : Resume(kind)

-----------------------------------------------------------------------------

\* Every throw lands where the structured program says: the walk over the try notes
\* (with the ForOfIterClose pairing, the stack-depth rule and the closing split)
\* picks the handler of the innermost construct that handles this completion.
HandlerIsInnermost == landing.got.h = landing.want.h

\* A handler starts with the operand stack its construct was entered with.
HandlerStack == landing.got.h # 0 => landing.got.stack = landing.want.stack

\* A handler starts in the environment its construct was entered in.
HandlerEnv == landing.got.h # 0 => landing.got.env = landing.want.env

\* No iterator is closed twice, and once the body has ended every iterator was
\* closed exactly once or ran out: an unwind closes what it passes and no more.
ClosedOnce ==
    \A i \in 1..Len(iters) :
       /\ iters[i].n <= 1
       /\ iters[i].done => iters[i].n = 0
       /\ status \in {"return", "throw"} => iters[i].n = 1 \/ iters[i].done

\* A forced return that nothing overrode ends as a normal return of the value sent.
ForcedReturn == forced /\ status \in {"return", "throw"} => status = "return" /\ rval = "sent"

\* A resumed body finds the local, the operands and the environment it suspended
\* with, and the value sent, whatever the descriptor overlapped.
ResumeRestores ==
    status = "run" /\ Op.op = "check" =>
       /\ gen.frame = <<local, SubSeq(stack, 1, Len(stack) - 3), env>>
       /\ stack[Len(stack) - 2] = "sent"

\* A throw, a forced return and a resumption do what the structured program says: the
\* handler, its stack and environment, the iterators closed on the way, the value that
\* comes out, the frame a resumed body finds.
UnwindsAsWritten ==
    HandlerIsInnermost /\ HandlerStack /\ HandlerEnv /\ ClosedOnce /\ ForcedReturn /\ ResumeRestores
=============================================================================
