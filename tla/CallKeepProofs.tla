---------------------------- MODULE CallKeepProofs ----------------------------
(***************************************************************************)
(* Proofs about what a frame keeps over a call, for any program (bodies,    *)
(* call sites, classes and layouts) and any depth of calls.                 *)
(*                                                                          *)
(* KeptHolds speaks of the innermost frame.  It is preserved by a return    *)
(* only because every suspended frame is right about everything except what *)
(* the call it waits for has done: its word owns up to all but the callee's *)
(* writes, demotions and binding writes, its facts hold of all objects the  *)
(* callee has not demoted, and the epochs it read before the call have      *)
(* moved if the callee demoted or bound anything.  A return then adds what  *)
(* the callee's own word owns up to.                                        *)
(***************************************************************************)
EXTENDS CallKeep, SequenceTheorems, TLAPS

KeepSpec == KeepInit /\ [][KeepNext]_keepVars

(***************************************************************************)
(* The inductive invariant.                                                 *)
(***************************************************************************)
BodyIds == DOMAIN Bodies \cup {Engine_}
ViaKinds == {"this", "other", "fresh"}

PreType == [kind : {"engine", "direct", "indirect"}, new : BOOLEAN, via : ViaKinds,
            likely : BodyIds, this : Objects, epoch : Nat, bepoch : Nat]
FrameType ==
    [body : BodyIds, this : Objects, fresh : SUBSET Objects, word : SUBSET FLAGS_ALL,
     facts : SUBSET Objects, gfact : BOOLEAN, opt : BOOLEAN, call : PreType \cup {NoCall},
     born : SUBSET Objects, written : SUBSET Objects, demoted : SUBSET Objects, bound : BOOLEAN]

HeapType(st, un, ep, bep, bi) ==
    /\ st \subseteq Objects \ un /\ un \subseteq New
    /\ ep \in Nat /\ bep \in Nat /\ bi \in BOOLEAN

\* What is true of every frame f when the objects of un are unborn.
FrameOK(f, un) ==
    /\ f \in FrameType
    /\ f.fresh \cap f.born = {}
    /\ f.this \in f.born
    /\ f.born \cap un = {} /\ f.facts \cap un = {}
    /\ f.gfact => f.opt /\ Compiled(f) /\ Bodies[f.body].reads
    /\ Compiled(f) /\ ~Bodies[f.body].top =>
         \A o \in f.demoted : \E w \in Bodies[f.body].writes :
             w[1] \in {"any", Class[o]} /\ w[2] \notin Row[Class[o]]

\* The word of f owns up to all it records except the writes in W, the demotions in D
\* and, if B, the binding writes.
Honest(f, W, D, B) ==
    /\ \A o \in (f.written \cap f.born) \ W :
         IF o = f.this THEN f.word \cap {"this", "other"} # {} ELSE "other" \in f.word
    /\ (f.demoted \cap f.born) \ D # {} => "stamps" \in f.word
    /\ f.bound /\ ~B => "bind" \in f.word

\* f's facts hold, but for the objects in D and, if B, the binding.
Believes(f, D, B, st, bi) == f.facts \ D \subseteq st /\ (BindingForked /\ f.gfact /\ ~B => bi)

Running(f, st, bi) == Compiled(f) => Honest(f, {}, {}, FALSE) /\ Believes(f, {}, FALSE, st, bi)

\* The call record of f describes the frame c above it.
CallOf(f, c, ep, bep) ==
    LET pre == f.call
    IN /\ pre \in PreType
       /\ f.born \subseteq c.born /\ f.facts \subseteq c.born
       /\ pre.epoch <= ep /\ (pre.epoch = ep => c.demoted = {})
       /\ pre.bepoch <= bep /\ (pre.bepoch = bep => ~c.bound)
       /\ pre.this = c.this
       /\ pre.kind = Arm(c.body, pre.likely)
       /\ <<c.body, pre.likely>> \in CallSites
       /\ pre.new => c.this \notin f.born /\ (pre.likely # Engine_ => c.body = pre.likely)
       /\ ~pre.new /\ pre.via = "this" => c.this = f.this
       /\ ~pre.new /\ pre.via = "fresh" => c.this \in f.fresh

Suspended(f, c, st, ep, bep, bi) ==
    /\ Compiled(f)
    /\ CallOf(f, c, ep, bep)
    /\ Honest(f, c.written, c.demoted, c.bound)
    /\ Believes(f, c.demoted, c.bound, st, bi)

Waiting(fs, st, un, ep, bep, bi) ==
    /\ fs \in Seq(FrameType) /\ Len(fs) > 0
    /\ \A i \in 1..Len(fs) : FrameOK(fs[i], un)
    /\ \A i \in 1..(Len(fs) - 1) : Suspended(fs[i], fs[i + 1], st, ep, bep, bi)
Stacked(fs, st, un, ep, bep, bi) ==
    Waiting(fs, st, un, ep, bep, bi) /\ Running(fs[Len(fs)], st, bi)

KeepInv ==
    /\ HeapType(stamped, unborn, epoch, bepoch, binding)
    /\ Stacked(frames, stamped, unborn, epoch, bepoch, binding)

(***************************************************************************)
(* The stack: what a step does to one frame leaves the others right.        *)
(***************************************************************************)
\* g is the frame f after a step of its own: its identity and history are f's.
SameFrame(g, f) ==
    /\ g.body = f.body /\ g.this = f.this /\ g.born = f.born
    /\ g.written = f.written /\ g.demoted = f.demoted /\ g.bound = f.bound

\* A frame that waits does not notice a step of its callee that records nothing.
LEMMA SuspendedSame ==
    ASSUME NEW f, NEW c, NEW g, SameFrame(g, c),
           NEW st, NEW st2, st \subseteq st2, NEW ep, NEW bep, NEW bi,
           Suspended(f, c, st, ep, bep, bi)
    PROVE Suspended(f, g, st2, ep, bep, bi)
  BY DEF SameFrame, Suspended, CallOf, Believes, Honest

LEMMA FrameOKMono ==
    ASSUME NEW f, NEW un, NEW un2, un2 \subseteq un, FrameOK(f, un)
    PROVE FrameOK(f, un2)
  BY DEF FrameOK

\* The innermost frame takes a step of its own.
LEMMA StepTop ==
    ASSUME KeepInv, NEW g, SameFrame(g, Top_),
           NEW st, stamped \subseteq st, NEW un, un \subseteq unborn,
           FrameOK(g, un)
    PROVE /\ Waiting(SetTop(g), st, un, epoch, bepoch, binding)
          /\ SetTop(g)[Len(SetTop(g))] = g
  <1> DEFINE n == Len(frames)
  <1>1. n \in Nat /\ n > 0 /\ frames \in Seq(FrameType)
    BY DEF KeepInv, Stacked, Waiting
  <1>2. SetTop(g) \in Seq(FrameType) /\ Len(SetTop(g)) = n
    BY <1>1 DEF FrameOK, SetTop
  <1>3. SetTop(g)[n] = g /\ \A i \in 1..(n - 1) : SetTop(g)[i] = frames[i]
    BY <1>1 DEF SetTop
  <1>4. \A i \in 1..n : FrameOK(SetTop(g)[i], un)
    <2>1. TAKE i \in 1..n
    <2>2. CASE i = n
      BY <2>2, <1>3
    <2>3. CASE i # n
      <3>1. SetTop(g)[i] = frames[i] /\ FrameOK(frames[i], unborn)
        BY <2>3, <2>1, <1>1, <1>3 DEF KeepInv, Stacked, Waiting
      <3> QED BY <3>1, FrameOKMono
    <2> QED BY <2>2, <2>3
  <1>5. \A i \in 1..(n - 1) : Suspended(SetTop(g)[i], SetTop(g)[i + 1], st, epoch, bepoch, binding)
    <2>1. TAKE i \in 1..(n - 1)
    <2>2. Suspended(frames[i], frames[i + 1], stamped, epoch, bepoch, binding)
      BY <2>1 DEF KeepInv, Stacked, Waiting
    <2>3. SameFrame(SetTop(g)[i + 1], frames[i + 1])
      <3>1. CASE i + 1 = n
        BY <3>1, <1>3 DEF Top_
      <3>2. CASE i + 1 # n
        BY <3>2, <2>1, <1>1, <1>3 DEF SameFrame
      <3> QED BY <3>1, <3>2
    <2>4. SetTop(g)[i] = frames[i]
      BY <2>1, <1>3
    <2> QED BY <2>2, <2>3, <2>4, SuspendedSame
  <1> QED BY <1>1, <1>2, <1>3, <1>4, <1>5 DEF Waiting

\* The innermost frame calls.
LEMMA StepPush ==
    ASSUME KeepInv, NEW g, SameFrame(g, Top_), NEW c,
           NEW un, un \subseteq unborn,
           FrameOK(g, un), FrameOK(c, un),
           Suspended(g, c, stamped, epoch, bepoch, binding), Running(c, stamped, binding)
    PROVE Stacked(Append(SetTop(g), c), stamped, un, epoch, bepoch, binding)
  <1> DEFINE n == Len(frames)
             fs == Append(SetTop(g), c)
  <1>1. n \in Nat /\ n > 0 /\ frames \in Seq(FrameType)
    BY DEF KeepInv, Stacked, Waiting
  <1>2. SetTop(g) \in Seq(FrameType) /\ Len(SetTop(g)) = n /\ c \in FrameType
    BY <1>1 DEF FrameOK, SetTop
  <1>3. /\ fs \in Seq(FrameType) /\ Len(fs) = n + 1 /\ fs[n + 1] = c
        /\ \A i \in 1..n : fs[i] = SetTop(g)[i]
    BY <1>1, <1>2
  <1>4. fs[n] = g /\ \A i \in 1..(n - 1) : fs[i] = frames[i]
    BY <1>1, <1>3 DEF SetTop
  <1> HIDE DEF fs
  <1>5. \A i \in 1..(n + 1) : FrameOK(fs[i], un)
    <2>1. TAKE i \in 1..(n + 1)
    <2>2. CASE i >= n
      BY <2>2, <2>1, <1>1, <1>3, <1>4
    <2>3. CASE i < n
      <3>1. fs[i] = frames[i] /\ FrameOK(frames[i], unborn)
        BY <2>3, <2>1, <1>1, <1>4 DEF KeepInv, Stacked, Waiting
      <3> QED BY <3>1, FrameOKMono
    <2> QED BY <2>1, <2>2, <2>3, <1>1
  <1>6. \A i \in 1..n : Suspended(fs[i], fs[i + 1], stamped, epoch, bepoch, binding)
    <2>1. TAKE i \in 1..n
    <2>2. CASE i = n
      BY <2>2, <1>3, <1>4
    <2>3. CASE i # n
      <3>1. i \in 1..(n - 1) /\ i + 1 \in 1..n
        BY <2>1, <2>3, <1>1
      <3>2. Suspended(frames[i], frames[i + 1], stamped, epoch, bepoch, binding)
        BY <3>1 DEF KeepInv, Stacked, Waiting
      <3>3. SameFrame(fs[i + 1], frames[i + 1])
        <4>1. CASE i + 1 = n
          BY <4>1, <1>4 DEF Top_
        <4>2. CASE i + 1 # n
          BY <4>2, <3>1, <1>1, <1>4 DEF SameFrame
        <4> QED BY <4>1, <4>2
      <3> QED BY <3>1, <3>2, <3>3, <1>4, SuspendedSame
    <2> QED BY <2>2, <2>3
  <1> QED BY <1>1, <1>3, <1>5, <1>6 DEF Stacked, Waiting, fs

\* The innermost frame returns and its caller goes on as g.
LEMMA StepPop ==
    ASSUME KeepInv, Len(frames) > 1, NEW g, SameFrame(g, frames[Len(frames) - 1]),
           FrameOK(g, unborn), Running(g, stamped, binding)
    PROVE Stacked(Under(g), stamped, unborn, epoch, bepoch, binding)
  <1> DEFINE n == Len(frames)
             fs == Under(g)
  <1>1. n \in Nat /\ n > 1 /\ frames \in Seq(FrameType)
    BY DEF KeepInv, Stacked, Waiting
  <1>2. /\ SubSeq(frames, 1, n - 2) \in Seq(FrameType)
        /\ Len(SubSeq(frames, 1, n - 2)) = n - 2
        /\ \A i \in 1..(n - 2) : SubSeq(frames, 1, n - 2)[i] = frames[i]
    <2>1. 1 \in 1..(n + 1) /\ n - 2 \in 0..n
      BY <1>1
    <2>2. n - 2 - 1 + 1 = n - 2 /\ \A i \in 1..(n - 2) : 1 + i - 1 = i
      BY <1>1
    <2> QED BY <2>1, <2>2, <1>1, SubSeqProperties
  <1>3. g \in FrameType
    BY DEF FrameOK
  <1>4. /\ fs \in Seq(FrameType) /\ Len(fs) = n - 1 /\ fs[n - 1] = g
        /\ \A i \in 1..(n - 2) : fs[i] = frames[i]
    <2> DEFINE s == SubSeq(frames, 1, n - 2)
    <2>1. fs = Append(s, g) BY DEF Under
    <2>2. s \in Seq(FrameType) /\ Len(s) = n - 2 /\ \A i \in 1..(n - 2) : s[i] = frames[i]
      BY <1>2
    <2> HIDE DEF s, fs
    <2> QED BY <1>1, <1>3, <2>1, <2>2
  <1> HIDE DEF fs
  <1>5. \A i \in 1..(n - 1) : FrameOK(fs[i], unborn)
    <2>1. TAKE i \in 1..(n - 1)
    <2>2. CASE i = n - 1
      BY <2>2, <1>4
    <2>3. CASE i # n - 1
      <3>1. i \in 1..(n - 2) /\ i \in 1..n BY <2>1, <2>3, <1>1
      <3> QED BY <3>1, <1>4 DEF KeepInv, Stacked, Waiting
    <2> QED BY <2>2, <2>3
  <1>6. \A i \in 1..(n - 2) : Suspended(fs[i], fs[i + 1], stamped, epoch, bepoch, binding)
    <2>1. TAKE i \in 1..(n - 2)
    <2>2. Suspended(frames[i], frames[i + 1], stamped, epoch, bepoch, binding)
      BY <2>1, <1>1 DEF KeepInv, Stacked, Waiting
    <2>3. SameFrame(fs[i + 1], frames[i + 1])
      <3>1. CASE i + 1 = n - 1
        BY <3>1, <1>4
      <3>2. CASE i + 1 # n - 1
        <4>1. i + 1 \in 1..(n - 2) BY <3>2, <2>1, <1>1
        <4>2. fs[i + 1] = frames[i + 1] BY <4>1, <1>4
        <4> QED BY <4>2 DEF SameFrame
      <3> QED BY <3>1, <3>2
    <2> QED BY <2>1, <2>2, <2>3, <1>4, SuspendedSame
  <1> QED BY <1>1, <1>4, <1>5, <1>6 DEF Stacked, Waiting, fs

(***************************************************************************)
(* The frame operations.                                                    *)
(***************************************************************************)
\* g is the frame f with a word that owns up to bits as well.
Owning(g, f, bits) ==
    /\ g \in FrameType /\ SameFrame(g, f)
    /\ f.word \cup bits \subseteq g.word
    /\ g.fresh = f.fresh /\ g.facts = f.facts /\ g.gfact = f.gfact /\ g.opt = f.opt /\ g.call = f.call

LEMMA OrConst ==
    ASSUME NEW f \in FrameType, NEW bits \in SUBSET FLAGS_ALL
    PROVE Owning(or_flags_const(f, bits), f, bits)
  <1> DEFINE w == f.word \cup IF Bodies[f.body].threaded \/ "other" \notin bits THEN bits ELSE FLAGS_ALL
  <1>1. w \in SUBSET FLAGS_ALL /\ f.word \cup bits \subseteq w
    BY DEF FrameType
  <1>2. or_flags_const(f, bits) = [f EXCEPT !.word = w]
    BY DEF or_flags_const, FrameType
  <1> HIDE DEF w
  <1> QED BY <1>1, <1>2 DEF Owning, SameFrame, FrameType

LEMMA OrWord ==
    ASSUME NEW f \in FrameType, NEW bits \in SUBSET FLAGS_ALL
    PROVE Owning(or_flags_word(f, bits), f, bits)
  <1> DEFINE w == f.word \cup IF Bodies[f.body].threaded THEN bits ELSE FLAGS_ALL
  <1>1. w \in SUBSET FLAGS_ALL /\ f.word \cup bits \subseteq w
    BY DEF FrameType
  <1>2. or_flags_word(f, bits) = [f EXCEPT !.word = w]
    BY DEF or_flags_word, FrameType
  <1> HIDE DEF w
  <1> QED BY <1>1, <1>2 DEF Owning, SameFrame, FrameType

\* The innermost frame and the one under it.
LEMMA TopFrame ==
    ASSUME KeepInv
    PROVE /\ FrameOK(Top_, unborn) /\ Running(Top_, stamped, binding)
          /\ Top_ \in FrameType
          /\ Compiled(Top_) => Top_.body \in DOMAIN Bodies
          /\ Len(frames) \in Nat \ {0}
  <1>1. frames \in Seq(FrameType) /\ Len(frames) > 0
    BY DEF KeepInv, Stacked, Waiting
  <1>2. Len(frames) \in Nat \ {0} /\ Len(frames) \in 1..Len(frames)
    BY <1>1
  <1>3. FrameOK(Top_, unborn) /\ Running(Top_, stamped, binding)
    BY <1>2 DEF KeepInv, Stacked, Waiting, Top_
  <1> QED BY <1>2, <1>3 DEF FrameOK, FrameType, BodyIds, Compiled

\* The innermost frame's own step is right when the frame after it is.
LEMMA TopStep ==
    ASSUME KeepInv, NEW g, SameFrame(g, Top_),
           frames' = SetTop(g), UNCHANGED <<epoch, bepoch, binding>>,
           stamped \subseteq stamped', unborn' \subseteq unborn,
           stamped' \subseteq Objects \ unborn',
           FrameOK(g, unborn'), Running(g, stamped', binding)
    PROVE KeepInv'
  <1>1. /\ Waiting(SetTop(g), stamped', unborn', epoch, bepoch, binding)
        /\ SetTop(g)[Len(SetTop(g))] = g
    BY StepTop
  <1>2. Stacked(frames, stamped, unborn, epoch, bepoch, binding)'
    BY <1>1 DEF Stacked
  <1>3. HeapType(stamped, unborn, epoch, bepoch, binding)'
    BY DEF KeepInv, HeapType
  <1> QED BY <1>2, <1>3 DEF KeepInv

LEMMA GuardStep == ASSUME KeepInv, NEW o \in Objects, Guard(o) PROVE KeepInv'
  <1> DEFINE g == [Top_ EXCEPT !.facts = @ \cup {o}]
  <1>1. o \in stamped /\ o \notin unborn /\ Compiled(Top_) /\ frames' = SetTop(g)
    BY DEF Guard, KeepInv, HeapType
  <1>2. /\ g \in FrameType /\ SameFrame(g, Top_) /\ g.facts = Top_.facts \cup {o}
        /\ g.fresh = Top_.fresh /\ g.word = Top_.word /\ g.gfact = Top_.gfact /\ g.opt = Top_.opt
    BY TopFrame DEF FrameType, SameFrame
  <1> HIDE DEF g
  <1>3. FrameOK(g, unborn)
    BY <1>1, <1>2, TopFrame DEF FrameOK, SameFrame, Compiled
  <1>4. Running(g, stamped, binding)
    BY <1>1, <1>2, TopFrame DEF Running, SameFrame, Compiled, Honest, Believes
  <1>5. stamped \subseteq Objects \ unborn
    BY DEF KeepInv, HeapType
  <1> QED BY <1>1, <1>2, <1>3, <1>4, <1>5, TopStep DEF Guard, HeapKept

LEMMA NewObjectStep == ASSUME KeepInv, NEW o \in Objects, NewObject(o) PROVE KeepInv'
  <1> DEFINE g == [Top_ EXCEPT !.fresh = @ \cup {o}]
  <1>1. o \in unborn /\ Compiled(Top_) /\ frames' = SetTop(g)
    BY DEF NewObject
  <1>2. /\ g \in FrameType /\ SameFrame(g, Top_) /\ g.fresh = Top_.fresh \cup {o}
        /\ g.facts = Top_.facts /\ g.word = Top_.word /\ g.gfact = Top_.gfact /\ g.opt = Top_.opt
    BY TopFrame DEF FrameType, SameFrame
  <1> HIDE DEF g
  <1>3. FrameOK(g, unborn')
    BY <1>1, <1>2, TopFrame DEF FrameOK, SameFrame, Compiled, NewObject
  <1>4. Running(g, stamped', binding)
    BY <1>1, <1>2, TopFrame DEF Running, SameFrame, Compiled, Honest, Believes, NewObject
  <1>5. stamped' \subseteq Objects \ unborn' /\ stamped \subseteq stamped' /\ unborn' \subseteq unborn
    BY <1>1 DEF KeepInv, HeapType, NewObject
  <1> QED BY <1>1, <1>2, <1>3, <1>4, <1>5, TopStep DEF NewObject

LEMMA GetGNameStep == ASSUME KeepInv, GetGName PROVE KeepInv'
  <1> DEFINE g == [Top_ EXCEPT !.gfact = TRUE]
  <1>1. Compiled(Top_) /\ binding /\ Top_.opt /\ Bodies[Top_.body].reads /\ frames' = SetTop(g)
    BY DEF GetGName
  <1>2. /\ g \in FrameType /\ SameFrame(g, Top_) /\ g.gfact = TRUE /\ g.fresh = Top_.fresh
        /\ g.facts = Top_.facts /\ g.word = Top_.word /\ g.opt = Top_.opt
    BY TopFrame DEF FrameType, SameFrame
  <1> HIDE DEF g
  <1>3. FrameOK(g, unborn)
    BY <1>1, <1>2, TopFrame DEF FrameOK, SameFrame, Compiled
  <1>4. Running(g, stamped, binding)
    BY <1>1, <1>2, TopFrame DEF Running, SameFrame, Compiled, Honest, Believes
  <1>5. stamped \subseteq Objects \ unborn
    BY DEF KeepInv, HeapType
  <1> QED BY <1>1, <1>2, <1>3, <1>4, <1>5, TopStep DEF GetGName, HeapKept

LEMMA OnrampStep == ASSUME KeepInv, try_call_return_onramp PROVE KeepInv'
  <1> DEFINE g == [Top_ EXCEPT !.opt = TRUE]
  <1>1. Compiled(Top_) /\ frames' = SetTop(g)
    BY DEF try_call_return_onramp
  <1>2. /\ g \in FrameType /\ SameFrame(g, Top_) /\ g.gfact = Top_.gfact /\ g.fresh = Top_.fresh
        /\ g.facts = Top_.facts /\ g.word = Top_.word /\ g.opt = TRUE
    BY TopFrame DEF FrameType, SameFrame
  <1> HIDE DEF g
  <1>3. FrameOK(g, unborn)
    BY <1>1, <1>2, TopFrame DEF FrameOK, SameFrame, Compiled
  <1>4. Running(g, stamped, binding)
    BY <1>1, <1>2, TopFrame DEF Running, SameFrame, Compiled, Honest, Believes
  <1>5. stamped \subseteq Objects \ unborn
    BY DEF KeepInv, HeapType
  <1> QED BY <1>1, <1>2, <1>3, <1>4, <1>5, TopStep DEF try_call_return_onramp, HeapKept

LEMMA LeafWriteStep == ASSUME KeepInv, or_flags_leaf_write PROVE KeepInv'
  <1> DEFINE g == or_flags_const(Top_, {"other"})
  <1>1. Compiled(Top_) /\ frames' = SetTop(g)
    BY DEF or_flags_leaf_write
  <1>2. Owning(g, Top_, {"other"})
    BY TopFrame, OrConst DEF FLAGS_ALL
  <1> HIDE DEF g
  <1>3. FrameOK(g, unborn)
    BY <1>2, TopFrame DEF FrameOK, Owning, SameFrame, Compiled
  <1>4. Running(g, stamped, binding)
    BY <1>1, <1>2, TopFrame DEF Running, Owning, SameFrame, Compiled, Honest, Believes
  <1>5. stamped \subseteq Objects \ unborn
    BY DEF KeepInv, HeapType
  <1> QED BY <1>1, <1>2, <1>3, <1>4, <1>5, TopStep DEF or_flags_leaf_write, HeapKept, Owning

LEMMA StampStep == ASSUME KeepInv, emit_class_idx_stamp PROVE KeepInv'
  <1> DEFINE g == or_flags_const(Top_, {"this"})
  <1>1. Compiled(Top_) /\ frames' = SetTop(g)
    BY DEF emit_class_idx_stamp
  <1>2. Owning(g, Top_, {"this"})
    BY TopFrame, OrConst DEF FLAGS_ALL
  <1> HIDE DEF g
  <1>3. FrameOK(g, unborn)
    BY <1>2, TopFrame DEF FrameOK, Owning, SameFrame, Compiled
  <1>4. Running(g, stamped', binding)
    BY <1>1, <1>2, TopFrame DEF Running, Owning, SameFrame, Compiled, Honest, Believes, emit_class_idx_stamp
  <1>5. Top_.this \in Objects \ unborn
    BY TopFrame DEF FrameOK, FrameType
  <1>6. stamped' \subseteq Objects \ unborn
    BY <1>5 DEF KeepInv, HeapType, emit_class_idx_stamp
  <1> QED BY <1>1, <1>2, <1>3, <1>4, <1>6, TopStep DEF emit_class_idx_stamp, Owning

(***************************************************************************)
(* A write: every frame records it, so every caller's view of its callee    *)
(* grows by exactly what is done to its own.                                *)
(***************************************************************************)
\* h is the frame g after a write of o, which demoted it if d.
Wrote(h, g, o, d) ==
    /\ h \in FrameType
    /\ h.written = g.written \cup {o} /\ h.demoted = IF d THEN g.demoted \cup {o} ELSE g.demoted
    /\ h.bound = g.bound /\ h.body = g.body /\ h.this = g.this /\ h.born = g.born /\ h.fresh = g.fresh
    /\ h.word = g.word /\ h.facts = g.facts /\ h.gfact = g.gfact /\ h.opt = g.opt /\ h.call = g.call

LEMMA RecordedFrames ==
    ASSUME NEW fs \in Seq(FrameType), NEW o \in Objects, NEW d \in BOOLEAN
    PROVE /\ Recorded(fs, o, d) \in Seq(FrameType) /\ Len(Recorded(fs, o, d)) = Len(fs)
          /\ \A i \in 1..Len(fs) : Wrote(Recorded(fs, o, d)[i], fs[i], o, d)
  <1> DEFINE h(i) == [fs[i] EXCEPT !.written = @ \cup {o}, !.demoted = IF d THEN @ \cup {o} ELSE @]
  <1>1. \A i \in 1..Len(fs) : Wrote(h(i), fs[i], o, d)
    <2>1. TAKE i \in 1..Len(fs)
    <2>2. fs[i] \in FrameType BY <2>1
    <2> QED BY <2>2 DEF Wrote, FrameType
  <1>2. \A i \in 1..Len(fs) : h(i) \in FrameType
    BY <1>1 DEF Wrote
  <1>3. Recorded(fs, o, d) = [i \in 1..Len(fs) |-> h(i)]
    BY DEF Recorded
  <1> HIDE DEF h
  <1>4. Len(fs) \in Nat OBVIOUS
  <1> QED BY <1>1, <1>2, <1>3, <1>4

LEMMA StoreStep ==
    ASSUME KeepInv, ~ClassSurprise, NEW o \in Objects, NEW n \in Names,
           NEW via \in ViaKinds, Store(o, n, via)
    PROVE KeepInv'
  <1> DEFINE d == n \notin Row[Class[o]] /\ o \in stamped
             bits == store_recv_bit(via)
             g1 == or_flags_const(Top_, bits)
             g2 == [g1 EXCEPT !.facts = IF d THEN {} ELSE @]
             g3 == or_flags_word(g2, {"stamps"})
             f == IF ~Compiled(Top_) THEN Top_ ELSE IF d /\ bits # {} THEN g3 ELSE g2
             fs == SetTop(f)
             h == Recorded(fs, o, d)[Len(fs)]
  <1>1. /\ o \notin unborn /\ Covered(o, n)
        /\ via \in IF Compiled(Top_) THEN Vias(Top_, o) ELSE {"other"}
        /\ frames' = Recorded(fs, o, d)
        /\ stamped' = IF d THEN stamped \ {o} ELSE stamped
        /\ epoch' = IF d THEN epoch + 1 ELSE epoch
        /\ UNCHANGED <<unborn, bepoch, binding>>
    BY DEF Store, Alive
  <1>2. bits \in SUBSET FLAGS_ALL /\ d \in BOOLEAN /\ {"stamps"} \in SUBSET FLAGS_ALL
    BY DEF store_recv_bit, ViaKinds, FLAGS_ALL
  <1>3. Owning(g1, Top_, bits)
    BY <1>2, TopFrame, OrConst
  <1>4. /\ g2 \in FrameType /\ SameFrame(g2, g1) /\ g2.fresh = g1.fresh /\ g2.word = g1.word
        /\ g2.gfact = g1.gfact /\ g2.opt = g1.opt /\ g2.facts = IF d THEN {} ELSE g1.facts
    BY <1>3 DEF Owning, SameFrame, FrameType
  <1>5. Owning(g3, g2, {"stamps"})
    BY <1>2, <1>4, OrWord
  <1> HIDE DEF g1, g2, g3
  <1>6. /\ f \in FrameType /\ SameFrame(f, Top_) /\ f.fresh = Top_.fresh /\ f.gfact = Top_.gfact
        /\ f.opt = Top_.opt /\ f.facts \subseteq Top_.facts
        /\ Compiled(Top_) =>
             /\ Top_.word \cup bits \subseteq f.word
             /\ d => f.facts = {}
             /\ d /\ bits # {} => "stamps" \in f.word
    BY <1>3, <1>4, <1>5, TopFrame DEF Owning, SameFrame
  <1> HIDE DEF f, bits
  <1>7. FrameOK(f, unborn)
    BY <1>6, TopFrame DEF FrameOK, SameFrame, Compiled
  <1>8. Waiting(fs, stamped, unborn, epoch, bepoch, binding) /\ fs[Len(fs)] = f
    BY <1>6, <1>7, StepTop
  <1>9. Len(fs) = Len(frames) /\ \A i \in 1..Len(fs) : fs[i].body = frames[i].body
    <2>1. frames \in Seq(FrameType) /\ Len(frames) \in Nat \ {0}
      BY TopFrame DEF KeepInv, Stacked, Waiting
    <2>2. f.body = Top_.body BY <1>6 DEF SameFrame
    <2> QED BY <2>1, <2>2 DEF SetTop, Top_
  <1> HIDE DEF fs
  <1>10. fs \in Seq(FrameType) /\ Len(fs) \in Nat \ {0}
    BY <1>8 DEF Waiting
  <1>11. /\ frames' \in Seq(FrameType) /\ Len(frames') = Len(fs)
         /\ \A i \in 1..Len(fs) : Wrote(frames'[i], fs[i], o, d)
    BY <1>1, <1>2, <1>10, RecordedFrames
  <1>12. \A i \in 1..Len(fs) : FrameOK(frames'[i], unborn)
    <2>1. TAKE i \in 1..Len(fs)
    <2>2. Wrote(frames'[i], fs[i], o, d) /\ FrameOK(fs[i], unborn)
      BY <1>8, <1>11 DEF Waiting
    <2>3. Compiled(fs[i]) /\ ~Bodies[fs[i].body].top =>
            \E w \in Bodies[fs[i].body].writes : w[2] = n /\ w[1] \in {"any", Class[o]}
      BY <2>1, <1>1, <1>9 DEF Covered, Compiled
    <2>4. d => n \notin Row[Class[o]]
      OBVIOUS
    <2> HIDE DEF d
    <2> QED BY <2>2, <2>3, <2>4 DEF FrameOK, Wrote, Compiled
  <1>13. epoch \in Nat /\ bepoch \in Nat
    BY DEF KeepInv, HeapType
  <1>14. \A i \in 1..(Len(fs) - 1) :
            Suspended(frames'[i], frames'[i + 1], stamped', epoch', bepoch', binding')
    <2>1. TAKE i \in 1..(Len(fs) - 1)
    <2>2. /\ Wrote(frames'[i], fs[i], o, d) /\ Wrote(frames'[i + 1], fs[i + 1], o, d)
          /\ Suspended(fs[i], fs[i + 1], stamped, epoch, bepoch, binding)
      BY <2>1, <1>8, <1>10, <1>11 DEF Waiting
    <2> HIDE DEF d
    <2>3. CallOf(frames'[i], frames'[i + 1], epoch', bepoch')
      BY <1>1, <1>2, <1>13, <2>2 DEF Suspended, CallOf, Wrote, PreType
    <2>4. Honest(frames'[i], frames'[i + 1].written, frames'[i + 1].demoted, frames'[i + 1].bound)
      BY <1>2, <2>2 DEF Suspended, Honest, Wrote
    <2>5. Believes(frames'[i], frames'[i + 1].demoted, frames'[i + 1].bound, stamped', binding')
      BY <1>1, <1>2, <2>2 DEF Suspended, Believes, Wrote
    <2> QED BY <2>2, <2>3, <2>4, <2>5 DEF Suspended, Wrote, Compiled
  <1>15. Running(frames'[Len(fs)], stamped', binding')
    <2>1. Wrote(frames'[Len(fs)], f, o, d)
      BY <1>8, <1>10, <1>11
    <2>0. SUFFICES ASSUME Compiled(Top_)
                   PROVE Running(frames'[Len(fs)], stamped', binding')
      BY <1>6, <2>1 DEF Running, Compiled, Wrote, SameFrame
    <2>2. Honest(Top_, {}, {}, FALSE) /\ Believes(Top_, {}, FALSE, stamped, binding)
      BY <2>0, TopFrame DEF Running
    <2>3. o \in Top_.born => bits = {via} /\ via \in {"this", "other"} /\ (via = "this" => o = Top_.this)
      BY <2>0, <1>1, TopFrame DEF Vias, FrameOK, store_recv_bit, bits, ViaKinds
    <2> HIDE DEF d
    <2>4. Honest(frames'[Len(fs)], {}, {}, FALSE)
      <3> DEFINE t == frames'[Len(fs)]
      <3>1. /\ t.written = Top_.written \cup {o} /\ t.bound = Top_.bound /\ t.born = Top_.born
            /\ t.this = Top_.this /\ Top_.word \cup bits \subseteq t.word
            /\ t.demoted = IF d THEN Top_.demoted \cup {o} ELSE Top_.demoted
            /\ d /\ bits # {} => "stamps" \in t.word
        BY <2>0, <1>6, <2>1 DEF Wrote, SameFrame
      <3> HIDE DEF t
      <3>2. \A x \in t.written \cap t.born :
              IF x = t.this THEN t.word \cap {"this", "other"} # {} ELSE "other" \in t.word
        <4>1. TAKE x \in t.written \cap t.born
        <4>2. CASE x = o
          BY <4>1, <4>2, <3>1, <2>3
        <4>3. CASE x # o
          <5>1. x \in Top_.written \cap Top_.born BY <4>1, <4>3, <3>1
          <5>2. IF x = Top_.this THEN Top_.word \cap {"this", "other"} # {} ELSE "other" \in Top_.word
            BY <5>1, <2>2 DEF Honest
          <5> QED BY <5>2, <3>1
        <4> QED BY <4>2, <4>3
      <3>3. t.demoted \cap t.born # {} => "stamps" \in t.word
        BY <3>1, <2>2, <2>3 DEF Honest
      <3>4. t.bound => "bind" \in t.word
        BY <3>1, <2>2 DEF Honest
      <3> QED BY <3>2, <3>3, <3>4 DEF Honest, t
    <2>5. frames'[Len(fs)].facts \subseteq stamped'
      <3>1. frames'[Len(fs)].facts = f.facts /\ Top_.facts \subseteq stamped
        BY <2>1, <2>2 DEF Believes, Wrote
      <3>2. CASE d
        BY <2>0, <1>6, <3>1, <3>2
      <3>3. CASE ~d
        BY <1>1, <1>6, <3>1, <3>3
      <3> QED BY <3>2, <3>3
    <2>6. frames'[Len(fs)].gfact = Top_.gfact
      BY <1>6, <2>1 DEF Wrote
    <2>7. Believes(frames'[Len(fs)], {}, FALSE, stamped', binding')
      BY <1>1, <2>2, <2>5, <2>6 DEF Believes
    <2> QED BY <2>4, <2>7 DEF Running
  <1>16. HeapType(stamped, unborn, epoch, bepoch, binding)'
    BY <1>1, <1>13 DEF KeepInv, HeapType
  <1>17. Waiting(frames', stamped', unborn', epoch', bepoch', binding')
    <2>1. \A i \in 1..Len(frames') : FrameOK(frames'[i], unborn')
      BY <1>1, <1>11, <1>12
    <2>2. \A i \in 1..(Len(frames') - 1) :
            Suspended(frames'[i], frames'[i + 1], stamped', epoch', bepoch', binding')
      BY <1>1, <1>11, <1>14
    <2>3. frames' \in Seq(FrameType) /\ Len(frames') > 0
      BY <1>1, <1>11, <1>10
    <2> QED BY <2>1, <2>2, <2>3 DEF Waiting
  <1> QED BY <1>11, <1>15, <1>16, <1>17 DEF KeepInv, Stacked

\* h is the frame g after a write of the binding.
Bound(h, g) ==
    /\ h \in FrameType /\ h.bound = TRUE
    /\ h.written = g.written /\ h.demoted = g.demoted
    /\ h.body = g.body /\ h.this = g.this /\ h.born = g.born /\ h.fresh = g.fresh
    /\ h.word = g.word /\ h.facts = g.facts /\ h.gfact = g.gfact /\ h.opt = g.opt /\ h.call = g.call

LEMMA SetGNameStep ==
    ASSUME KeepInv, NEW claimed \in BOOLEAN, SetGName(claimed)
    PROVE KeepInv'
  <1> DEFINE g1 == or_flags_const(Top_, {"other", "bind"})
             g2 == [g1 EXCEPT !.gfact = FALSE]
             f == IF Compiled(Top_) THEN g2 ELSE Top_
             fs == SetTop(f)
             h(i) == [fs[i] EXCEPT !.bound = TRUE]
  <1>1. /\ frames' = [i \in 1..Len(fs) |-> h(i)]
        /\ bepoch' = bepoch + 1 /\ binding' = claimed
        /\ UNCHANGED <<stamped, unborn, epoch>>
    BY DEF SetGName
  <1>2. Owning(g1, Top_, {"other", "bind"})
    BY TopFrame, OrConst DEF FLAGS_ALL
  <1>3. /\ g2 \in FrameType /\ SameFrame(g2, g1) /\ g2.fresh = g1.fresh /\ g2.word = g1.word
        /\ g2.gfact = FALSE /\ g2.opt = g1.opt /\ g2.facts = g1.facts
    BY <1>2 DEF Owning, SameFrame, FrameType
  <1> HIDE DEF g1, g2
  <1>4. /\ f \in FrameType /\ SameFrame(f, Top_) /\ f.fresh = Top_.fresh /\ f.opt = Top_.opt
        /\ f.facts = Top_.facts /\ (f.gfact => Top_.gfact)
        /\ Compiled(Top_) => Top_.word \cup {"other", "bind"} \subseteq f.word /\ f.gfact = FALSE
    BY <1>2, <1>3, TopFrame DEF Owning, SameFrame
  <1> HIDE DEF f
  <1>5. FrameOK(f, unborn)
    BY <1>4, TopFrame DEF FrameOK, SameFrame, Compiled
  <1>6. Waiting(fs, stamped, unborn, epoch, bepoch, binding) /\ fs[Len(fs)] = f
    BY <1>4, <1>5, StepTop
  <1> HIDE DEF fs
  <1>7. fs \in Seq(FrameType) /\ Len(fs) \in Nat \ {0}
    BY <1>6 DEF Waiting
  <1>8. \A i \in 1..Len(fs) : Bound(h(i), fs[i])
    <2>1. TAKE i \in 1..Len(fs)
    <2>2. fs[i] \in FrameType BY <2>1, <1>7
    <2> QED BY <2>2 DEF Bound, FrameType
  <1>9. \A i \in 1..Len(fs) : h(i) \in FrameType
    BY <1>8 DEF Bound
  <1> HIDE DEF h
  <1>10. /\ frames' \in Seq(FrameType) /\ Len(frames') = Len(fs)
         /\ \A i \in 1..Len(fs) : Bound(frames'[i], fs[i])
    BY <1>1, <1>7, <1>8, <1>9
  <1>11. \A i \in 1..Len(fs) : FrameOK(frames'[i], unborn)
    <2>1. TAKE i \in 1..Len(fs)
    <2>2. Bound(frames'[i], fs[i]) /\ FrameOK(fs[i], unborn)
      BY <1>6, <1>10 DEF Waiting
    <2> QED BY <2>2 DEF FrameOK, Bound, Compiled
  <1>12. epoch \in Nat /\ bepoch \in Nat
    BY DEF KeepInv, HeapType
  <1>13. \A i \in 1..(Len(fs) - 1) :
            Suspended(frames'[i], frames'[i + 1], stamped', epoch', bepoch', binding')
    <2>1. TAKE i \in 1..(Len(fs) - 1)
    <2>2. /\ Bound(frames'[i], fs[i]) /\ Bound(frames'[i + 1], fs[i + 1])
          /\ Suspended(fs[i], fs[i + 1], stamped, epoch, bepoch, binding)
      BY <2>1, <1>6, <1>7, <1>10 DEF Waiting
    <2>3. CallOf(frames'[i], frames'[i + 1], epoch', bepoch')
      <3> DEFINE pre == fs[i].call
      <3>1. CallOf(fs[i], fs[i + 1], epoch, bepoch)
        BY <2>2 DEF Suspended
      <3>2. pre.bepoch \in Nat /\ pre.bepoch <= bepoch
        BY <3>1 DEF CallOf, PreType
      <3>3. pre.bepoch <= bepoch' /\ pre.bepoch # bepoch'
        BY <1>1, <1>12, <3>2
      <3> QED BY <1>1, <2>2, <3>1, <3>3 DEF CallOf, Bound
    <2>4. Honest(frames'[i], frames'[i + 1].written, frames'[i + 1].demoted, frames'[i + 1].bound)
      BY <2>2 DEF Suspended, Honest, Bound
    <2>5. Believes(frames'[i], frames'[i + 1].demoted, frames'[i + 1].bound, stamped', binding')
      BY <1>1, <2>2 DEF Suspended, Believes, Bound
    <2> QED BY <2>2, <2>3, <2>4, <2>5 DEF Suspended, Bound, Compiled
  <1>14. Running(frames'[Len(fs)], stamped', binding')
    <2>1. Bound(frames'[Len(fs)], f)
      BY <1>6, <1>7, <1>10
    <2>0. SUFFICES ASSUME Compiled(Top_)
                   PROVE Running(frames'[Len(fs)], stamped', binding')
      BY <1>4, <2>1 DEF Running, Compiled, Bound, SameFrame
    <2>2. Honest(Top_, {}, {}, FALSE) /\ Believes(Top_, {}, FALSE, stamped, binding)
      BY <2>0, TopFrame DEF Running
    <2>3. Honest(frames'[Len(fs)], {}, {}, FALSE)
      BY <2>0, <1>4, <2>1, <2>2 DEF Honest, Bound, SameFrame
    <2>4. Believes(frames'[Len(fs)], {}, FALSE, stamped', binding')
      BY <2>0, <1>1, <1>4, <2>1, <2>2 DEF Believes, Bound
    <2> QED BY <2>3, <2>4 DEF Running
  <1>15. HeapType(stamped, unborn, epoch, bepoch, binding)'
    BY <1>1, <1>12 DEF KeepInv, HeapType
  <1>16. Waiting(frames', stamped', unborn', epoch', bepoch', binding')
    <2>1. \A i \in 1..Len(frames') : FrameOK(frames'[i], unborn')
      BY <1>1, <1>10, <1>11
    <2>2. \A i \in 1..(Len(frames') - 1) :
            Suspended(frames'[i], frames'[i + 1], stamped', epoch', bepoch', binding')
      BY <1>1, <1>10, <1>13
    <2>3. frames' \in Seq(FrameType) /\ Len(frames') > 0
      BY <1>1, <1>10, <1>7
    <2> QED BY <2>1, <2>2, <2>3 DEF Waiting
  <1> QED BY <1>10, <1>14, <1>15, <1>16 DEF KeepInv, Stacked

(***************************************************************************)
(* A call: the caller's word and facts are right of everything but what the *)
(* callee is going to do, which is nothing yet.                             *)
(***************************************************************************)
LEMMA PushStep ==
    ASSUME KeepInv, Compiled(Top_), NEW c, NEW pre \in PreType,
           frames' = Append(SetTop([Top_ EXCEPT !.call = pre]), c),
           UNCHANGED <<stamped, epoch, bepoch, binding>>,
           unborn' \subseteq unborn,
           FrameOK(c, unborn'), Running(c, stamped, binding), c.demoted = {}, c.written = {}, ~c.bound,
           CallOf([Top_ EXCEPT !.call = pre], c, epoch, bepoch)
    PROVE KeepInv'
  <1> DEFINE g == [Top_ EXCEPT !.call = pre]
  <1>1. /\ g \in FrameType /\ SameFrame(g, Top_) /\ g.fresh = Top_.fresh /\ g.word = Top_.word
        /\ g.facts = Top_.facts /\ g.gfact = Top_.gfact /\ g.opt = Top_.opt
    BY TopFrame DEF FrameType, SameFrame
  <1>2. frames' = Append(SetTop(g), c) /\ CallOf(g, c, epoch, bepoch)
    OBVIOUS
  <1> HIDE DEF g
  <1>3. FrameOK(g, unborn')
    BY <1>1, TopFrame DEF FrameOK, SameFrame, Compiled
  <1>4. Honest(g, c.written, c.demoted, c.bound) /\ Believes(g, c.demoted, c.bound, stamped, binding)
    BY <1>1, TopFrame DEF Running, SameFrame, Honest, Believes
  <1>5. Suspended(g, c, stamped, epoch, bepoch, binding)
    BY <1>1, <1>2, <1>4 DEF Suspended, SameFrame, Compiled
  <1>6. Stacked(frames', stamped', unborn', epoch', bepoch', binding')
    BY <1>1, <1>2, <1>3, <1>5, StepPush
  <1>7. HeapType(stamped, unborn, epoch, bepoch, binding)'
    BY DEF KeepInv, HeapType
  <1> QED BY <1>6, <1>7 DEF KeepInv

LEMMA EmitCallStep ==
    ASSUME KeepInv, NEW s \in CallSites, NEW o \in Objects, NEW via \in ViaKinds,
           EmitCall(s[1], s[2], o, via)
    PROVE KeepInv'
  <1> DEFINE pre == Pre(Arm(s[1], s[2]), via, s[2], o)
             c == Frame(s[1], o)
             g == [Top_ EXCEPT !.call = pre]
  <1>1. /\ Compiled(Top_) /\ o \in Objects \ unborn /\ via \in Vias(Top_, o)
        /\ frames' = Append(SetTop(g), c)
        /\ UNCHANGED <<stamped, unborn, epoch, bepoch, binding>>
    BY DEF EmitCall, Alive, Entered, HeapKept
  <1>2. s[1] \in BodyIds /\ s[2] \in BodyIds /\ <<s[1], s[2]>> \in CallSites
    BY KeepAssumption DEF BodyIds
  <1>3. epoch \in Nat /\ bepoch \in Nat
    BY DEF KeepInv, HeapType
  <1>4. Arm(s[1], s[2]) \in {"engine", "direct", "indirect"}
    BY DEF Arm
  <1>5. /\ pre \in PreType /\ pre.kind = Arm(s[1], s[2]) /\ pre.new = FALSE /\ pre.via = via
        /\ pre.likely = s[2] /\ pre.this = o /\ pre.epoch = epoch /\ pre.bepoch = bepoch
    BY <1>2, <1>3, <1>4 DEF Pre, PreType
  <1>6. /\ c \in FrameType /\ c.body = s[1] /\ c.this = o /\ c.fresh = {} /\ c.facts = {}
        /\ c.gfact = FALSE /\ c.born = Objects \ unborn
        /\ c.written = {} /\ c.demoted = {} /\ c.bound = FALSE
    BY <1>1, <1>2 DEF Frame, FrameType, Alive
  <1> HIDE DEF pre, c
  <1>7. FrameOK(c, unborn)
    BY <1>1, <1>6 DEF FrameOK
  <1>8. Running(c, stamped, binding)
    BY <1>6 DEF Running, Honest, Believes
  <1>9. /\ g.call = pre /\ g.born = Top_.born /\ g.facts = Top_.facts /\ g.this = Top_.this /\ g.fresh = Top_.fresh
    BY TopFrame DEF FrameType
  <1> HIDE DEF g
  <1>10. Top_.born \subseteq c.born /\ Top_.facts \subseteq c.born
    BY <1>6, TopFrame DEF FrameOK, FrameType
  <1>11. (via = "this" => o = Top_.this) /\ (via = "fresh" => o \in Top_.fresh)
    BY <1>1 DEF Vias
  <1>12. CallOf(g, c, epoch, bepoch)
    BY <1>2, <1>3, <1>5, <1>6, <1>9, <1>10, <1>11 DEF CallOf
  <1> QED BY <1>1, <1>5, <1>6, <1>7, <1>8, <1>12, PushStep DEF g

LEMMA EmitConstructStep ==
    ASSUME KeepInv, ~CtorSurprise, NEW s \in CallSites, NEW o \in Objects, EmitConstruct(s[1], s[2], o)
    PROVE KeepInv'
  <1> DEFINE pre == [Pre(Arm(s[1], s[2]), "fresh", s[2], o) EXCEPT !.new = TRUE]
             c == [Frame(s[1], o) EXCEPT !.born = @ \cup {o}]
             g == [Top_ EXCEPT !.call = pre]
  <1>1. /\ Compiled(Top_) /\ o \in unborn /\ unborn' = unborn \ {o}
        /\ frames' = Append(SetTop(g), c)
        /\ UNCHANGED <<stamped, epoch, bepoch, binding>>
        /\ s[2] # Engine_ => s[1] = s[2]
    BY DEF EmitConstruct
  <1>2. s[1] \in BodyIds /\ s[2] \in BodyIds /\ <<s[1], s[2]>> \in CallSites
    BY KeepAssumption DEF BodyIds
  <1>3. epoch \in Nat /\ bepoch \in Nat
    BY DEF KeepInv, HeapType
  <1>4. Arm(s[1], s[2]) \in {"engine", "direct", "indirect"}
    BY DEF Arm
  <1>5. /\ pre \in PreType /\ pre.kind = Arm(s[1], s[2]) /\ pre.new = TRUE
        /\ pre.likely = s[2] /\ pre.this = o /\ pre.epoch = epoch /\ pre.bepoch = bepoch
    BY <1>2, <1>3, <1>4 DEF Pre, PreType, ViaKinds
  <1>6. /\ c \in FrameType /\ c.body = s[1] /\ c.this = o /\ c.fresh = {} /\ c.facts = {}
        /\ c.gfact = FALSE /\ c.born = (Objects \ unborn) \cup {o}
        /\ c.written = {} /\ c.demoted = {} /\ c.bound = FALSE
    BY <1>1, <1>2 DEF Frame, FrameType, Alive
  <1> HIDE DEF pre, c
  <1>7. FrameOK(c, unborn')
    BY <1>1, <1>6 DEF FrameOK
  <1>8. Running(c, stamped, binding)
    BY <1>6 DEF Running, Honest, Believes
  <1>9. /\ g.call = pre /\ g.born = Top_.born /\ g.facts = Top_.facts /\ g.this = Top_.this /\ g.fresh = Top_.fresh
    BY TopFrame DEF FrameType
  <1> HIDE DEF g
  <1>10. Top_.born \subseteq c.born /\ Top_.facts \subseteq c.born /\ o \notin Top_.born
    BY <1>1, <1>6, TopFrame DEF FrameOK, FrameType
  <1>11. CallOf(g, c, epoch, bepoch)
    BY <1>1, <1>2, <1>3, <1>5, <1>6, <1>9, <1>10 DEF CallOf
  <1>12. unborn' \subseteq unborn
    BY <1>1
  <1> QED BY <1>1, <1>5, <1>6, <1>7, <1>8, <1>11, <1>12, PushStep DEF g

(***************************************************************************)
(* A return.                                                                *)
(***************************************************************************)
\* g is the caller f going on with a word that owns up to bits, and with at most the
\* facts and the binding fact it had.
Resumed(g, f, bits) ==
    /\ g \in FrameType /\ SameFrame(g, f)
    /\ f.word \cup bits \subseteq g.word
    /\ g.facts \subseteq f.facts
    /\ g.gfact => f.gfact /\ g.opt

\* What the callee c did to what f could see is in bits.
Reported(c, f, bits) ==
    /\ \A o \in c.written \cap f.born :
         IF o = f.this THEN bits \cap {"this", "other"} # {} ELSE "other" \in bits
    /\ c.demoted \cap f.born # {} => "stamps" \in bits
    /\ c.bound => "bind" \in bits

\* The frame that waits and the one that runs.
LEMMA TwoFrames ==
    ASSUME KeepInv, Len(frames) > 1
    PROVE /\ FrameOK(frames[Len(frames) - 1], unborn)
          /\ Suspended(frames[Len(frames) - 1], Top_, stamped, epoch, bepoch, binding)
          /\ frames[Len(frames) - 1] \in FrameType
  <1>1. Len(frames) \in Nat /\ Len(frames) - 1 \in 1..Len(frames) /\ Len(frames) - 1 \in 1..(Len(frames) - 1)
    BY TopFrame
  <1>2. (Len(frames) - 1) + 1 = Len(frames)
    BY <1>1
  <1>3. /\ FrameOK(frames[Len(frames) - 1], unborn)
        /\ Suspended(frames[Len(frames) - 1], frames[(Len(frames) - 1) + 1], stamped, epoch, bepoch, binding)
    BY <1>1 DEF KeepInv, Stacked, Waiting
  <1> QED BY <1>2, <1>3 DEF Top_, FrameOK

LEMMA CallerFrame ==
    ASSUME KeepInv, Len(frames) > 1
    PROVE /\ Caller \in FrameType /\ SameFrame(Caller, frames[Len(frames) - 1])
          /\ Caller.fresh = frames[Len(frames) - 1].fresh /\ Caller.word = frames[Len(frames) - 1].word
          /\ Caller.facts = frames[Len(frames) - 1].facts /\ Caller.gfact = frames[Len(frames) - 1].gfact
          /\ Caller.opt = frames[Len(frames) - 1].opt
  BY TwoFrames DEF Caller, FrameType, SameFrame

\* A caller that hears of all the callee did, drops the facts the callee may have
\* ended, and takes nothing for fresh that was there before it, goes on rightly.
LEMMA PopStep ==
    ASSUME KeepInv, Len(frames) > 1, NEW g, NEW bits,
           frames' = Under(g), HeapKept,
           Resumed(g, Caller, bits), Reported(Top_, Caller, bits),
           g.fresh \cap Caller.born = {},
           g.facts \cap Top_.demoted = {},
           BindingForked /\ g.gfact => ~Top_.bound \/ binding
    PROVE KeepInv'
  <1> DEFINE f == frames[Len(frames) - 1]
  <1>1. /\ SameFrame(g, f) /\ g \in FrameType /\ f.word \cup bits \subseteq g.word
        /\ g.facts \subseteq f.facts /\ (g.gfact => f.gfact /\ g.opt) /\ g.fresh \cap f.born = {}
        /\ Reported(Top_, f, bits)
    BY CallerFrame DEF Resumed, SameFrame, Reported
  <1>2. FrameOK(f, unborn) /\ Suspended(f, Top_, stamped, epoch, bepoch, binding)
    BY TwoFrames
  <1> HIDE DEF f
  <1>3. FrameOK(g, unborn)
    BY <1>1, <1>2 DEF FrameOK, SameFrame, Compiled
  <1>4. Honest(g, {}, {}, FALSE)
    <2>1. \A o \in g.written \cap g.born :
            IF o = g.this THEN g.word \cap {"this", "other"} # {} ELSE "other" \in g.word
      <3>1. TAKE o \in g.written \cap g.born
      <3>2. CASE o \in Top_.written
        BY <3>1, <3>2, <1>1 DEF Reported, SameFrame
      <3>3. CASE o \notin Top_.written
        <4>1. IF o = f.this THEN f.word \cap {"this", "other"} # {} ELSE "other" \in f.word
          BY <3>1, <3>3, <1>1, <1>2 DEF Suspended, Honest, SameFrame
        <4> QED BY <4>1, <1>1 DEF SameFrame
      <3> QED BY <3>2, <3>3
    <2>2. g.demoted \cap g.born # {} => "stamps" \in g.word
      BY <1>1, <1>2 DEF Reported, SameFrame, Suspended, Honest
    <2>3. g.bound => "bind" \in g.word
      BY <1>1, <1>2 DEF Reported, SameFrame, Suspended, Honest
    <2> QED BY <2>1, <2>2, <2>3 DEF Honest
  <1>5. Believes(g, {}, FALSE, stamped, binding)
    BY <1>1, <1>2 DEF Suspended, Believes
  <1>6. Running(g, stamped, binding)
    BY <1>4, <1>5 DEF Running
  <1>7. Stacked(Under(g), stamped, unborn, epoch, bepoch, binding)
    BY <1>1, <1>3, <1>6, StepPop DEF f
  <1> QED BY <1>7 DEF KeepInv, HeapKept, HeapType

\* A body that threads no accumulator owns up to everything.
OwnBits(f, bits) == IF Bodies[f.body].threaded THEN bits ELSE FLAGS_ALL

LEMMA OrOwnBits ==
    ASSUME NEW f \in FrameType, NEW bits \in SUBSET FLAGS_ALL
    PROVE Owning(or_flags_word(f, bits), f, OwnBits(f, bits))
  <1> DEFINE w == f.word \cup OwnBits(f, bits)
  <1>1. w \in SUBSET FLAGS_ALL /\ f.word \cup OwnBits(f, bits) \subseteq w
    BY DEF FrameType, OwnBits
  <1>2. or_flags_word(f, bits) = [f EXCEPT !.word = w]
    BY DEF or_flags_word, FrameType, OwnBits
  <1> HIDE DEF w
  <1> QED BY <1>1, <1>2 DEF Owning, SameFrame, FrameType

LEMMA MergedFrame ==
    ASSUME NEW f \in FrameType, NEW fork \in BOOLEAN
    PROVE LET g == Merged(f, fork)
          IN /\ g \in FrameType /\ SameFrame(g, f) /\ g.word = f.word /\ g.fresh = f.fresh /\ g.facts = {}
             /\ g.gfact => f.gfact /\ ~fork
             /\ ~fork => g.opt = f.opt
  <1> DEFINE a == f.gfact /\ ~fork
             b == f.opt /\ ~fork
  <1>1. a \in BOOLEAN /\ b \in BOOLEAN
    BY DEF FrameType
  <1>2. Merged(f, fork) = [f EXCEPT !.facts = {}, !.gfact = a, !.opt = b]
    BY DEF Merged, FrameType
  <1>3. (a => f.gfact /\ ~fork) /\ (~fork => b = f.opt)
    <2>1. f.opt \in BOOLEAN BY DEF FrameType
    <2> QED BY <2>1
  <1> HIDE DEF a, b
  <1> QED BY <1>1, <1>2, <1>3 DEF SameFrame, FrameType

LEMMA KeptFrame ==
    ASSUME NEW f \in FrameType, NEW w, NEW pre
    PROVE LET g == Kept(f, w, pre)
          IN /\ g \in FrameType /\ SameFrame(g, f) /\ g.word = f.word /\ g.fresh = f.fresh
             /\ g.facts \subseteq f.facts
             /\ g.gfact => f.gfact /\ gcells_keep(w, pre) /\ g.opt = f.opt
  <1>1. CASE f.gfact /\ ~gcells_keep(w, pre)
    <2>1. Kept(f, w, pre) = Merged(f, TRUE) BY <1>1 DEF Kept
    <2>2. /\ Merged(f, TRUE) \in FrameType /\ SameFrame(Merged(f, TRUE), f)
          /\ Merged(f, TRUE).word = f.word /\ Merged(f, TRUE).fresh = f.fresh
          /\ Merged(f, TRUE).facts = {} /\ ~Merged(f, TRUE).gfact
      BY MergedFrame
    <2> QED BY <2>1, <2>2
  <1>2. CASE ~(f.gfact /\ ~gcells_keep(w, pre))
    <2>1. Kept(f, w, pre) = f BY <1>2 DEF Kept
    <2>2. f.gfact => gcells_keep(w, pre) BY <1>2
    <2>3. SameFrame(f, f) BY DEF SameFrame
    <2> QED BY <2>1, <2>2, <2>3
  <1> QED BY <1>1, <1>2

\* A word that lost the stamps flag still reports a callee that demoted nothing.
LEMMA ReportedWithout ==
    ASSUME NEW c, NEW f, NEW bits, Reported(c, f, bits), c.demoted \cap f.born = {}
    PROVE Reported(c, f, bits \ {"stamps"})
  BY DEF Reported

\* The callee's word, seen from its caller, reports all it did (fold_callee_flags).
LEMMA FoldReports ==
    ASSUME KeepInv, Len(frames) > 1, Compiled(Top_), ~frames[Len(frames) - 1].call.new
    PROVE LET via == frames[Len(frames) - 1].call.via
              folded == fold_callee_flags(Caller, Top_.word, via)
          IN /\ folded \in SUBSET FLAGS_ALL
             /\ Reported(Top_, Caller, OwnBits(Caller, folded))
             /\ "bind" \in Top_.word => "bind" \in folded
  <1> DEFINE f == Caller
             c == Top_
             via == frames[Len(frames) - 1].call.via
             w == c.word
             folded == fold_callee_flags(f, w, via)
  <1>1. /\ f \in FrameType /\ w \in SUBSET FLAGS_ALL /\ via \in ViaKinds
        /\ f.born \subseteq c.born
        /\ via = "this" => c.this = f.this
        /\ via = "fresh" => c.this \notin f.born
    <2>1. CallOf(frames[Len(frames) - 1], c, epoch, bepoch)
      BY TwoFrames DEF Suspended
    <2>2. frames[Len(frames) - 1].fresh \cap frames[Len(frames) - 1].born = {}
      BY TwoFrames DEF FrameOK
    <2>3. via \in ViaKinds
      BY <2>1 DEF CallOf, PreType
    <2>4. w \in SUBSET FLAGS_ALL
      BY TopFrame DEF FrameType
    <2> QED BY <2>1, <2>2, <2>3, <2>4, CallerFrame DEF CallOf, SameFrame
  <1>2. Honest(c, {}, {}, FALSE)
    BY TopFrame DEF Running
  <1>3. folded \in SUBSET FLAGS_ALL
    BY <1>1 DEF fold_callee_flags, FLAGS_ALL
  <1>4. "bind" \in w => "bind" \in folded
    BY DEF fold_callee_flags
  <1>5. Reported(c, f, OwnBits(f, folded))
    <2>1. CASE ~Bodies[f.body].threaded
      <3>1. OwnBits(f, folded) = FLAGS_ALL BY <2>1 DEF OwnBits
      <3>2. OwnBits(f, folded) = {"this", "other", "stamps", "bind"} BY <3>1 DEF FLAGS_ALL
      <3> HIDE DEF f, c, folded
      <3> QED BY <3>2 DEF Reported
    <2>2. CASE Bodies[f.body].threaded
      <3>1. OwnBits(f, folded) = folded BY <2>2 DEF OwnBits
      <3>2. ("stamps" \in w => "stamps" \in folded) /\ ("other" \in w => "other" \in folded)
        BY DEF fold_callee_flags
      <3>3. "this" \in w => IF via = "this" THEN "this" \in folded
                            ELSE via = "fresh" \/ "other" \in folded
        <4>1. "this" \in w => "other" \in Shifted(w)
          BY DEF Shifted
        <4> QED BY <2>2, <4>1 DEF fold_callee_flags
      <3> HIDE DEF f, c, via, w, folded
      <3>4. \A o \in c.written \cap f.born :
              IF o = f.this THEN folded \cap {"this", "other"} # {} ELSE "other" \in folded
        <4>1. TAKE o \in c.written \cap f.born
        <4>2. IF o = c.this THEN w \cap {"this", "other"} # {} ELSE "other" \in w
          BY <4>1, <1>1, <1>2 DEF Honest, w
        <4>3. CASE "other" \in w
          BY <4>3, <3>2
        <4>4. CASE "other" \notin w
          BY <4>1, <4>2, <4>4, <3>3, <1>1
        <4> QED BY <4>3, <4>4
      <3>5. c.demoted \cap f.born # {} => "stamps" \in folded
        BY <1>1, <1>2, <3>2 DEF Honest, w
      <3>6. c.bound => "bind" \in folded
        BY <1>2, <1>4 DEF Honest, w
      <3> QED BY <3>1, <3>4, <3>5, <3>6 DEF Reported
    <2> QED BY <2>1, <2>2
  <1> QED BY <1>3, <1>4, <1>5

\* The facts of the caller are about objects the callee could see.
LEMMA CallFacts ==
    ASSUME KeepInv, Len(frames) > 1
    PROVE LET pre == frames[Len(frames) - 1].call
          IN /\ pre \in PreType /\ Compiled(Caller)
             /\ Caller.born \subseteq Top_.born /\ Caller.facts \subseteq Top_.born
             /\ epoch = pre.epoch => Top_.demoted = {}
             /\ bepoch = pre.bepoch => ~Top_.bound
             /\ Caller.gfact => Caller.opt /\ Bodies[Caller.body].reads
             /\ Caller.fresh \cap Caller.born = {}
             /\ Compiled(Top_) => Honest(Top_, {}, {}, FALSE)
             /\ pre.kind = Arm(Top_.body, pre.likely)
             /\ Top_.word \in SUBSET FLAGS_ALL /\ Caller \in FrameType
  <1> DEFINE f == frames[Len(frames) - 1]
  <1>1. CallOf(f, Top_, epoch, bepoch) /\ Compiled(f)
    BY TwoFrames DEF Suspended
  <1>2. FrameOK(f, unborn)
    BY TwoFrames
  <1>3. Compiled(Top_) => Honest(Top_, {}, {}, FALSE)
    BY TopFrame DEF Running
  <1>4. Top_.word \in SUBSET FLAGS_ALL
    BY TopFrame DEF FrameType
  <1>5. Caller \in FrameType /\ SameFrame(Caller, f) /\ Caller.fresh = f.fresh /\ Caller.facts = f.facts
        /\ Caller.gfact = f.gfact /\ Caller.opt = f.opt
    BY CallerFrame
  <1> HIDE DEF f
  <1>6. f.call \in PreType /\ Compiled(Caller)
    BY <1>1, <1>5 DEF CallOf, SameFrame, Compiled
  <1>7. Caller.gfact => Caller.opt /\ Bodies[Caller.body].reads
    BY <1>2, <1>5 DEF FrameOK, SameFrame
  <1>8. Caller.fresh \cap Caller.born = {}
    BY <1>2, <1>5 DEF FrameOK, SameFrame
  <1>9. /\ Caller.born \subseteq Top_.born /\ Caller.facts \subseteq Top_.born
        /\ epoch = f.call.epoch => Top_.demoted = {}
        /\ bepoch = f.call.bepoch => ~Top_.bound
        /\ f.call.kind = Arm(Top_.body, f.call.likely)
    BY <1>1, <1>5 DEF CallOf, SameFrame
  <1> QED BY <1>3, <1>4, <1>5, <1>6, <1>7, <1>8, <1>9 DEF f

\* The binding fact is kept only over a callee that left the binding alone, or when its
\* type was proven again.
LEMMA GcellsKept ==
    ASSUME KeepInv, Len(frames) > 1, NEW w, Top_.bound => "bind" \in w,
           gcells_keep(w, frames[Len(frames) - 1].call)
    PROVE ~Top_.bound \/ binding
  BY CallFacts DEF gcells_keep

\* The keep arm of the summary: nothing the callee may demote is a fact of the caller.
LEMMA SummaryKeeps ==
    ASSUME KeepInv, Len(frames) > 1,
           frames[Len(frames) - 1].call.kind = "direct",
           summary_keep(Caller, frames[Len(frames) - 1].call.likely)
    PROVE Caller.facts \cap Top_.demoted = {}
  <1> DEFINE likely == frames[Len(frames) - 1].call.likely
  <1>1. Arm(Top_.body, likely) = "direct"
    BY CallFacts
  <1>2. Top_.body = likely /\ Compiled(Top_)
    BY <1>1 DEF Arm, Compiled
  <1>3. summary_conflict_free(Caller, likely)
    BY DEF summary_keep
  <1>4. \A o \in Top_.demoted : \E w \in Bodies[likely].writes :
             w[1] \in {"any", Class[o]} /\ w[2] \notin Row[Class[o]]
    BY <1>2, <1>3, TopFrame DEF FrameOK, summary_conflict_free
  <1> HIDE DEF likely
  <1> QED BY <1>3, <1>4 DEF summary_conflict_free, name_in_rows

LEMMA EpochKeepStep ==
    ASSUME KeepInv, Len(frames) > 1, NEW ok \in BOOLEAN,
           frames' = Under(emit_epoch_keep(Caller, ok, frames[Len(frames) - 1].call)), HeapKept
    PROVE KeepInv'
  <1> DEFINE f == Caller
             pre == frames[Len(frames) - 1].call
             some == {"this", "other", "bind"}
             k1 == or_flags_word(f, some)
             m1 == or_flags_word(f, FLAGS_ALL)
  <1>1. Owning(k1, f, some) /\ Owning(m1, f, FLAGS_ALL)
    BY CallFacts, OrWord DEF FLAGS_ALL
  <1>2. f.opt \in BOOLEAN
    BY CallFacts DEF FrameType
  <1>3. CASE ok /\ f.opt /\ epoch = pre.epoch
    <2> DEFINE g == Kept(k1, FLAGS_ALL, pre)
    <2>1. frames' = Under(g)
      BY <1>3 DEF emit_epoch_keep
    <2> HIDE DEF k1
    <2>2. /\ g \in FrameType /\ SameFrame(g, k1) /\ g.word = k1.word /\ g.fresh = k1.fresh
          /\ g.facts \subseteq k1.facts
          /\ g.gfact => k1.gfact /\ gcells_keep(FLAGS_ALL, pre) /\ g.opt = k1.opt
      BY <1>1, KeptFrame DEF Owning
    <2> HIDE DEF g, f
    <2>3. Resumed(g, f, some) /\ g.fresh \cap f.born = {}
      BY <1>1, <2>2, CallFacts DEF Resumed, Owning, SameFrame, f
    <2>4. Top_.demoted = {}
      BY <1>3, CallFacts
    <2>5. Reported(Top_, f, some)
      BY <2>4 DEF Reported
    <2>6. g.gfact => ~Top_.bound \/ binding
      BY <2>2, GcellsKept DEF FLAGS_ALL
    <2> QED BY <2>1, <2>3, <2>4, <2>5, <2>6, PopStep DEF f
  <1>4. CASE ~(ok /\ f.opt /\ epoch = pre.epoch)
    <2> DEFINE g == Merged(m1, f.opt)
    <2>1. frames' = Under(g)
      BY <1>4 DEF emit_epoch_keep
    <2> HIDE DEF m1
    <2>2. /\ g \in FrameType /\ SameFrame(g, m1) /\ g.word = m1.word /\ g.fresh = m1.fresh
          /\ g.facts = {}
          /\ g.gfact => m1.gfact /\ ~f.opt
      BY <1>1, <1>2, MergedFrame DEF Owning
    <2> HIDE DEF g, f
    <2>3. ~g.gfact
      BY <1>1, <2>2, CallFacts DEF Owning, f
    <2>4. Resumed(g, f, FLAGS_ALL) /\ g.fresh \cap f.born = {}
      BY <1>1, <2>2, <2>3, CallFacts DEF Resumed, Owning, SameFrame, f
    <2>5. Reported(Top_, f, FLAGS_ALL)
      BY DEF Reported, FLAGS_ALL
    <2> QED BY <2>1, <2>2, <2>3, <2>4, <2>5, PopStep DEF f
  <1> QED BY <1>3, <1>4

LEMMA FlagForkStep ==
    ASSUME KeepInv, Len(frames) > 1, NEW ok \in BOOLEAN, Compiled(Top_),
           ~frames[Len(frames) - 1].call.new,
           frames' = Under(emit_flag_fork(Caller, Top_.word, ok, frames[Len(frames) - 1].call)), HeapKept
    PROVE KeepInv'
  <1> DEFINE f == Caller
             w == Top_.word
             pre == frames[Len(frames) - 1].call
             sum == pre.kind = "direct" /\ summary_keep(f, pre.likely)
             folded == fold_callee_flags(f, w, pre.via)
             handed == IF sum THEN folded ELSE folded \ {"stamps"}
             k1 == or_flags_word(f, handed)
             m1 == or_flags_word(f, folded)
  <1>1. /\ folded \in SUBSET FLAGS_ALL /\ Reported(Top_, f, OwnBits(f, folded))
        /\ "bind" \in w => "bind" \in folded
    BY FoldReports
  <1>2. Honest(Top_, {}, {}, FALSE)
    BY CallFacts
  <1>3. CASE ok /\ f.opt /\ (sum \/ Intact(f, w, pre))
    <2> DEFINE g == Kept(k1, handed, pre)
    <2>1. frames' = Under(g)
      BY <1>3 DEF emit_flag_fork
    <2>2. f.facts \cap Top_.demoted = {} /\ (~sum => Top_.demoted \cap f.born = {})
      <3>1. CASE sum
        BY <3>1, SummaryKeeps
      <3>2. CASE ~sum
        <4>1. "stamps" \notin w \/ epoch = pre.epoch
          BY <1>3, <3>2 DEF Intact
        <4>2. Top_.demoted \cap Top_.born = {}
          BY <4>1, <1>2, CallFacts DEF Honest
        <4> QED BY <4>2, CallFacts
      <3> QED BY <3>1, <3>2
    <2>3. /\ handed \in SUBSET FLAGS_ALL
          /\ "bind" \in w => "bind" \in handed
      BY <1>1
    <2>4. Reported(Top_, f, OwnBits(f, handed))
      <3>1. CASE sum
        BY <3>1, <1>1
      <3>2. CASE ~sum
        <4>1. handed = folded \ {"stamps"} BY <3>2
        <4> HIDE DEF folded, handed
        <4>2. Reported(Top_, f, OwnBits(f, folded) \ {"stamps"})
          BY <1>1, <2>2, <3>2, ReportedWithout
        <4>3. OwnBits(f, folded) \ {"stamps"} \subseteq OwnBits(f, handed)
          BY <4>1 DEF OwnBits
        <4> HIDE DEF f
        <4> QED BY <4>2, <4>3 DEF Reported
      <3> QED BY <3>1, <3>2
    <2>5. Owning(k1, f, OwnBits(f, handed))
      BY <2>3, CallFacts, OrOwnBits
    <2> HIDE DEF k1, handed
    <2>6. /\ g \in FrameType /\ SameFrame(g, k1) /\ g.word = k1.word /\ g.fresh = k1.fresh
          /\ g.facts \subseteq k1.facts
          /\ g.gfact => k1.gfact /\ gcells_keep(handed, pre) /\ g.opt = k1.opt
      BY <2>5, KeptFrame DEF Owning
    <2> HIDE DEF g, f
    <2>7. Resumed(g, f, OwnBits(f, handed)) /\ g.fresh \cap f.born = {} /\ g.facts \cap Top_.demoted = {}
      BY <2>2, <2>5, <2>6, CallFacts DEF Resumed, Owning, SameFrame, f
    <2>8. Top_.bound => "bind" \in handed
      BY <1>2, <2>3 DEF Honest
    <2>9. g.gfact => ~Top_.bound \/ binding
      BY <2>6, <2>8, GcellsKept
    <2> QED BY <2>1, <2>4, <2>7, <2>9, PopStep DEF f
  <1>4. CASE ~(ok /\ f.opt /\ (sum \/ Intact(f, w, pre)))
    <2> DEFINE g == Merged(m1, f.opt)
    <2>1. frames' = Under(g)
      BY <1>4 DEF emit_flag_fork
    <2>2. Owning(m1, f, OwnBits(f, folded))
      BY <1>1, CallFacts, OrOwnBits
    <2>3. f.opt \in BOOLEAN
      BY CallFacts DEF FrameType
    <2> HIDE DEF m1, folded
    <2>4. /\ g \in FrameType /\ SameFrame(g, m1) /\ g.word = m1.word /\ g.fresh = m1.fresh
          /\ g.facts = {}
          /\ g.gfact => m1.gfact /\ ~f.opt
      BY <2>2, <2>3, MergedFrame DEF Owning
    <2> HIDE DEF g, f
    <2>5. ~g.gfact
      BY <2>2, <2>4, CallFacts DEF Owning, f
    <2>6. Resumed(g, f, OwnBits(f, folded)) /\ g.fresh \cap f.born = {}
      BY <2>2, <2>4, <2>5, CallFacts DEF Resumed, Owning, SameFrame, f
    <2> QED BY <1>1, <2>1, <2>4, <2>5, <2>6, PopStep DEF f
  <1> QED BY <1>3, <1>4

LEMMA ReturnFromCallStep ==
    ASSUME KeepInv, NEW ok \in BOOLEAN, ReturnFromCall(ok)
    PROVE KeepInv'
  <1> DEFINE pre == frames[Len(frames) - 1].call
  <1>1. /\ Len(frames) > 1 /\ ~pre.new /\ HeapKept
        /\ frames' = Under(IF pre.kind = "engine" THEN emit_epoch_keep(Caller, ok, pre)
                           ELSE emit_flag_fork(Caller, Top_.word, ok, pre))
    BY DEF ReturnFromCall
  <1>2. CASE pre.kind = "engine"
    BY <1>1, <1>2, EpochKeepStep
  <1>3. CASE pre.kind # "engine"
    <2>1. Compiled(Top_)
      BY <1>1, <1>3, CallFacts DEF Arm, Compiled
    <2> QED BY <1>1, <1>3, <2>1, FlagForkStep
  <1> QED BY <1>2, <1>3

\* What a constructor reports reaches its caller: its own `this` was not there before.
LEMMA ConstructReports ==
    ASSUME KeepInv, Len(frames) > 1, frames[Len(frames) - 1].call.new, Compiled(Top_)
    PROVE Reported(Top_, Caller, Top_.word \ {"this"})
  <1>1. Top_.this \notin Caller.born
    BY TwoFrames, CallerFrame DEF Suspended, CallOf, SameFrame
  <1>2. Honest(Top_, {}, {}, FALSE) /\ Caller.born \subseteq Top_.born
    BY CallFacts
  <1>3. \A o \in Top_.written \cap Caller.born : "other" \in Top_.word \ {"this"}
    BY <1>1, <1>2 DEF Honest
  <1> QED BY <1>2, <1>3 DEF Honest, Reported

LEMMA MarkFreshFrame ==
    ASSUME NEW f \in FrameType, NEW res \in Objects, NEW likely
    PROVE LET g == MarkFresh(f, res, likely)
          IN /\ g \in FrameType /\ SameFrame(g, f) /\ g.word = f.word /\ g.facts = f.facts
             /\ g.gfact = f.gfact /\ g.opt = f.opt
             /\ g.fresh = IF ctor_returns_this(likely) THEN f.fresh \cup {res} ELSE f.fresh
  <1>1. CASE ctor_returns_this(likely)
    <2>1. MarkFresh(f, res, likely) = [f EXCEPT !.fresh = f.fresh \cup {res}]
      BY <1>1 DEF MarkFresh, FrameType
    <2> QED BY <1>1, <2>1 DEF FrameType, SameFrame
  <1>2. CASE ~ctor_returns_this(likely)
    <2>1. MarkFresh(f, res, likely) = f
      BY <1>2 DEF MarkFresh
    <2> QED BY <1>2, <2>1 DEF SameFrame
  <1> QED BY <1>1, <1>2

LEMMA ReturnFromConstructStep ==
    ASSUME KeepInv, NEW ok \in BOOLEAN, NEW delta \in {{}, FLAGS_ALL}, NEW res \in Alive,
           ReturnFromConstruct(ok, delta, res)
    PROVE KeepInv'
  <1> DEFINE f == Caller
             pre == frames[Len(frames) - 1].call
             masked == Top_.word \ {"this"}
             unresolved == pre.likely = Engine_
             site == f.opt /\ IF unresolved THEN ~mapped_args_reachable(f) ELSE ret_clean_for(pre.likely)
             fork == site /\ (unresolved \/ pre.kind = "direct")
             word == IF unresolved THEN {"other", "stamps", "bind"} ELSE delta \cup masked
             merge == IF pre.kind = "engine" THEN FLAGS_ALL ELSE delta \cup masked
             same == fork /\ ok /\ word = {}
             intact == fork /\ ok /\ ~mapped_args_reachable(f) /\ ("stamps" \notin word \/ epoch = pre.epoch)
  <1>1. /\ Len(frames) > 1 /\ pre.new /\ HeapKept
        /\ Compiled(Top_) /\ Bodies[Top_.body].retThis => res = pre.this
        /\ frames' = Under(emit_construct_clean_fork(f, word, ok, pre, res, site, fork, merge))
    BY DEF ReturnFromConstruct
  <1>2. /\ pre.this = Top_.this /\ Top_.this \notin f.born
        /\ pre.likely # Engine_ => Top_.body = pre.likely
        /\ <<Top_.body, pre.likely>> \in CallSites
    BY <1>1, TwoFrames, CallerFrame DEF Suspended, CallOf, SameFrame
  <1>3. f \in FrameType /\ f.fresh \cap f.born = {} /\ res \in Objects /\ f.opt \in BOOLEAN
    BY <1>1, CallFacts DEF Alive, FrameType
  <1>4. ctor_returns_this(pre.likely) => res \notin f.born
    BY <1>1, <1>2 DEF ctor_returns_this, Compiled
  <1>5. pre.kind = Arm(Top_.body, pre.likely) /\ f.facts \subseteq Top_.born /\ f.born \subseteq Top_.born
    BY <1>1, CallFacts
  <1>6. ~unresolved => Compiled(Top_)
    BY <1>2 DEF Compiled
  <1>7. pre.kind # "engine" => Compiled(Top_)
    BY <1>5 DEF Arm, Compiled
  <1>8. masked \in SUBSET FLAGS_ALL /\ merge \in SUBSET FLAGS_ALL /\ word \in SUBSET FLAGS_ALL
    BY <1>1, CallFacts DEF FLAGS_ALL
  <1>9. Compiled(Top_) =>
          /\ Reported(Top_, f, masked)
          /\ "stamps" \notin masked => Top_.demoted \cap Top_.born = {}
          /\ Top_.bound => "bind" \in masked
    BY <1>1, ConstructReports, CallFacts DEF Honest, Reported
  <1>10. site \in BOOLEAN /\ frames' = Under(IF same THEN MarkFresh(f, res, pre.likely)
             ELSE IF intact THEN Kept(or_flags_word(f, word \ {"stamps"}), word, pre)
             ELSE Merged(MarkFresh(or_flags_word(f, merge), res, pre.likely), site))
    BY <1>1 DEF emit_construct_clean_fork
  <1>11. CASE same
    <2> DEFINE g == MarkFresh(f, res, pre.likely)
    <2>1. frames' = Under(g) BY <1>10, <1>11
    <2>2. Compiled(Top_) /\ masked = {}
      BY <1>6, <1>11
    <2> HIDE DEF masked
    <2>3. Reported(Top_, f, {}) /\ Top_.demoted \cap Top_.born = {} /\ ~Top_.bound
      BY <1>9, <2>2
    <2>4. /\ g \in FrameType /\ SameFrame(g, f) /\ g.word = f.word /\ g.facts = f.facts
          /\ g.gfact = f.gfact /\ g.opt = f.opt
          /\ g.fresh = IF ctor_returns_this(pre.likely) THEN f.fresh \cup {res} ELSE f.fresh
      BY <1>3, MarkFreshFrame
    <2> HIDE DEF g
    <2>5. f.gfact => f.opt
      BY <1>1, CallFacts
    <2> HIDE DEF f
    <2>6. Resumed(g, f, {}) /\ g.fresh \cap f.born = {} /\ g.facts \cap Top_.demoted = {}
      BY <1>3, <1>4, <1>5, <2>3, <2>4, <2>5 DEF Resumed
    <2> QED BY <1>1, <2>1, <2>3, <2>6, PopStep DEF f
  <1>12. CASE ~same /\ intact
    <2> DEFINE k1 == or_flags_word(f, word \ {"stamps"})
               g == Kept(k1, word, pre)
    <2>1. frames' = Under(g) BY <1>10, <1>12
    <2>2. Owning(k1, f, word \ {"stamps"})
      BY <1>3, <1>8, OrWord
    <2>3. Top_.demoted \cap Top_.born = {}
      <3>1. CASE epoch = pre.epoch
        BY <1>1, <3>1, CallFacts
      <3>2. CASE epoch # pre.epoch
        <4>1. "stamps" \notin word BY <1>12, <3>2
        <4>2. ~unresolved /\ "stamps" \notin masked BY <4>1
        <4> QED BY <4>2, <1>6, <1>9
      <3> QED BY <3>1, <3>2
    <2>4. Reported(Top_, f, word) /\ (Top_.bound => "bind" \in word)
      <3>1. CASE unresolved
        <4>1. word = {"other", "stamps", "bind"} BY <3>1
        <4> HIDE DEF word, f
        <4> QED BY <4>1 DEF Reported
      <3>2. CASE ~unresolved
        <4>1. masked \subseteq word BY <3>2
        <4>2. Reported(Top_, f, masked) /\ (Top_.bound => "bind" \in masked) BY <3>2, <1>6, <1>9
        <4> HIDE DEF word, masked, f
        <4> QED BY <4>1, <4>2 DEF Reported
      <3> QED BY <3>1, <3>2
    <2>5. Reported(Top_, f, word \ {"stamps"})
      <3> HIDE DEF word, f
      <3> QED BY <1>5, <2>3, <2>4, ReportedWithout
    <2> HIDE DEF k1, word
    <2>6. /\ g \in FrameType /\ SameFrame(g, k1) /\ g.word = k1.word /\ g.fresh = k1.fresh
          /\ g.facts \subseteq k1.facts
          /\ g.gfact => k1.gfact /\ gcells_keep(word, pre) /\ g.opt = k1.opt
      BY <2>2, KeptFrame DEF Owning
    <2>7. f.gfact => f.opt
      BY <1>1, CallFacts
    <2>8. g.gfact => ~Top_.bound \/ binding
      BY <1>1, <2>4, <2>6, GcellsKept
    <2> HIDE DEF g, f
    <2>9. Resumed(g, f, word \ {"stamps"}) /\ g.fresh \cap f.born = {} /\ g.facts \cap Top_.demoted = {}
      BY <1>3, <1>5, <2>2, <2>3, <2>6, <2>7 DEF Resumed, Owning, SameFrame
    <2> QED BY <1>1, <2>1, <2>5, <2>8, <2>9, PopStep DEF f
  <1>13. CASE ~same /\ ~intact
    <2> DEFINE m1 == or_flags_word(f, merge)
               m2 == MarkFresh(m1, res, pre.likely)
               g == Merged(m2, site)
    <2>1. frames' = Under(g) BY <1>10, <1>13
    <2>2. Owning(m1, f, merge)
      BY <1>3, <1>8, OrWord
    <2>3. Reported(Top_, f, merge)
      <3>1. CASE pre.kind = "engine"
        <4>1. merge = {"this", "other", "stamps", "bind"} BY <3>1 DEF FLAGS_ALL
        <4> HIDE DEF merge, f
        <4> QED BY <4>1 DEF Reported
      <3>2. CASE pre.kind # "engine"
        <4>1. masked \subseteq merge BY <3>2
        <4>2. Reported(Top_, f, masked) BY <3>2, <1>7, <1>9
        <4> HIDE DEF merge, masked, f
        <4> QED BY <4>1, <4>2 DEF Reported
      <3> QED BY <3>1, <3>2
    <2>4. BindingForked /\ f.gfact => site
      <3>1. f.gfact => f.opt /\ Bodies[f.body].reads /\ f.body \in DOMAIN Bodies
        BY <1>1, <1>3, CallFacts DEF Compiled, FrameType, BodyIds
      <3> QED BY <1>2, <3>1 DEF BindingForked, mapped_args_reachable
    <2> HIDE DEF m1, merge
    <2>5. /\ m2 \in FrameType /\ SameFrame(m2, m1) /\ m2.word = m1.word /\ m2.facts = m1.facts
          /\ m2.gfact = m1.gfact /\ m2.opt = m1.opt
          /\ m2.fresh = IF ctor_returns_this(pre.likely) THEN m1.fresh \cup {res} ELSE m1.fresh
      BY <1>3, <2>2, MarkFreshFrame DEF Owning
    <2>6. f.gfact => f.opt
      BY <1>1, CallFacts
    <2> HIDE DEF m2
    <2>7. /\ g \in FrameType /\ SameFrame(g, m2) /\ g.word = m2.word /\ g.fresh = m2.fresh /\ g.facts = {}
          /\ g.gfact => m2.gfact /\ ~site
          /\ ~site => g.opt = m2.opt
      BY <1>10, <2>5, MergedFrame
    <2> HIDE DEF site, g, f
    <2>8. BindingForked => ~g.gfact
      BY <2>2, <2>4, <2>5, <2>7 DEF Owning
    <2>9. g.gfact => f.gfact /\ g.opt
      BY <2>2, <2>5, <2>6, <2>7 DEF Owning
    <2>10. Resumed(g, f, merge) /\ g.fresh \cap f.born = {}
      BY <1>3, <1>4, <2>2, <2>5, <2>7, <2>9 DEF Resumed, Owning, SameFrame
    <2> QED BY <1>1, <2>1, <2>3, <2>7, <2>8, <2>10, PopStep DEF f
  <1> QED BY <1>11, <1>12, <1>13

(***************************************************************************)
(* The invariant, and the theorems.                                         *)
(***************************************************************************)
LEMMA KeepInitial == KeepInit => KeepInv
  <1> SUFFICES ASSUME KeepInit PROVE KeepInv
    OBVIOUS
  <1>1. PICK r \in Outermost :
         frames = <<[body |-> r[1], this |-> r[2], fresh |-> {}, word |-> {}, facts |-> {}, gfact |-> FALSE,
                     opt |-> TRUE, call |-> NoCall, born |-> Old, written |-> {}, demoted |-> {}, bound |-> FALSE]>>
    BY DEF KeepInit
  <1> DEFINE f == frames[1]
  <1>2. Len(frames) = 1 /\ r[1] \in DOMAIN Bodies /\ r[2] \in Old
    BY <1>1, KeepAssumption
  <1>3. /\ f \in FrameType /\ f.body = r[1] /\ f.this = r[2] /\ f.fresh = {} /\ f.facts = {} /\ ~f.gfact
        /\ f.born = Old /\ f.written = {} /\ f.demoted = {} /\ f.bound = FALSE
    BY <1>1, <1>2 DEF FrameType, BodyIds, Objects
  <1>4. frames \in Seq(FrameType)
    BY <1>1, <1>3
  <1> HIDE DEF f
  <1>5. FrameOK(f, unborn)
    BY <1>2, <1>3, KeepAssumption DEF FrameOK, KeepInit
  <1>6. Running(f, stamped, binding)
    BY <1>3 DEF Running, Honest, Believes
  <1>7. HeapType(stamped, unborn, epoch, bepoch, binding)
    BY KeepAssumption DEF KeepInit, HeapType, Objects
  <1>8. Stacked(frames, stamped, unborn, epoch, bepoch, binding)
    BY <1>2, <1>4, <1>5, <1>6 DEF Stacked, Waiting, f
  <1> QED BY <1>7, <1>8 DEF KeepInv

LEMMA KeepInductive ==
    ASSUME ~ClassSurprise, ~CtorSurprise, KeepInv, [KeepNext]_keepVars
    PROVE KeepInv'
  <1>1. CASE KeepEvent
    <2>1. CASE \E o \in Objects : Guard(o) \/ NewObject(o)
      BY <2>1, GuardStep, NewObjectStep
    <2>2. CASE GetGName \/ or_flags_leaf_write \/ emit_class_idx_stamp \/ try_call_return_onramp
      BY <2>2, GetGNameStep, LeafWriteStep, StampStep, OnrampStep
    <2>3. CASE \E o \in Objects, n \in Names, via \in {"this", "other", "fresh"} : Store(o, n, via)
      BY <2>3, StoreStep DEF ViaKinds
    <2>4. CASE \E c \in BOOLEAN : SetGName(c)
      BY <2>4, SetGNameStep
    <2>5. CASE \E s \in CallSites, o \in Objects, via \in {"this", "other", "fresh"} : EmitCall(s[1], s[2], o, via)
      BY <2>5, EmitCallStep DEF ViaKinds
    <2>6. CASE \E s \in CallSites, o \in Objects : EmitConstruct(s[1], s[2], o)
      BY <2>6, EmitConstructStep
    <2> QED BY <1>1, <2>1, <2>2, <2>3, <2>4, <2>5, <2>6 DEF KeepEvent
  <1>2. CASE KeepReturn
    <2>1. CASE \E ok \in BOOLEAN : ReturnFromCall(ok)
      BY <2>1, ReturnFromCallStep
    <2>2. CASE \E ok \in BOOLEAN, delta \in {{}, FLAGS_ALL}, res \in Alive : ReturnFromConstruct(ok, delta, res)
      BY <2>2, ReturnFromConstructStep
    <2> QED BY <1>2, <2>1, <2>2 DEF KeepReturn
  <1>3. CASE UNCHANGED keepVars
    <2>1. UNCHANGED <<frames, stamped, unborn, epoch, bepoch, binding>>
      BY <1>3 DEF keepVars
    <2> QED BY <2>1 DEF KeepInv
  <1> QED BY <1>1, <1>2, <1>3 DEF KeepNext

LEMMA KeepInvHolds ==
    ASSUME KeepInv
    PROVE /\ WordIsHonest /\ FreshIsOwn
          /\ Compiled(Top_) => Top_.facts \subseteq stamped
          /\ BindingForked => KeptHolds
  <1>1. FreshIsOwn
    BY DEF KeepInv, Stacked, Waiting, FrameOK, FreshIsOwn
  <1>2. WordIsHonest
    <2>1. SUFFICES ASSUME Compiled(Top_)
                   PROVE /\ (Top_.written \cap Top_.born) \ {Top_.this} # {} => "other" \in Top_.word
                         /\ Top_.this \in Top_.written => Top_.word \cap {"this", "other"} # {}
                         /\ Top_.demoted \cap Top_.born # {} => "stamps" \in Top_.word
                         /\ Top_.bound => "bind" \in Top_.word
      BY DEF WordIsHonest
    <2>2. Honest(Top_, {}, {}, FALSE) /\ Top_.this \in Top_.born
      BY <2>1, TopFrame DEF Running, FrameOK
    <2> QED BY <2>2 DEF Honest
  <1>3. Compiled(Top_) => Top_.facts \subseteq stamped /\ (BindingForked /\ Top_.gfact => binding)
    BY TopFrame DEF Running, Believes
  <1> QED BY <1>1, <1>2, <1>3 DEF KeptHolds, KeptFactsHold

\* Over any nesting of calls and constructs, what a frame keeps is true and its word owns
\* up to all that was done (emit_flag_fork, emit_epoch_keep, emit_construct_clean_fork),
\* for every program whose summarised writes meet the classes they name, whose sites
\* construct with the likely body, and whose binding readers only construct where the
\* site forks.
THEOREM KeepTheKept ==
    ASSUME ~ClassSurprise, ~CtorSurprise, BindingForked
    PROVE KeepSpec => []KeptHolds
  <1>1. KeepInit => KeepInv
    BY KeepInitial
  <1>2. KeepInv /\ [KeepNext]_keepVars => KeepInv'
    BY KeepInductive
  <1>3. KeepInv => KeptHolds
    BY KeepInvHolds
  <1> QED BY <1>1, <1>2, <1>3, PTL DEF KeepSpec

\* Without the condition on constructs only the binding fact is at risk: the class facts,
\* the words and what is taken for fresh are right all the same.
THEOREM KeepClassFacts ==
    ASSUME ~ClassSurprise, ~CtorSurprise
    PROVE KeepSpec => [](WordIsHonest /\ FreshIsOwn /\ (Compiled(Top_) => Top_.facts \subseteq stamped))
  <1>1. KeepInit => KeepInv
    BY KeepInitial
  <1>2. KeepInv /\ [KeepNext]_keepVars => KeepInv'
    BY KeepInductive
  <1>3. KeepInv => WordIsHonest /\ FreshIsOwn /\ (Compiled(Top_) => Top_.facts \subseteq stamped)
    BY KeepInvHolds
  <1> QED BY <1>1, <1>2, <1>3, PTL DEF KeepSpec
=============================================================================
