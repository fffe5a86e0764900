------------------------ MODULE GlobalBindingsProofs ------------------------
(***************************************************************************)
(* Proofs about GlobalBindings, for every set of names, values, shapes and *)
(* every fuse and expectation table.                                       *)
(***************************************************************************)
EXTENDS GlobalBindings, SequenceTheorems, TLAPS

-----------------------------------------------------------------------------
(***************************************************************************)
(* Type correctness.                                                       *)
(***************************************************************************)

Cell == [word : 0..2, bits : Values \cup {NoValue, Dangling}]
Content == Values \cup {NoValue, Accessor}

\* The operations on one cell stay in the cell's type.
LEMMA CellOps ==
    ASSUME TypeOK, NEW n \in Names, NEW c \in Cell, NEW v \in Values,
           NEW s \in Content
    PROVE  /\ Unarmed \in Cell /\ Blown \in Cell
           /\ MaybeBlowBindingFuse(c, v) \in Cell
           /\ BlowBindingFuse(c) \in Cell
           /\ MaybeArmBindingFuse(n, c, s) \in Cell
           /\ WriteThrough(n, c, v) \in Cell
  BY DEF Cell, Content, Unarmed, Blown, Armed, MaybeBlowBindingFuse, BlowBindingFuse,
         MaybeArmBindingFuse, WriteThrough

\* The operations on a literal fuse stay in 0..2.
LEMMA FuseOps ==
    ASSUME NEW n \in Names, NEW g \in 0..2, NEW v, NEW b
    PROVE  /\ MaybeGnameFuseBlow(n, g, v) \in 0..2
           /\ BlowGnameFuse(n, g) \in 0..2
           /\ MaybeGnameFuseArmAfterStore(n, g, b, v) \in 0..2
  BY DEF MaybeGnameFuseBlow, BlowGnameFuse, MaybeGnameFuseArmAfterStore

\* The epoch stays in its width, and moves when it is bumped.
LEMMA BumpOk ==
    ASSUME bindEpoch \in 0..(EpochMod - 1), NEW k \in 0..2
    PROVE  Bump(k) \in 0..(EpochMod - 1) /\ (k # 0 => Bump(k) # bindEpoch)
  BY BoundsAssumption DEF Bump

\* Dropping the last element of a sequence leaves a sequence over the same set.
LEMMA FrontType ==
    ASSUME NEW S, NEW q \in Seq(S), q # <<>>
    PROVE  /\ SubSeq(q, 1, Len(q) - 1) \in Seq(S)
           /\ q[Len(q)] \in S
  <1>1. Len(q) \in Nat \ {0} /\ q \in [1..Len(q) -> S]
    BY EmptySeq, LenProperties
  <1>2. 1 \in Int /\ Len(q) - 1 \in Int /\ \A i \in 1..(Len(q) - 1) : q[i] \in S
    BY <1>1
  <1> QED
    BY <1>1, <1>2, SubSeqProperties

\* What Settle leaves in the three fuse variables has their types.
LEMMA SettleType ==
    ASSUME TypeOK, NEW n \in Names, NEW c \in Cell, NEW g \in 0..2,
           NEW s \in Content, NEW b, NEW r \in BOOLEAN,
           Settle(n, c, g, s, b, r)
    PROVE  /\ cell' \in [Names -> Cell]
           /\ gfuse' \in [Names -> 0..2]
           /\ nurseryArmed' \subseteq Names
  <1> DEFINE d == IF r THEN MaybeArmBindingFuse(n, c, s) ELSE c
             h == IF r THEN MaybeGnameFuseArmAfterStore(n, g, b, s) ELSE g
  <1>1. d \in Cell
    BY DEF Cell, Content, Armed, MaybeArmBindingFuse, TypeOK
  <1>2. h \in 0..2
    BY DEF MaybeGnameFuseArmAfterStore
  <1>3. /\ cell' = [cell EXCEPT ![n] = d]
        /\ gfuse' = [gfuse EXCEPT ![n] = h]
        /\ nurseryArmed' = nurseryArmed \cup NurseryPush(n, c, d, young)
    BY DEF Settle
  <1> HIDE DEF d, h
  <1>4. NurseryPush(n, c, d, young) \subseteq Names
    BY DEF NurseryPush
  <1> QED
    BY <1>1, <1>2, <1>3, <1>4 DEF TypeOK, Cell

\* Every outcome of a store to the global keeps the types.
LEMMA GlobalSetType ==
    ASSUME TypeOK, NEW n \in Names, NEW v \in Values, NEW c \in Cell,
           NEW g \in 0..2, NEW k \in 0..1, NEW r \in BOOLEAN,
           GlobalSet(n, v, c, g, k, r)
    PROVE  TypeOK'
  <1>1. k \in 0..2 /\ k + 1 \in 0..2
    OBVIOUS
  <1>2. Bump(k) \in 0..(EpochMod - 1) /\ Bump(k + 1) \in 0..(EpochMod - 1)
    BY <1>1, BumpOk DEF Cell, Content, TypeOK
  <1>3. /\ UNCHANGED <<lex, young, row, flips, armingAllowed, modeVars, frames>>
        /\ slot[n] \in Content
    BY DEF Cell, Content, GlobalSet, TypeOK
  <1>4. CASE SetExisting(n, v, c, g, k, r)
    <2>1. Settle(n, MaybeBlowBindingFuse(c, v), MaybeGnameFuseBlow(n, g, v), v, v, r)
      BY <1>4 DEF SetExisting
    <2>2. cell' \in [Names -> Cell] /\ gfuse' \in [Names -> 0..2] /\ nurseryArmed' \subseteq Names
      <3>1. MaybeBlowBindingFuse(c, v) \in Cell /\ MaybeGnameFuseBlow(n, g, v) \in 0..2
            /\ v \in Content
        BY CellOps, FuseOps DEF Cell, Content, MaybeBlowBindingFuse, Unarmed
      <3> QED
        BY <2>1, <3>1, SettleType
    <2> QED
      BY <1>2, <1>3, <1>4, <2>2 DEF Cell, Content, SetExisting, TypeOK, modeVars, layoutVars, Values
  <1>5. CASE SetAbsent(n, v, c, g, k, r)
    <2>1. \/ Settle(n, c, g, v, v, r)
          \/ Settle(n, BlowBindingFuse(c), BlowGnameFuse(n, g), v, v, r)
      BY <1>5 DEF SetAbsent
    <2>2. cell' \in [Names -> Cell] /\ gfuse' \in [Names -> 0..2] /\ nurseryArmed' \subseteq Names
      <3>1. BlowBindingFuse(c) \in Cell /\ BlowGnameFuse(n, g) \in 0..2 /\ v \in Content
        BY CellOps, FuseOps DEF Cell, Content, BlowBindingFuse, Blown
      <3> QED
        BY <2>1, <3>1, SettleType
    <2>3. bindEpoch' \in 0..(EpochMod - 1)
      BY <1>2, <1>5 DEF SetAbsent
    <2> QED
      BY <1>3, <1>5, <2>2, <2>3 DEF Cell, Content, SetAbsent, Reshape, TypeOK, modeVars, Values
  <1>6. CASE SetIgnored(n, v, c, g, k, r)
    <2>1. Settle(n, c, g, slot[n], v, r)
      BY <1>6 DEF SetIgnored
    <2>2. cell' \in [Names -> Cell] /\ gfuse' \in [Names -> 0..2] /\ nurseryArmed' \subseteq Names
      BY <1>3, <2>1, SettleType
    <2> QED
      BY <1>2, <1>3, <1>6, <2>2 DEF Cell, Content, SetIgnored, TypeOK, modeVars, layoutVars
  <1>7. CASE SetRefused(n, v, c, g, k)
    <2>1. Settle(n, c, g, slot[n], v, FALSE)
      BY <1>7 DEF SetRefused
    <2>2. cell' \in [Names -> Cell] /\ gfuse' \in [Names -> 0..2] /\ nurseryArmed' \subseteq Names
      BY <1>3, <2>1, SettleType
    <2> QED
      BY <1>2, <1>3, <1>7, <2>2 DEF Cell, Content, SetRefused, TypeOK, modeVars, layoutVars
  <1> QED
    BY <1>4, <1>5, <1>6, <1>7 DEF GlobalSet

\* The initial states have the types.
LEMMA TypeInit == Init => TypeOK
  <1> SUFFICES ASSUME Init PROVE TypeOK
    OBVIOUS
  <1>1. cell \in [Names -> Cell] /\ frames \in Seq([name : Names, val : Values])
    BY EmptySeq DEF Init, Cell, Unarmed
  <1>2. /\ flips \in [Names -> 0..(FlipLimit + 1)]
        /\ bindEpoch \in 0..(EpochMod - 1)
        /\ gfuse \in [Names -> 0..2]
    BY BoundsAssumption DEF Init
  <1>3. row \in [Names -> [entry : {"none", "ro", "rw"}, shape : Shapes \cup {NoShape}]]
    BY DEF Init, NoRow
  <1> QED
    BY <1>1, <1>2, <1>3 DEF Init, TypeOK, Cell

\* Every step keeps the types.
LEMMA TypeStep == TypeOK /\ [Next]_vars => TypeOK'
  <1> SUFFICES ASSUME TypeOK, [Next]_vars PROVE TypeOK'
    OBVIOUS
  <1>0. /\ \A n \in Names : cell[n] \in Cell /\ gfuse[n] \in 0..2 /\ slot[n] \in Content
        /\ Bump(1) \in 0..(EpochMod - 1)
        /\ 0 \in 0..1 /\ 1 \in 0..1
    BY BumpOk DEF Cell, Content, TypeOK
  <1>1. ASSUME NEW n \in Names, NEW v \in Values, InterpretedSet(n, v) PROVE TypeOK'
    BY <1>0, <1>1, GlobalSetType, Zenon DEF InterpretedSet
  <1>2. ASSUME NEW n \in Names, NEW s \in Values \cup {Accessor}, NEW w \in BOOLEAN,
               DefineProperty(n, s, w)
        PROVE  TypeOK'
    <2>1. BlowBindingFuse(cell[n]) \in Cell /\ BlowGnameFuse(n, gfuse[n]) \in 0..2
      BY <1>0, CellOps, FuseOps DEF Cell, Content, BlowBindingFuse, Blown, BlowGnameFuse
    <2> QED
      BY <1>0, <1>2, <2>1 DEF Cell, Content, DefineProperty, Reshape, TypeOK, modeVars
  <1>3. ASSUME NEW n \in Names, DeleteProperty(n) PROVE TypeOK'
    <2>1. BlowBindingFuse(cell[n]) \in Cell /\ BlowGnameFuse(n, gfuse[n]) \in 0..2
      BY <1>0 DEF Cell, Content, BlowBindingFuse, Blown, BlowGnameFuse
    <2> QED
      BY <1>0, <1>3, <2>1 DEF Cell, Content, DeleteProperty, Reshape, TypeOK, modeVars
  <1>4. CASE ReshapeOther
    BY <1>4 DEF Cell, Content, ReshapeOther, Reshape, TypeOK, modeVars, fuseVars
  <1>5. ASSUME NEW n \in Names, NEW v \in Values, AddLexical(n, v) PROVE TypeOK'
    <2>1. BlowBindingFuse(cell[n]) \in Cell /\ BlowGnameFuse(n, gfuse[n]) \in 0..2
      BY <1>0 DEF Cell, Content, BlowBindingFuse, Blown, BlowGnameFuse
    <2> QED
      BY <1>0, <1>5, <2>1 DEF Cell, Content, AddLexical, NoRow, TypeOK, modeVars, layoutVars
  <1>6. ASSUME NEW n \in Names, NEW v \in Values, InterpretedSetLexical(n, v) PROVE TypeOK'
    BY <1>6 DEF Cell, Content, InterpretedSetLexical, TypeOK, modeVars, layoutVars, fuseVars
  <1>7. ASSUME NEW n \in Names, GetGName(n) \/ BindGName(n) \/ BindingValueHelper(n)
        PROVE  TypeOK'
    <2> DEFINE r == NightResolveGlobalSlotGuarded(n)
               d == IF r # NoRow THEN MaybeArmBindingFuse(n, cell[n], slot[n]) ELSE cell[n]
    <2>1. ResolveGlobalSlot(n)
      BY <1>7 DEF GetGName, BindGName, BindingValueHelper
    <2>2. d \in Cell
      BY <1>0 DEF Cell, Content, MaybeArmBindingFuse, Armed
    <2>3. r \in [entry : {"none", "ro", "rw"}, shape : Shapes \cup {NoShape}]
      BY DEF Cell, Content, NightResolveGlobalSlotGuarded, NoRow, TypeOK
    <2>4. NurseryPush(n, cell[n], d, young) \subseteq Names
      BY DEF NurseryPush
    <2> HIDE DEF d, r
    <2>5. /\ row' = [row EXCEPT ![n] = r]
          /\ cell' = [cell EXCEPT ![n] = d]
          /\ nurseryArmed' = nurseryArmed \cup NurseryPush(n, cell[n], d, young)
      BY <2>1 DEF ResolveGlobalSlot, r, d
    <2> QED
      BY <2>1, <2>2, <2>3, <2>4, <2>5 DEF Cell, Content, ResolveGlobalSlot, TypeOK, modeVars, heapVars
  <1>8. ASSUME NEW n \in Names, NEW v \in Values, SetGNameInline(n, v) PROVE TypeOK'
    <2> DEFINE hit == RowHit(n) /\ row[n].entry = "rw"
               r == IF hit THEN row[n] ELSE NightResolveGlobalSlotGuarded(n)
               c == IF hit THEN cell[n] ELSE MaybeArmBindingFuse(n, cell[n], slot[n])
               d == WriteThrough(n, c, v)
               push == NurseryPush(n, cell[n], c, young)
                       \cup (IF v \in Objs /\ d # c THEN NurseryPush(n, Unarmed, d, young) ELSE {})
    <2>1. c \in Cell
      BY <1>0 DEF Cell, Content, MaybeArmBindingFuse, Armed
    <2>2. d \in Cell
      BY <2>1 DEF Cell, Content, WriteThrough, MaybeArmBindingFuse, Armed, Blown, Unarmed
    <2>3. r \in [entry : {"none", "ro", "rw"}, shape : Shapes \cup {NoShape}]
      BY DEF Cell, Content, NightResolveGlobalSlotGuarded, NoRow, TypeOK
    <2>4. push \subseteq Names
      BY DEF NurseryPush
    <2>5. /\ row' = [row EXCEPT ![n] = r]
          /\ cell' = [cell EXCEPT ![n] = d]
          /\ nurseryArmed' = nurseryArmed \cup push
      BY <1>8 DEF SetGNameInline
    <2>6. flips' \in [Names -> 0..(FlipLimit + 1)]
      BY <1>8, BoundsAssumption DEF Cell, Content, SetGNameInline, TypeOK
    <2>7. gfuse' \in [Names -> 0..2]
      BY <1>0, <1>8 DEF Cell, Content, SetGNameInline, TypeOK
    <2>8. slot' \in [Names -> Content]
      BY <1>8 DEF Cell, Content, SetGNameInline, TypeOK
    <2> HIDE DEF hit, r, c, d, push
    <2> QED
      BY <1>0, <1>8, <2>2, <2>3, <2>4, <2>5, <2>6, <2>7, <2>8
         DEF Cell, Content, SetGNameInline, TypeOK, layoutVars, modeVars
  <1>9. ASSUME NEW n \in Names, NEW v \in Values, SetHandshake(n, v) PROVE TypeOK'
    <2>1. /\ MaybeBlowBindingFuse(cell[n], v) \in Cell
          /\ MaybeGnameFuseBlow(n, gfuse[n], v) \in 0..2
      BY <1>0 DEF Cell, Content, MaybeBlowBindingFuse, MaybeGnameFuseBlow, Unarmed
    <2> QED
      BY <1>0, <1>9, <2>1, GlobalSetType, Zenon DEF SetHandshake
  <1>10. ASSUME NEW n \in Names, NEW v \in Values, SetCallsSetter(n, v) PROVE TypeOK'
    <2>1. /\ MaybeBlowBindingFuse(cell[n], v) \in Cell
          /\ MaybeGnameFuseBlow(n, gfuse[n], v) \in 0..2
      BY <1>0 DEF Cell, Content, MaybeBlowBindingFuse, MaybeGnameFuseBlow, Unarmed
    <2>2. frames' \in Seq([name : Names, val : Values])
      BY <1>10 DEF Cell, Content, SetCallsSetter, TypeOK
    <2> QED
      BY <1>0, <1>10, <2>1, <2>2 DEF Cell, Content, SetCallsSetter, TypeOK, heapVars, modeVars
  <1>11. CASE SetterReturns
    <2> DEFINE f == frames[Len(frames)]
    <2>0. frames # <<>> /\ frames \in Seq([name : Names, val : Values])
          /\ frames' = SubSeq(frames, 1, Len(frames) - 1)
      BY <1>11 DEF SetterReturns, TypeOK
    <2>1. f \in [name : Names, val : Values]
      BY <2>0, FrontType
    <2>2. Settle(f.name, cell[f.name], gfuse[f.name], slot[f.name], f.val, TRUE)
      BY <1>11 DEF SetterReturns
    <2>3. cell' \in [Names -> Cell] /\ gfuse' \in [Names -> 0..2] /\ nurseryArmed' \subseteq Names
      <3> HIDE DEF f
      <3>1. f.name \in Names
        BY <2>1
      <3> QED
        BY <1>0, <2>2, <3>1, SettleType
    <2>4. frames' \in Seq([name : Names, val : Values])
      BY <2>0, FrontType
    <2> QED
      BY <1>11, <2>3, <2>4 DEF Cell, Content, SetterReturns, TypeOK, heapVars, modeVars
  <1>12. CASE SetterThrows
    <2>1. frames # <<>> /\ frames \in Seq([name : Names, val : Values])
          /\ frames' = SubSeq(frames, 1, Len(frames) - 1)
      BY <1>12 DEF SetterThrows, TypeOK
    <2>2. frames' \in Seq([name : Names, val : Values])
      BY <2>1, FrontType
    <2> QED
      BY <1>12, <2>2 DEF SetterThrows, TypeOK, heapVars, modeVars, fuseVars
  <1>13. ASSUME NEW n \in Names, NEW v \in Values, SetNameLexical(n, v) PROVE TypeOK'
    <2> DEFINE c == MaybeBlowBindingFuse(cell[n], v)
               g == MaybeGnameFuseBlow(n, gfuse[n], v)
    <2>1. c \in Cell /\ g \in 0..2
      BY <1>0 DEF Cell, Content, MaybeBlowBindingFuse, MaybeGnameFuseBlow, Unarmed
    <2>2. \/ Settle(n, c, g, slot[n], v, TRUE)
          \/ Settle(n, c, g, slot[n], v, FALSE)
      BY <1>13 DEF SetNameLexical
    <2> HIDE DEF c, g
    <2>3. cell' \in [Names -> Cell] /\ gfuse' \in [Names -> 0..2] /\ nurseryArmed' \subseteq Names
      BY <1>0, <2>1, <2>2, SettleType
    <2>4. lex' \in [Names -> Values \cup {NoValue}]
      BY <1>13 DEF Cell, Content, SetNameLexical, TypeOK
    <2> QED
      BY <1>0, <1>13, <2>3, <2>4 DEF Cell, Content, SetNameLexical, TypeOK, layoutVars, modeVars
  <1>14. ASSUME NEW n \in Names, NEW v \in Values, SetPropIcMiss(n, v) PROVE TypeOK'
    <2>1. MaybeBlowBindingFuse(cell[n], v) \in Cell
      BY <1>0 DEF Cell, Content, MaybeBlowBindingFuse, Unarmed
    <2> QED
      BY <1>0, <1>14, <2>1, GlobalSetType, Zenon DEF SetPropIcMiss
  <1>15. ASSUME NEW n \in Names, NEW v \in Values, SetElement(n, v) PROVE TypeOK'
    <2>1. BlowBindingFuse(cell[n]) \in Cell /\ BlowGnameFuse(n, gfuse[n]) \in 0..2
      BY <1>0 DEF Cell, Content, BlowBindingFuse, Blown, BlowGnameFuse
    <2> QED
      BY <1>0, <1>15, <2>1, GlobalSetType, Zenon DEF SetElement
  <1>16. ASSUME NEW n \in Names, DeleteRefused(n) \/ BlowKey(n) PROVE TypeOK'
    <2>1. BlowBindingFuse(cell[n]) \in Cell /\ BlowGnameFuse(n, gfuse[n]) \in 0..2
      BY <1>0 DEF Cell, Content, BlowBindingFuse, Blown, BlowGnameFuse
    <2> QED
      <3>1. /\ cell' = [cell EXCEPT ![n] = BlowBindingFuse(cell[n])]
            /\ gfuse' = [gfuse EXCEPT ![n] = BlowGnameFuse(n, gfuse[n])]
            /\ bindEpoch' \in {bindEpoch, Bump(1)}
            /\ UNCHANGED <<heapVars, row, nurseryArmed, flips, armingAllowed, modeVars, frames>>
        BY <1>16 DEF DeleteRefused, BlowKey
      <3> QED
        BY <1>0, <2>1, <3>1 DEF Cell, TypeOK, heapVars, modeVars
  <1>17. CASE BlowAll
    <2>1. \A n \in Names : BlowBindingFuse(cell[n]) \in Cell /\ BlowGnameFuse(n, gfuse[n]) \in 0..2
      BY <1>0 DEF Cell, Content, BlowBindingFuse, Blown, BlowGnameFuse
    <2> QED
      BY <1>0, <1>17, <2>1 DEF Cell, Content, BlowAll, TypeOK, heapVars, modeVars
  <1>18. ASSUME NEW o \in Objs, Allocate(o) PROVE TypeOK'
    BY <1>18 DEF Cell, Content, Allocate, TypeOK, layoutVars, fuseVars, modeVars
  <1>19. ASSUME NEW keep \in SUBSET young, MinorGC(keep) PROVE TypeOK'
    <2>1. \A n \in Names : NurseryEnd(n, Moved(cell[n], young)) \in Cell
      BY <1>0 DEF Cell, Content, NurseryEnd, Moved, MaybeArmBindingFuse, Armed, Unarmed
    <2>2. cell' \in [Names -> Cell] /\ nurseryArmed' \subseteq Names /\ young' \subseteq Objs
      BY <1>19, <2>1 DEF Cell, Content, MinorGC, TypeOK
    <2> QED
      BY <1>19, <2>2 DEF Cell, Content, MinorGC, TypeOK, layoutVars, modeVars
  <1>20. CASE GCSweepSlice
    BY <1>20 DEF GCSweepSlice, TypeOK, modeVars, fuseVars
  <1>24. CASE GCCycleBegin \/ GCCompactSlice \/ GCCycleEnd
    <2>1. PurgeMovableCaches({}) \/ PurgeMovableCaches(Objs \ young)
      BY <1>24 DEF GCCycleBegin, GCCompactSlice, GCCycleEnd
    <2>2. /\ row' \in [Names -> [entry : {"none", "ro", "rw"}, shape : Shapes \cup {NoShape}]]
          /\ cell' \in [Names -> Cell]
          /\ UNCHANGED <<gfuse, nurseryArmed, flips, armingAllowed, bindEpoch, modeVars, frames>>
      BY <2>1 DEF PurgeMovableCaches, PurgedRow, PurgedCell, NoRow, Unarmed, Cell
    <2> QED
      BY <1>24, <2>2 DEF GCCycleBegin, GCCompactSlice, GCCycleEnd, TypeOK, modeVars, Cell
  <1>21. ASSUME NEW b \in BOOLEAN, Activate(b) PROVE TypeOK'
    <2>1. \A n \in Names : MaybeGnameFuseArmAfterStore(n, gfuse[n], Literal[n], slot[n]) \in 0..2
      BY <1>0 DEF MaybeGnameFuseArmAfterStore
    <2> QED
      BY <1>0, <1>21, <2>1 DEF Cell, Content, Activate, TypeOK, heapVars
  <1>22. CASE ActivateInprocess
    <2>1. \A n \in Names : BlowBindingFuse(cell[n]) \in Cell
      BY <1>0 DEF Cell, Content, BlowBindingFuse, Blown
    <2> QED
      <3>1. /\ cell' = [n \in Names |-> BlowBindingFuse(cell[n])]
            /\ gfuse' = [n \in Names |-> IF Literal[n] # NoLiteral THEN 2 ELSE gfuse[n]]
            /\ shadowedAtInit' \subseteq Names /\ active' = TRUE /\ armingAllowed' = FALSE
            /\ bindEpoch' = Bump(1)
            /\ UNCHANGED <<heapVars, row, nurseryArmed, flips, frames>>
        BY <1>22 DEF ActivateInprocess
      <3>2. gfuse' \in [Names -> 0..2] /\ cell' \in [Names -> Cell]
        BY <1>0, <2>1, <3>1
      <3>3. heapVars' = heapVars /\ row' = row /\ nurseryArmed' = nurseryArmed
            /\ flips' = flips /\ frames' = frames
        BY <3>1
      <3>4. armingAllowed' \in BOOLEAN /\ active' \in BOOLEAN
        BY <3>1, Zenon
      <3> QED
        BY <1>0, <3>1, <3>2, <3>3, <3>4 DEF Cell, TypeOK, heapVars
  <1>23. CASE UNCHANGED vars
    BY <1>23 DEF Cell, Content, vars, TypeOK, heapVars, fuseVars, modeVars
  <1> QED
    BY <1>1, <1>2, <1>3, <1>4, <1>5, <1>6, <1>7, <1>8, <1>9, <1>10, <1>11, <1>12, <1>13,
       <1>14, <1>15, <1>16, <1>17, <1>18, <1>19, <1>20, <1>21, <1>22, <1>23, <1>24
       DEF Next, NextInterpreted, NextCompiled, NextGC, NextActivate

\* The variables keep their types: in particular the epoch keeps its width.
THEOREM TypeCorrect == Spec => []TypeOK
  BY TypeInit, TypeStep, PTL DEF Spec

-----------------------------------------------------------------------------
(***************************************************************************)
(* The inductive invariant.                                                *)
(*                                                                         *)
(* None of the safety invariants is inductive alone.  An armed cell stays  *)
(* right through a minor GC only because every armed nursery value is      *)
(* listed; a row cannot hit at a reused shape address only because the     *)
(* rows that survive the start of a collection name shapes that it does    *)
(* not free; a literal fuse cannot arm under a lexical added after the     *)
(* install only because adding it blew the fuse for good.                  *)
(***************************************************************************)

\* An armed cell c of n is right about an own property holding s.
GoodCell(n, c, s, y, listed) ==
    c.word = 1 =>
        /\ c.bits = s
        /\ s \in Values
        /\ s \in y => n \in listed
        /\ Expected[n] # NoBody /\ s \in Objs => BodyOf(s) = Expected[n]

\* An armed literal fuse of n is right about an own property holding s.
GoodFuse(n, g, s) == g = 1 => Literal[n] # NoLiteral /\ s = Literal[n]

CellInv == \A n \in Names : GoodCell(n, cell[n], slot[n], young, nurseryArmed)

FuseInv ==
    \A n \in Names :
        /\ GoodFuse(n, gfuse[n], slot[n])
        /\ ~active => gfuse[n] = 0
        /\ active /\ lex[n] # NoValue /\ Literal[n] # NoLiteral /\ n \notin shadowedAtInit
             => gfuse[n] = 2

RowInv ==
    /\ shape \in heapShapes \ white
    /\ white \subseteq heapShapes
    /\ \A n \in Names : row[n].entry # "none" =>
        /\ active
        /\ row[n].shape \in heapShapes \ white
        /\ row[n].shape = shape =>
             lex[n] = NoValue /\ IsData(n) /\ (row[n].entry = "rw" <=> n \in writable)

ModeInv ==
    /\ frames # <<>> => active
    /\ ~armingAllowed =>
        active /\ \A n \in Names : cell[n].word # 1 /\ (Literal[n] # NoLiteral => gfuse[n] = 2)

IInv == TypeOK /\ CellInv /\ FuseInv /\ RowInv /\ ModeInv

\* The checked invariants follow from the inductive one.
LEMMA IInvImplies ==
    IInv => /\ ReadIsCurrent /\ RowHitIsValid /\ ArmedCells
            /\ LiteralFuseIsSound /\ ArmedObjectIsPredicted /\ DistrustIsFinal
  <1> SUFFICES ASSUME IInv
      PROVE /\ ReadIsCurrent /\ RowHitIsValid /\ ArmedCells
            /\ LiteralFuseIsSound /\ ArmedObjectIsPredicted /\ DistrustIsFinal
    OBVIOUS
  <1> USE DEF IInv
  <1>1. ArmedCells /\ ArmedObjectIsPredicted
    BY DEF CellInv, GoodCell, ArmedCells, ArmedCellMirrorsSlot, NurseryCellIsListed,
           ArmedObjectIsPredicted, FuseCallHits
  <1>2. RowHitIsValid
    BY DEF RowInv, RowHitIsValid, RowHit
  <1>3. LiteralFuseIsSound
    BY DEF FuseInv, GoodFuse, LiteralFuseIsSound
  <1>4. DistrustIsFinal
    <2>1. \A n \in Names : (Literal[n] # NoLiteral => gfuse[n] = 2) => gfuse[n] # 1
      BY DEF FuseInv, GoodFuse
    <2> QED
      BY <2>1, Zenon DEF ModeInv, DistrustIsFinal
  <1>5. ReadIsCurrent
    BY <1>1, <1>2, <1>3 DEF ReadIsCurrent, CompiledRead, GuardedRead, BindingValue,
       ArmedCells, ArmedCellMirrorsSlot, RowHitIsValid, LiteralFuseIsSound
  <1> QED
    BY <1>1, <1>2, <1>3, <1>4, <1>5

\* The initial states satisfy it: nothing is armed and no row is filled.
LEMMA InitIInv == Init => IInv
  <1> SUFFICES ASSUME Init PROVE IInv
    OBVIOUS
  <1>1. TypeOK
    BY TypeInit
  <1>2. CellInv /\ FuseInv /\ RowInv /\ ModeInv
    BY DEF Init, CellInv, GoodCell, FuseInv, GoodFuse, RowInv, ModeInv, Unarmed, NoRow
  <1> QED
    BY <1>1, <1>2 DEF IInv

\* The arm half of a store: right before, right after.
LEMMA SettleGood ==
    ASSUME TypeOK, NEW n \in Names, NEW c \in Cell, NEW g \in 0..2, NEW s \in Content,
           NEW v, NEW r \in BOOLEAN,
           GoodCell(n, c, s, young, nurseryArmed), GoodFuse(n, g, s),
           Settle(n, c, g, s, v, r)
    PROVE  /\ GoodCell(n, cell'[n], s, young, nurseryArmed')
           /\ GoodFuse(n, gfuse'[n], s)
           /\ nurseryArmed \subseteq nurseryArmed'
           /\ \A m \in Names : m # n => cell'[m] = cell[m] /\ gfuse'[m] = gfuse[m]
           /\ gfuse'[n] # g => r /\ g = 0 /\ Literal[n] # NoLiteral
           /\ ~armingAllowed /\ c.word # 1 => cell'[n].word # 1
  <1> DEFINE d == IF r THEN MaybeArmBindingFuse(n, c, s) ELSE c
             h == IF r THEN MaybeGnameFuseArmAfterStore(n, g, v, s) ELSE g
  <1>1. /\ cell' = [cell EXCEPT ![n] = d]
        /\ gfuse' = [gfuse EXCEPT ![n] = h]
        /\ nurseryArmed' = nurseryArmed \cup NurseryPush(n, c, d, young)
    BY DEF Settle
  <1>2. d.word = 1 => \/ d = c /\ c.word = 1
                      \/ /\ c.word = 0 /\ d.bits = s /\ s \in Values /\ armingAllowed
                         /\ Expected[n] # NoBody => BodyOf(s) = Expected[n]
    BY DEF MaybeArmBindingFuse, Armed, Cell
  <1>3. GoodFuse(n, h, s) /\ (h # g => r /\ g = 0 /\ Literal[n] # NoLiteral)
    BY DEF MaybeGnameFuseArmAfterStore, GoodFuse
  <1>4. cell'[n] = d /\ gfuse'[n] = h
        /\ \A m \in Names : m # n => cell'[m] = cell[m] /\ gfuse'[m] = gfuse[m]
    BY <1>1 DEF TypeOK
  <1> HIDE DEF d, h
  <1>5. GoodCell(n, d, s, young, nurseryArmed')
    BY <1>1, <1>2 DEF GoodCell, NurseryPush
  <1> QED
    BY <1>1, <1>2, <1>3, <1>4, <1>5

\* Every outcome of a store to the global keeps the inductive invariant, whatever
\* the blows before it made of the name's cell and fuse: they only disarm.
LEMMA GlobalSetIInv ==
    ASSUME IInv, NEW n \in Names, NEW v \in Values, NEW c \in Cell, NEW g \in 0..2,
           NEW k \in 0..1, NEW r \in BOOLEAN,
           c = cell[n] \/ c.word # 1,
           g = gfuse[n] \/ (g = 2 /\ active),
           r => active,
           GlobalSet(n, v, c, g, k, r)
    PROVE  IInv'
  <1> DEFINE s == slot'[n]
  <1>1. TypeOK'
    BY GlobalSetType DEF IInv
  <1>2. UNCHANGED <<lex, young, row, flips, armingAllowed, active, shadowedAtInit, frames>>
    BY DEF GlobalSet, modeVars
  <1>3. /\ GoodCell(n, c, slot[n], young, nurseryArmed)
        /\ GoodFuse(n, g, slot[n])
        /\ slot[n] \in Content
    BY DEF IInv, CellInv, FuseInv, GoodCell, GoodFuse, TypeOK, Content
  <1>4. \E c1 \in Cell, g1 \in 0..2, r1 \in BOOLEAN :
            /\ Settle(n, c1, g1, s, v, r1) /\ (r1 => r)
            /\ GoodCell(n, c1, s, young, nurseryArmed)
            /\ GoodFuse(n, g1, s)
            /\ c1 = c \/ c1.word # 1
            /\ g1 = g \/ (g1 = 2 /\ active)
    <2>1. CASE SetExisting(n, v, c, g, k, r)
      <3>1. s = v
        BY <2>1 DEF SetExisting, IInv, TypeOK
      <3>2. MaybeBlowBindingFuse(c, v) \in Cell /\ MaybeGnameFuseBlow(n, g, v) \in 0..2
        BY DEF MaybeBlowBindingFuse, Cell, Unarmed, MaybeGnameFuseBlow
      <3>3. /\ MaybeBlowBindingFuse(c, v) = c \/ MaybeBlowBindingFuse(c, v).word # 1
            /\ MaybeGnameFuseBlow(n, g, v) = g \/ (MaybeGnameFuseBlow(n, g, v) = 2 /\ active)
        BY DEF MaybeBlowBindingFuse, Unarmed, MaybeGnameFuseBlow
      <3>4. GoodCell(n, MaybeBlowBindingFuse(c, v), v, young, nurseryArmed)
        BY <1>3 DEF GoodCell, MaybeBlowBindingFuse, Unarmed
      <3>5. GoodFuse(n, MaybeGnameFuseBlow(n, g, v), v)
        BY <1>3 DEF GoodFuse, MaybeGnameFuseBlow, IInv, FuseInv
      <3>6. Settle(n, MaybeBlowBindingFuse(c, v), MaybeGnameFuseBlow(n, g, v), v, v, r)
        BY <2>1 DEF SetExisting
      <3> QED
        BY <3>1, <3>2, <3>3, <3>4, <3>5, <3>6
    <2>2. CASE SetAbsent(n, v, c, g, k, r)
      <3>1. s = v /\ slot[n] = NoValue
        BY <2>2 DEF SetAbsent, IInv, TypeOK
      <3>2. c.word # 1 /\ g # 1
        BY <1>3, <3>1, ValuesAssumption, TablesAssumption DEF GoodCell, GoodFuse, Values
      <3>3. /\ BlowBindingFuse(c) = c
            /\ BlowGnameFuse(n, g) \in 0..2 /\ BlowGnameFuse(n, g) # 1
            /\ BlowGnameFuse(n, g) = g \/ (BlowGnameFuse(n, g) = 2 /\ active)
        BY <3>2 DEF BlowBindingFuse, BlowGnameFuse
      <3>4. Settle(n, c, g, v, v, r) \/ Settle(n, c, BlowGnameFuse(n, g), v, v, r)
        BY <2>2, <3>3 DEF SetAbsent
      <3>5. /\ GoodCell(n, c, v, young, nurseryArmed)
            /\ GoodFuse(n, g, v) /\ GoodFuse(n, BlowGnameFuse(n, g), v)
        BY <3>2, <3>3 DEF GoodCell, GoodFuse
      <3> QED
        BY <3>1, <3>3, <3>4, <3>5
    <2>3. CASE SetIgnored(n, v, c, g, k, r)
      BY <1>3, <2>3 DEF SetIgnored
    <2>4. CASE SetRefused(n, v, c, g, k)
      <3>1. s = slot[n] /\ Settle(n, c, g, slot[n], v, FALSE)
        BY <2>4 DEF SetRefused
      <3>2. FALSE \in BOOLEAN
        OBVIOUS
      <3> QED
        BY <1>3, <3>1, <3>2, Zenon
    <2> QED
      BY <2>1, <2>2, <2>3, <2>4 DEF GlobalSet
  <1>5. /\ \A m \in Names : m # n => slot'[m] = slot[m] /\ (m \in writable' <=> m \in writable)
        /\ s \in Content
        /\ white' = white
        /\ \/ /\ UNCHANGED <<shape, heapShapes, writable>>
              /\ IsData(n) => IsData(n)'
           \/ shape' \notin heapShapes /\ shape' \in Shapes /\ heapShapes' = heapShapes \cup {shape'}
    BY <1>3 DEF GlobalSet, SetExisting, SetAbsent, SetIgnored, SetRefused, Reshape, layoutVars,
                IInv, TypeOK, IsData, Content
  <1>6. PICK c1 \in Cell, g1 \in 0..2, r1 \in BOOLEAN :
            /\ Settle(n, c1, g1, s, v, r1) /\ (r1 => r)
            /\ GoodCell(n, c1, s, young, nurseryArmed)
            /\ GoodFuse(n, g1, s)
            /\ c1 = c \/ c1.word # 1
            /\ g1 = g \/ (g1 = 2 /\ active)
    BY <1>4
  <1> HIDE DEF s
  <1>7. /\ GoodCell(n, cell'[n], s, young, nurseryArmed')
        /\ GoodFuse(n, gfuse'[n], s)
        /\ nurseryArmed \subseteq nurseryArmed'
        /\ \A m \in Names : m # n => cell'[m] = cell[m] /\ gfuse'[m] = gfuse[m]
        /\ gfuse'[n] # g1 => r /\ g1 = 0 /\ Literal[n] # NoLiteral
        /\ ~armingAllowed /\ c1.word # 1 => cell'[n].word # 1
    <2>1. TypeOK
      BY DEF IInv
    <2>2. gfuse'[n] # g1 => r1 /\ g1 = 0 /\ Literal[n] # NoLiteral
      BY <1>5, <1>6, <2>1, SettleGood
    <2> QED
      BY <1>5, <1>6, <2>1, <2>2, SettleGood
  <1>8. CellInv'
    BY <1>2, <1>5, <1>7 DEF IInv, CellInv, GoodCell, s
  <1>9. FuseInv'
    BY <1>2, <1>5, <1>6, <1>7 DEF IInv, FuseInv, GoodFuse, s
  <1>10. RowInv'
    BY <1>2, <1>5 DEF IInv, RowInv, IsData
  <1>11. ModeInv'
    BY <1>2, <1>6, <1>7 DEF IInv, ModeInv
  <1> QED
    BY <1>1, <1>8, <1>9, <1>10, <1>11 DEF IInv

\* Blowing only disarms.
LEMMA BlowDisarms ==
    ASSUME NEW n, NEW c, NEW g
    PROVE  /\ BlowBindingFuse(c) = c \/ BlowBindingFuse(c).word = 2
           /\ BlowBindingFuse(c).word # 1
           /\ BlowGnameFuse(n, g) = g \/ (BlowGnameFuse(n, g) = 2 /\ active)
           /\ active /\ Literal[n] # NoLiteral => BlowGnameFuse(n, g) = 2
  BY DEF BlowBindingFuse, Blown, BlowGnameFuse

\* Every step keeps the inductive invariant.
LEMMA IInvStep == IInv /\ [Next]_vars => IInv'
  <1> SUFFICES ASSUME IInv, [Next]_vars PROVE IInv'
    OBVIOUS
  <1>0. /\ TypeOK /\ TypeOK'
        /\ \A n \in Names : cell[n] \in Cell /\ gfuse[n] \in 0..2 /\ slot[n] \in Content
        /\ 0 \in 0..1 /\ 1 \in 0..1
    BY TypeStep DEF IInv, TypeOK, Cell, Content
  <1>1. ASSUME NEW n \in Names, NEW v \in Values, InterpretedSet(n, v) PROVE IInv'
    BY <1>0, <1>1, GlobalSetIInv, Zenon DEF InterpretedSet
  <1>2. ASSUME NEW n \in Names, NEW s \in Values \cup {Accessor}, NEW w \in BOOLEAN,
               DefineProperty(n, s, w)
        PROVE  IInv'
    <2>1. /\ slot' = [slot EXCEPT ![n] = s]
          /\ cell' = [cell EXCEPT ![n] = BlowBindingFuse(cell[n])]
          /\ gfuse' = [gfuse EXCEPT ![n] = BlowGnameFuse(n, gfuse[n])]
          /\ UNCHANGED <<lex, young, row, nurseryArmed, armingAllowed, active, shadowedAtInit, frames>>
      BY <1>2 DEF DefineProperty, modeVars
    <2>2. CellInv'
      BY <1>0, <2>1, BlowDisarms DEF IInv, CellInv, GoodCell, TypeOK
    <2>3. FuseInv'
      BY <1>0, <2>1, BlowDisarms DEF IInv, FuseInv, GoodFuse, TypeOK
    <2>4. RowInv'
      BY <1>0, <1>2, <2>1 DEF DefineProperty, Reshape, IInv, RowInv, IsData, TypeOK
    <2>5. ModeInv'
      BY <1>0, <2>1, BlowDisarms DEF IInv, ModeInv, TypeOK
    <2> QED
      BY <1>0, <2>2, <2>3, <2>4, <2>5 DEF IInv
  <1>3. ASSUME NEW n \in Names, DeleteProperty(n) PROVE IInv'
    <2>1. /\ slot' = [slot EXCEPT ![n] = NoValue]
          /\ cell' = [cell EXCEPT ![n] = BlowBindingFuse(cell[n])]
          /\ gfuse' = [gfuse EXCEPT ![n] = BlowGnameFuse(n, gfuse[n])]
          /\ UNCHANGED <<lex, young, row, nurseryArmed, armingAllowed, active, shadowedAtInit, frames>>
      BY <1>3 DEF DeleteProperty, modeVars
    <2>2. CellInv'
      BY <1>0, <2>1, BlowDisarms DEF IInv, CellInv, GoodCell, TypeOK
    <2>3. FuseInv'
      BY <1>0, <2>1, BlowDisarms DEF IInv, FuseInv, GoodFuse, TypeOK
    <2>4. RowInv'
      BY <1>0, <1>3, <2>1 DEF DeleteProperty, Reshape, IInv, RowInv, IsData, TypeOK
    <2>5. ModeInv'
      BY <1>0, <2>1, BlowDisarms DEF IInv, ModeInv, TypeOK
    <2> QED
      BY <1>0, <2>2, <2>3, <2>4, <2>5 DEF IInv
  <1>4. CASE ReshapeOther
    <2>1. UNCHANGED <<slot, writable, lex, young, row, cell, gfuse, nurseryArmed, armingAllowed,
                      active, shadowedAtInit, frames>>
      BY <1>4 DEF ReshapeOther, fuseVars, modeVars
    <2>2. RowInv'
      BY <1>4, <2>1 DEF ReshapeOther, Reshape, IInv, RowInv, IsData
    <2> QED
      BY <1>0, <2>1, <2>2 DEF IInv, CellInv, FuseInv, ModeInv
  <1>5. ASSUME NEW n \in Names, NEW v \in Values, AddLexical(n, v) PROVE IInv'
    <2>1. /\ lex' = [lex EXCEPT ![n] = v]
          /\ row' = IF active THEN [row EXCEPT ![n] = NoRow] ELSE row
          /\ cell' = [cell EXCEPT ![n] = BlowBindingFuse(cell[n])]
          /\ gfuse' = [gfuse EXCEPT ![n] = BlowGnameFuse(n, gfuse[n])]
          /\ UNCHANGED <<slot, writable, shape, heapShapes, white, young, nurseryArmed,
                         armingAllowed, active, shadowedAtInit, frames>>
      BY <1>5 DEF AddLexical, modeVars, layoutVars
    <2>2. CellInv'
      BY <1>0, <2>1, BlowDisarms DEF IInv, CellInv, GoodCell, TypeOK
    <2>3. FuseInv'
      BY <1>0, <2>1, BlowDisarms DEF IInv, FuseInv, GoodFuse, TypeOK
    <2>4. RowInv'
      BY <1>0, <2>1 DEF IInv, RowInv, IsData, TypeOK, NoRow
    <2>5. ModeInv'
      BY <1>0, <2>1, BlowDisarms DEF IInv, ModeInv, TypeOK
    <2> QED
      BY <1>0, <2>2, <2>3, <2>4, <2>5 DEF IInv
  <1>6. ASSUME NEW n \in Names, NEW v \in Values, InterpretedSetLexical(n, v) PROVE IInv'
    <2>1. /\ lex[n] # NoValue /\ lex' = [lex EXCEPT ![n] = v] /\ v # NoValue
          /\ UNCHANGED <<slot, writable, shape, heapShapes, white, young, row, cell, gfuse,
                         nurseryArmed, armingAllowed, active, shadowedAtInit, frames>>
      BY <1>6, ValuesAssumption DEF InterpretedSetLexical, modeVars, layoutVars, fuseVars
    <2>2. \A m \in Names : lex'[m] = NoValue <=> lex[m] = NoValue
      BY <1>0, <2>1 DEF TypeOK
    <2> QED
      BY <1>0, <2>1, <2>2 DEF IInv, CellInv, FuseInv, RowInv, ModeInv, IsData
  <1>7. ASSUME NEW n \in Names, GetGName(n) \/ BindGName(n) \/ BindingValueHelper(n)
        PROVE  IInv'
    <2> DEFINE r == NightResolveGlobalSlotGuarded(n)
               d == IF r # NoRow THEN MaybeArmBindingFuse(n, cell[n], slot[n]) ELSE cell[n]
    <2>1. active /\ ResolveGlobalSlot(n)
      BY <1>7 DEF GetGName, BindGName, BindingValueHelper
    <2>2. d.word = 1 => \/ d = cell[n]
                        \/ /\ cell[n].word = 0 /\ d.bits = slot[n] /\ slot[n] \in Values
                           /\ armingAllowed
                           /\ Expected[n] # NoBody => BodyOf(slot[n]) = Expected[n]
      BY <1>0 DEF MaybeArmBindingFuse, Armed, Cell
    <2>3. r.entry # "none" => /\ r.shape = shape /\ lex[n] = NoValue /\ IsData(n)
                              /\ r.entry = "rw" <=> n \in writable
      BY DEF NightResolveGlobalSlotGuarded, NoRow
    <2>4. /\ row' = [row EXCEPT ![n] = r]
          /\ cell' = [cell EXCEPT ![n] = d]
          /\ nurseryArmed' = nurseryArmed \cup NurseryPush(n, cell[n], d, young)
          /\ UNCHANGED <<slot, writable, lex, shape, heapShapes, white, young, gfuse,
                         armingAllowed, active, shadowedAtInit, frames>>
      BY <2>1 DEF ResolveGlobalSlot, heapVars, modeVars
    <2> HIDE DEF d, r
    <2>5. CellInv'
      BY <1>0, <2>2, <2>4 DEF IInv, CellInv, GoodCell, NurseryPush, TypeOK
    <2>6. FuseInv'
      BY <2>4 DEF IInv, FuseInv
    <2>7. RowInv'
      BY <1>0, <2>1, <2>3, <2>4 DEF IInv, RowInv, IsData, TypeOK
    <2>8. ModeInv'
      BY <1>0, <2>2, <2>4 DEF IInv, ModeInv, TypeOK
    <2> QED
      BY <1>0, <2>5, <2>6, <2>7, <2>8 DEF IInv
  <1>8. ASSUME NEW n \in Names, NEW v \in Values, SetGNameInline(n, v) PROVE IInv'
    <2> DEFINE hit == RowHit(n) /\ row[n].entry = "rw"
               r == IF hit THEN row[n] ELSE NightResolveGlobalSlotGuarded(n)
               c == IF hit THEN cell[n] ELSE MaybeArmBindingFuse(n, cell[n], slot[n])
               d == WriteThrough(n, c, v)
               push == NurseryPush(n, cell[n], c, young)
                       \cup (IF v \in Objs /\ d # c THEN NurseryPush(n, Unarmed, d, young) ELSE {})
    <2>1. /\ active /\ r.entry = "rw"
          /\ slot' = [slot EXCEPT ![n] = v]
          /\ row' = [row EXCEPT ![n] = r]
          /\ cell' = [cell EXCEPT ![n] = d]
          /\ nurseryArmed' = nurseryArmed \cup push
          /\ gfuse' = IF Literal[n] = NoLiteral THEN gfuse
                      ELSE [gfuse EXCEPT ![n] = IF v # Literal[n] THEN 2
                                                ELSE IF gfuse[n] = 0 THEN 1 ELSE gfuse[n]]
          /\ UNCHANGED <<writable, lex, shape, heapShapes, white, young, armingAllowed, active,
                         shadowedAtInit, frames>>
      BY <1>8 DEF SetGNameInline, layoutVars, modeVars
    <2>2. r.shape = shape /\ lex[n] = NoValue /\ IsData(n) /\ n \in writable
      BY <2>1 DEF NightResolveGlobalSlotGuarded, NoRow, IInv, RowInv, RowHit
    <2>3. /\ c \in Cell
          /\ GoodCell(n, c, slot[n], young, nurseryArmed \cup NurseryPush(n, cell[n], c, young))
          /\ ~armingAllowed => c.word # 1
      BY <1>0 DEF MaybeArmBindingFuse, Armed, Cell, IInv, CellInv, GoodCell, NurseryPush, ModeInv
    <2> HIDE DEF hit, r, c
    <2>4. GoodCell(n, d, v, young, nurseryArmed \cup push)
      <3>1. CASE c.word # 1 \/ c.bits = v
        BY <2>3, <3>1 DEF GoodCell, WriteThrough
      <3>2. CASE c.word = 1 /\ c.bits # v /\ v \in Prims
        <4>1. v \notin Objs /\ v \notin young
          BY <1>0, <3>2, ValuesAssumption DEF TypeOK
        <4>2. d = Armed(v)
          BY <3>2 DEF WriteThrough
        <4> QED
          BY <4>1, <4>2 DEF GoodCell, Armed
      <3>3. CASE c.word = 1 /\ c.bits # v /\ v \in Objs
        <4>1. \/ d = Blown
              \/ d = Unarmed
              \/ d = Armed(v) /\ (Expected[n] # NoBody => BodyOf(v) = Expected[n])
          <5>1. v \notin Prims
            BY <3>3, ValuesAssumption
          <5>2. d = Blown \/ d = MaybeArmBindingFuse(n, Unarmed, v)
            BY <3>3, <5>1 DEF WriteThrough
          <5>3. \/ MaybeArmBindingFuse(n, Unarmed, v) = Unarmed
                \/ /\ MaybeArmBindingFuse(n, Unarmed, v) = Armed(v)
                   /\ Expected[n] # NoBody => BodyOf(v) = Expected[n]
            BY Zenon DEF MaybeArmBindingFuse
          <5> QED
            BY <5>2, <5>3
        <4>2. d.word = 1 => d.bits = v /\ d # c /\ (v \in young => n \in push)
          BY <3>3, <4>1 DEF Blown, Unarmed, Armed, NurseryPush
        <4> QED
          BY <4>1, <4>2 DEF GoodCell, Blown, Unarmed
      <3> QED
        BY <3>1, <3>2, <3>3 DEF Values
    <2>5. ~armingAllowed => d.word # 1
      BY <2>3 DEF WriteThrough
    <2> HIDE DEF d, push
    <2>6. CellInv'
      BY <1>0, <2>1, <2>4 DEF IInv, CellInv, GoodCell, TypeOK
    <2>7. FuseInv'
      BY <1>0, <2>1, <2>2 DEF IInv, FuseInv, GoodFuse, TypeOK
    <2>8. RowInv'
      BY <1>0, <2>1, <2>2 DEF IInv, RowInv, IsData, TypeOK
    <2>9. ModeInv'
      BY <1>0, <2>1, <2>5 DEF IInv, ModeInv, TypeOK
    <2> QED
      BY <1>0, <2>6, <2>7, <2>8, <2>9 DEF IInv
  <1>9. ASSUME NEW n \in Names, NEW v \in Values, SetHandshake(n, v) PROVE IInv'
    <2>1. /\ MaybeBlowBindingFuse(cell[n], v) \in Cell
          /\ MaybeBlowBindingFuse(cell[n], v) = cell[n] \/ MaybeBlowBindingFuse(cell[n], v).word # 1
          /\ MaybeGnameFuseBlow(n, gfuse[n], v) \in 0..2
          /\ \/ MaybeGnameFuseBlow(n, gfuse[n], v) = gfuse[n]
             \/ MaybeGnameFuseBlow(n, gfuse[n], v) = 2 /\ active
      BY <1>0 DEF MaybeBlowBindingFuse, MaybeGnameFuseBlow, Unarmed, Cell
    <2> QED
      BY <1>0, <1>9, <2>1, GlobalSetIInv, Zenon DEF SetHandshake
  <1>10. ASSUME NEW n \in Names, NEW v \in Values, SetCallsSetter(n, v) PROVE IInv'
    <2>1. /\ MaybeBlowBindingFuse(cell[n], v) = cell[n] \/ MaybeBlowBindingFuse(cell[n], v).word # 1
          /\ \/ MaybeGnameFuseBlow(n, gfuse[n], v) = gfuse[n]
             \/ MaybeGnameFuseBlow(n, gfuse[n], v) = 2 /\ active
      BY DEF MaybeBlowBindingFuse, MaybeGnameFuseBlow, Unarmed
    <2>2. /\ active
          /\ cell' = [cell EXCEPT ![n] = MaybeBlowBindingFuse(cell[n], v)]
          /\ gfuse' = [gfuse EXCEPT ![n] = MaybeGnameFuseBlow(n, gfuse[n], v)]
          /\ UNCHANGED <<slot, writable, lex, shape, heapShapes, white, young, row, nurseryArmed,
                         armingAllowed, active, shadowedAtInit>>
      BY <1>10 DEF SetCallsSetter, heapVars, modeVars
    <2>3. CellInv'
      BY <1>0, <2>1, <2>2 DEF IInv, CellInv, GoodCell, TypeOK
    <2>4. FuseInv'
      BY <1>0, <2>1, <2>2 DEF IInv, FuseInv, GoodFuse, TypeOK
    <2>5. RowInv'
      BY <2>2 DEF IInv, RowInv, IsData
    <2>6. ModeInv'
      BY <1>0, <2>1, <2>2 DEF IInv, ModeInv, TypeOK
    <2> QED
      BY <1>0, <2>3, <2>4, <2>5, <2>6 DEF IInv
  <1>11. CASE SetterReturns
    <2> DEFINE f == frames[Len(frames)]
    <2>1. /\ frames # <<>>
          /\ Settle(f.name, cell[f.name], gfuse[f.name], slot[f.name], f.val, TRUE)
          /\ UNCHANGED <<slot, writable, lex, shape, heapShapes, white, young, row,
                         armingAllowed, active, shadowedAtInit>>
      BY <1>11 DEF SetterReturns, heapVars, modeVars
    <2>2. f \in [name : Names, val : Values] /\ active
      BY <1>0, <2>1, FrontType DEF TypeOK, IInv, ModeInv
    <2> HIDE DEF f
    <2>3. PICK n \in Names, v \in Values : Settle(n, cell[n], gfuse[n], slot[n], v, TRUE)
      <3>1. f.name \in Names /\ f.val \in Values
        BY <2>2
      <3> QED
        BY <2>1, <3>1, Zenon
    <2>4. GoodCell(n, cell[n], slot[n], young, nurseryArmed) /\ GoodFuse(n, gfuse[n], slot[n])
      BY DEF IInv, CellInv, FuseInv
    <2>5. /\ GoodCell(n, cell'[n], slot[n], young, nurseryArmed')
          /\ GoodFuse(n, gfuse'[n], slot[n])
          /\ nurseryArmed \subseteq nurseryArmed'
          /\ \A m \in Names : m # n => cell'[m] = cell[m] /\ gfuse'[m] = gfuse[m]
          /\ gfuse'[n] # gfuse[n] => gfuse[n] = 0 /\ Literal[n] # NoLiteral
          /\ ~armingAllowed /\ cell[n].word # 1 => cell'[n].word # 1
      BY <1>0, <2>3, <2>4, SettleGood, Zenon
    <2>6. CellInv'
      BY <2>1, <2>5 DEF IInv, CellInv, GoodCell
    <2>7. FuseInv'
      BY <2>1, <2>2, <2>5 DEF IInv, FuseInv, GoodFuse
    <2>8. RowInv'
      BY <2>1 DEF IInv, RowInv, IsData
    <2>9. ModeInv'
      BY <2>1, <2>2, <2>5 DEF IInv, ModeInv
    <2> QED
      BY <1>0, <2>6, <2>7, <2>8, <2>9 DEF IInv
  <1>12. CASE SetterThrows
    BY <1>0, <1>12 DEF SetterThrows, heapVars, modeVars, fuseVars, IInv, CellInv, FuseInv, RowInv,
                       ModeInv, IsData
  <1>13. ASSUME NEW n \in Names, NEW v \in Values, SetNameLexical(n, v) PROVE IInv'
    <2> DEFINE c == MaybeBlowBindingFuse(cell[n], v)
               g == MaybeGnameFuseBlow(n, gfuse[n], v)
    <2>1. /\ active
          /\ lex[n] # NoValue
          /\ lex' = [lex EXCEPT ![n] = v] \/ lex' = lex
          /\ Settle(n, c, g, slot[n], v, TRUE) \/ Settle(n, c, g, slot[n], v, FALSE)
          /\ UNCHANGED <<slot, writable, shape, heapShapes, white, young, row, armingAllowed,
                         active, shadowedAtInit, frames>>
      BY <1>13 DEF SetNameLexical, layoutVars, modeVars
    <2>2. \A m \in Names : lex'[m] = NoValue <=> lex[m] = NoValue
      BY <1>0, <2>1, ValuesAssumption DEF TypeOK
    <2>3. /\ c \in Cell /\ g \in 0..2
          /\ c = cell[n] \/ c.word # 1
          /\ g = gfuse[n] \/ g = 2
      BY <1>0 DEF MaybeBlowBindingFuse, MaybeGnameFuseBlow, Unarmed, Cell
    <2>4. GoodCell(n, c, slot[n], young, nurseryArmed) /\ GoodFuse(n, g, slot[n])
      BY <2>3 DEF IInv, CellInv, FuseInv, GoodCell, GoodFuse
    <2> HIDE DEF c, g
    <2>5. PICK r \in BOOLEAN, c1 \in Cell, g1 \in 0..2 :
            c1 = c /\ g1 = g /\ Settle(n, c1, g1, slot[n], v, r)
      BY <2>1, <2>3, Zenon
    <2>6. /\ GoodCell(n, cell'[n], slot[n], young, nurseryArmed')
          /\ GoodFuse(n, gfuse'[n], slot[n])
          /\ nurseryArmed \subseteq nurseryArmed'
          /\ \A m \in Names : m # n => cell'[m] = cell[m] /\ gfuse'[m] = gfuse[m]
          /\ gfuse'[n] # g1 => g1 = 0 /\ Literal[n] # NoLiteral
          /\ ~armingAllowed /\ c1.word # 1 => cell'[n].word # 1
      <3>1. GoodCell(n, c1, slot[n], young, nurseryArmed) /\ GoodFuse(n, g1, slot[n])
        BY <2>4, <2>5
      <3>2. gfuse'[n] # g1 => r /\ g1 = 0 /\ Literal[n] # NoLiteral
        BY <1>0, <2>5, <3>1, SettleGood
      <3> QED
        BY <1>0, <2>5, <3>1, <3>2, SettleGood
    <2>7. CellInv'
      BY <2>1, <2>6 DEF IInv, CellInv, GoodCell
    <2>8. FuseInv'
      BY <2>1, <2>2, <2>3, <2>5, <2>6 DEF IInv, FuseInv, GoodFuse
    <2>9. RowInv'
      BY <2>1, <2>2 DEF IInv, RowInv, IsData
    <2>10. ModeInv'
      BY <2>1, <2>3, <2>5, <2>6 DEF IInv, ModeInv
    <2> QED
      BY <1>0, <2>7, <2>8, <2>9, <2>10 DEF IInv
  <1>14. ASSUME NEW n \in Names, NEW v \in Values, SetPropIcMiss(n, v) PROVE IInv'
    <2>1. /\ MaybeBlowBindingFuse(cell[n], v) \in Cell
          /\ MaybeBlowBindingFuse(cell[n], v) = cell[n] \/ MaybeBlowBindingFuse(cell[n], v).word # 1
      BY <1>0 DEF MaybeBlowBindingFuse, Unarmed, Cell
    <2> QED
      BY <1>0, <1>14, <2>1, GlobalSetIInv, Zenon DEF SetPropIcMiss
  <1>15. ASSUME NEW n \in Names, NEW v \in Values, SetElement(n, v) PROVE IInv'
    <2>1. /\ BlowBindingFuse(cell[n]) \in Cell /\ BlowGnameFuse(n, gfuse[n]) \in 0..2
          /\ BlowBindingFuse(cell[n]) = cell[n] \/ BlowBindingFuse(cell[n]).word # 1
          /\ BlowGnameFuse(n, gfuse[n]) = gfuse[n] \/ (BlowGnameFuse(n, gfuse[n]) = 2 /\ active)
      BY <1>0 DEF BlowBindingFuse, Blown, BlowGnameFuse, Cell
    <2> QED
      BY <1>0, <1>15, <2>1, GlobalSetIInv, Zenon DEF SetElement
  <1>16. ASSUME NEW n \in Names, DeleteRefused(n) \/ BlowKey(n) PROVE IInv'
    <2>1. /\ cell' = [cell EXCEPT ![n] = BlowBindingFuse(cell[n])]
          /\ gfuse' = [gfuse EXCEPT ![n] = BlowGnameFuse(n, gfuse[n])]
          /\ UNCHANGED <<slot, writable, lex, shape, heapShapes, white, young, row, nurseryArmed,
                         armingAllowed, active, shadowedAtInit, frames>>
      BY <1>16 DEF DeleteRefused, BlowKey, heapVars, modeVars
    <2>2. CellInv'
      BY <1>0, <2>1, BlowDisarms DEF IInv, CellInv, GoodCell, TypeOK
    <2>3. FuseInv'
      BY <1>0, <2>1, BlowDisarms DEF IInv, FuseInv, GoodFuse, TypeOK
    <2>4. RowInv' /\ ModeInv'
      BY <1>0, <2>1, BlowDisarms DEF IInv, RowInv, ModeInv, IsData, TypeOK
    <2> QED
      BY <1>0, <2>2, <2>3, <2>4 DEF IInv
  <1>17. CASE BlowAll
    <2>1. /\ cell' = [n \in Names |-> BlowBindingFuse(cell[n])]
          /\ gfuse' = [n \in Names |-> BlowGnameFuse(n, gfuse[n])]
          /\ UNCHANGED <<slot, writable, lex, shape, heapShapes, white, young, row, nurseryArmed,
                         armingAllowed, active, shadowedAtInit, frames>>
      BY <1>17 DEF BlowAll, heapVars, modeVars
    <2>2. CellInv'
      BY <2>1, BlowDisarms DEF CellInv, GoodCell
    <2>3. FuseInv'
      BY <2>1, BlowDisarms DEF IInv, FuseInv, GoodFuse
    <2>4. RowInv' /\ ModeInv'
      BY <2>1, BlowDisarms DEF IInv, RowInv, ModeInv, IsData
    <2> QED
      BY <1>0, <2>2, <2>3, <2>4 DEF IInv
  <1>18. ASSUME NEW o \in Objs, Allocate(o) PROVE IInv'
    <2>1. /\ young' = young \cup {o} /\ \A n \in Names : slot[n] # o
          /\ UNCHANGED <<slot, writable, lex, shape, heapShapes, white, row, cell, gfuse,
                         nurseryArmed, armingAllowed, active, shadowedAtInit, frames>>
      BY <1>18 DEF Allocate, layoutVars, fuseVars, modeVars
    <2>2. CellInv'
      BY <2>1 DEF IInv, CellInv, GoodCell
    <2> QED
      BY <1>0, <2>1, <2>2 DEF IInv, FuseInv, RowInv, ModeInv, IsData
  <1>19. ASSUME NEW keep \in SUBSET young, MinorGC(keep) PROVE IInv'
    <2> DEFINE left(n) == Moved(cell[n], young)
               unlisted(n) == IF n \in nurseryArmed /\ left(n).word = 1 THEN Unarmed ELSE left(n)
    <2>1. /\ young' = keep
          /\ cell' = [n \in Names |-> NurseryEnd(n, left(n))]
          /\ nurseryArmed' = {n \in Names : NurseryPush(n, unlisted(n), NurseryEnd(n, left(n)), keep) # {}}
          /\ UNCHANGED <<slot, writable, lex, shape, heapShapes, white, row, gfuse,
                         armingAllowed, active, shadowedAtInit, frames>>
      BY <1>19 DEF MinorGC, layoutVars, modeVars
    <2>2. ASSUME NEW n \in Names
          PROVE  /\ GoodCell(n, cell'[n], slot[n], keep, nurseryArmed')
                 /\ ~armingAllowed => cell'[n].word # 1
      <3> DEFINE d == NurseryEnd(n, left(n))
      <3>1. GoodCell(n, cell[n], slot[n], young, nurseryArmed)
            /\ (~armingAllowed => cell[n].word # 1)
        BY DEF IInv, CellInv, ModeInv
      <3>2. /\ left(n).word = cell[n].word
            /\ n \notin nurseryArmed => left(n) = cell[n]
        BY <3>1 DEF Moved, Armed, GoodCell
      <3>3. \/ d = left(n) /\ (n \notin nurseryArmed \/ d.word # 1)
            \/ d.word # 1
            \/ /\ d.word = 1 /\ d.bits = slot[n] /\ slot[n] \in Values /\ armingAllowed
               /\ Expected[n] # NoBody => BodyOf(slot[n]) = Expected[n]
               /\ unlisted(n).word = 0
        <4>1. \A c : \/ MaybeArmBindingFuse(n, c, slot[n]) = c
                     \/ /\ c.word = 0 /\ MaybeArmBindingFuse(n, c, slot[n]) = Armed(slot[n])
                        /\ slot[n] \in Values /\ armingAllowed
                        /\ Expected[n] # NoBody => BodyOf(slot[n]) = Expected[n]
          BY Zenon DEF MaybeArmBindingFuse
        <4> HIDE DEF left
        <4>2. CASE n \in nurseryArmed /\ left(n).word = 1
          <5>1. unlisted(n) = Unarmed /\ unlisted(n).word = 0
            BY <4>2 DEF Unarmed
          <5>2. \/ d = MaybeArmBindingFuse(n, Unarmed, slot[n])
                \/ d = MaybeArmBindingFuse(n, MaybeArmBindingFuse(n, Unarmed, slot[n]), slot[n])
            BY <4>2 DEF NurseryEnd
          <5>3. \/ d = Unarmed
                \/ /\ d = Armed(slot[n]) /\ slot[n] \in Values /\ armingAllowed
                   /\ Expected[n] # NoBody => BodyOf(slot[n]) = Expected[n]
            <6> HIDE DEF d
            <6>1. Armed(slot[n]).word # 0
              BY DEF Armed
            <6> QED
              BY <4>1, <5>2, <6>1
          <5> QED
            BY <5>1, <5>3 DEF Unarmed, Armed
        <4>3. CASE ~(n \in nurseryArmed /\ left(n).word = 1)
          <5>1. unlisted(n) = left(n)
            BY <4>3
          <5>2. d = left(n) \/ (left(n).word = 0 /\ d = MaybeArmBindingFuse(n, left(n), slot[n]))
            BY <4>3 DEF NurseryEnd
          <5> QED
            BY <4>1, <4>3, <5>1, <5>2 DEF Armed
        <4> QED
          BY <4>2, <4>3
      <3>4. cell'[n] = d
        BY <2>1
      <3> HIDE DEF d, left, unlisted
      <3>5. GoodCell(n, d, slot[n], keep, nurseryArmed')
        <4>1. CASE d = left(n) /\ n \notin nurseryArmed
          <5>1. d = cell[n] /\ (cell[n].word = 1 => slot[n] \notin young)
            BY <3>1, <3>2, <4>1 DEF GoodCell
          <5> QED
            BY <3>1, <5>1 DEF GoodCell
        <4>2. CASE d.word # 1
          BY <4>2 DEF GoodCell
        <4>3. CASE /\ d.word = 1 /\ d.bits = slot[n] /\ slot[n] \in Values
                   /\ Expected[n] # NoBody => BodyOf(slot[n]) = Expected[n]
                   /\ unlisted(n).word = 0
          <5>1. slot[n] \in keep => NurseryPush(n, unlisted(n), d, keep) # {}
            BY <4>3 DEF NurseryPush
          <5>2. slot[n] \in keep => n \in nurseryArmed'
            BY <2>1, <5>1 DEF d
          <5> QED
            BY <4>3, <5>2 DEF GoodCell
        <4> QED
          BY <3>3, <4>1, <4>2, <4>3
      <3> QED
        BY <3>1, <3>2, <3>3, <3>4, <3>5
    <2>3. CellInv'
      BY <2>1, <2>2 DEF CellInv
    <2> QED
      BY <1>0, <2>1, <2>2, <2>3 DEF IInv, FuseInv, RowInv, ModeInv, IsData
  <1>20. CASE GCSweepSlice
    <2>1. /\ heapShapes' = heapShapes \ white /\ white' = {}
          /\ UNCHANGED <<slot, writable, lex, shape, young, row, cell, gfuse, nurseryArmed,
                         armingAllowed, active, shadowedAtInit, frames>>
      BY <1>20 DEF GCSweepSlice, fuseVars, modeVars
    <2>2. RowInv'
      BY <2>1 DEF IInv, RowInv, IsData
    <2> QED
      BY <1>0, <2>1, <2>2 DEF IInv, CellInv, FuseInv, ModeInv
  <1>21. CASE GCCycleBegin \/ GCCompactSlice \/ GCCycleEnd
    <2>1. PurgeMovableCaches({}) \/ PurgeMovableCaches(Objs \ young)
      BY <1>21 DEF GCCycleBegin, GCCompactSlice, GCCycleEnd
    <2>2. /\ \A n \in Names : row'[n].entry = "none" /\ cell'[n].word = 0
          /\ UNCHANGED <<gfuse, nurseryArmed, armingAllowed, active, shadowedAtInit, frames>>
      BY <2>1 DEF PurgeMovableCaches, PurgedRow, PurgedCell, NoRow, Unarmed, modeVars
    <2>3. /\ UNCHANGED <<slot, writable, lex, young>>
          /\ shape' \in heapShapes' \ white' /\ white' \subseteq heapShapes'
      BY <1>21 DEF GCCycleBegin, GCCompactSlice, GCCycleEnd, IInv, RowInv
    <2>4. CellInv' /\ RowInv'
      BY <2>2, <2>3 DEF CellInv, GoodCell, RowInv
    <2> QED
      BY <1>0, <2>2, <2>3, <2>4 DEF IInv, FuseInv, ModeInv
  <1>22. ASSUME NEW b \in BOOLEAN, Activate(b) PROVE IInv'
    <2>1. /\ ~active /\ active' = TRUE
          /\ shadowedAtInit' = {n \in Names : lex[n] # NoValue}
          /\ \A n \in Names : gfuse'[n] \in {gfuse[n],
                  MaybeGnameFuseArmAfterStore(n, gfuse[n], Literal[n], slot[n])}
          /\ UNCHANGED <<slot, writable, lex, shape, heapShapes, white, young, row, cell,
                         nurseryArmed, armingAllowed, frames>>
      BY <1>22 DEF Activate, heapVars
    <2>2. \A n \in Names : GoodFuse(n, gfuse'[n], slot[n])
      BY <2>1 DEF MaybeGnameFuseArmAfterStore, GoodFuse, IInv, FuseInv
    <2>3. FuseInv'
      BY <2>1, <2>2 DEF FuseInv
    <2>4. armingAllowed /\ \A n \in Names : row[n].entry = "none"
      BY <2>1 DEF IInv, ModeInv, RowInv
    <2> QED
      BY <1>0, <2>1, <2>3, <2>4 DEF IInv, CellInv, RowInv, ModeInv
  <1>23. CASE ActivateInprocess
    <2>1. /\ ~active /\ active' = TRUE /\ armingAllowed' = FALSE
          /\ shadowedAtInit' = {n \in Names : lex[n] # NoValue}
          /\ cell' = [n \in Names |-> BlowBindingFuse(cell[n])]
          /\ gfuse' = [n \in Names |-> IF Literal[n] # NoLiteral THEN 2 ELSE gfuse[n]]
          /\ UNCHANGED <<slot, writable, lex, shape, heapShapes, white, young, row,
                         nurseryArmed, frames>>
      BY <1>23 DEF ActivateInprocess, heapVars
    <2>2. \A n \in Names : /\ cell'[n].word # 1
                           /\ Literal[n] # NoLiteral => gfuse'[n] = 2
                           /\ Literal[n] = NoLiteral => gfuse'[n] = 0
                           /\ row[n].entry = "none"
      BY <2>1, BlowDisarms DEF IInv, FuseInv, RowInv
    <2>3. CellInv' /\ FuseInv' /\ RowInv'
      BY <2>1, <2>2 DEF CellInv, GoodCell, FuseInv, GoodFuse, IInv, RowInv
    <2>4. ModeInv'
      BY <2>1, <2>2 DEF ModeInv
    <2> QED
      BY <1>0, <2>3, <2>4 DEF IInv
  <1>24. CASE UNCHANGED vars
    BY <1>0, <1>24 DEF vars, heapVars, fuseVars, modeVars, IInv, CellInv, FuseInv, RowInv, ModeInv,
                       IsData
  <1> QED
    BY <1>1, <1>2, <1>3, <1>4, <1>5, <1>6, <1>7, <1>8, <1>9, <1>10, <1>11, <1>12, <1>13,
       <1>14, <1>15, <1>16, <1>17, <1>18, <1>19, <1>20, <1>21, <1>22, <1>23, <1>24
       DEF Next, NextInterpreted, NextCompiled, NextGC, NextActivate

\* The inductive invariant holds in every behaviour.
LEMMA Invariance == Spec => []IInv
  BY InitIInv, IInvStep, PTL DEF Spec

\* Whichever arm of a compiled global read hits, it serves the current value of a
\* name no global lexical shadows.
THEOREM ReadCorrect == Spec => []ReadIsCurrent
  BY Invariance, IInvImplies, PTL

\* A shape-matched gGlobalSlots row is right about the binding, for any number of
\* shapes and any reuse of their addresses across incremental collections.
THEOREM RowCorrect == Spec => []RowHitIsValid
  BY Invariance, IInvImplies, PTL

\* An armed value-fuse cell mirrors the own slot through stores, redefinitions and
\* moving collections, and a nursery value in it is on the re-arm list.
THEOREM CellCorrect == Spec => []ArmedCells
  BY Invariance, IInvImplies, PTL

\* An armed literal fuse means the own slot holds the literal and nothing has
\* shadowed the name since the environment was installed.
THEOREM LiteralCorrect == Spec => []LiteralFuseIsSound
  BY Invariance, IInvImplies, PTL

\* A GC thing in the armed cell of a call-predicted binding has the predicted body.
THEOREM CalleeCorrect == Spec => []ArmedObjectIsPredicted
  BY Invariance, IInvImplies, PTL

\* After the in-process install nothing ever arms.
THEOREM DistrustCorrect == Spec => []DistrustIsFinal
  BY Invariance, IInvImplies, PTL

\* A store to the global that changes a data slot moves the epoch.
LEMMA GlobalSetMovesEpoch ==
    ASSUME TypeOK, NEW n \in Names, NEW v \in Values, NEW c, NEW g, NEW k \in 0..1,
           NEW r \in BOOLEAN, GlobalSet(n, v, c, g, k, r), NEW m \in Names,
           slot'[m] # slot[m], IsData(m)
    PROVE  bindEpoch' # bindEpoch
  <1>1. CASE SetExisting(n, v, c, g, k, r)
    <2>1. bindEpoch' = Bump(k + 1) /\ k + 1 \in 0..2 /\ k + 1 # 0
      BY <1>1 DEF SetExisting
    <2> QED
      BY <2>1, BumpOk DEF TypeOK
  <1>2. CASE SetAbsent(n, v, c, g, k, r)
    <2>1. slot[n] = NoValue /\ slot' = [slot EXCEPT ![n] = v]
      BY <1>2 DEF SetAbsent
    <2> QED
      BY <2>1, ValuesAssumption DEF TypeOK, IsData
  <1>3. CASE SetIgnored(n, v, c, g, k, r)
    BY <1>3 DEF SetIgnored
  <1>4. CASE SetRefused(n, v, c, g, k)
    BY <1>4 DEF SetRefused
  <1> QED
    BY <1>1, <1>2, <1>3, <1>4 DEF GlobalSet

\* Every step that changes a data slot of the global moves the binding epoch: the
\* one word compiled code compares to keep a carried binding fact across a call.
THEOREM EpochCorrect == Spec => EpochCoversStores
  <1>1. TypeOK /\ [Next]_vars => [MovesEpoch]_vars
    <2> SUFFICES ASSUME TypeOK, [Next]_vars, NEW m \in Names, slot'[m] # slot[m], IsData(m)
                 PROVE  bindEpoch' # bindEpoch
      BY DEF MovesEpoch
    <2>0. /\ Bump(1) # bindEpoch
          /\ 0 \in 0..1 /\ 1 \in 0..1
      BY BumpOk DEF TypeOK
    <2>1. ASSUME NEW n \in Names, NEW v \in Values,
                 \/ InterpretedSet(n, v) \/ SetHandshake(n, v)
                 \/ SetPropIcMiss(n, v) \/ SetElement(n, v)
          PROVE  bindEpoch' # bindEpoch
      <3>1. CASE InterpretedSet(n, v)
        BY <2>0, <3>1, GlobalSetMovesEpoch, Zenon DEF InterpretedSet
      <3>2. CASE SetHandshake(n, v)
        BY <2>0, <3>2, GlobalSetMovesEpoch, Zenon DEF SetHandshake
      <3>3. CASE SetPropIcMiss(n, v)
        BY <2>0, <3>3, GlobalSetMovesEpoch, Zenon DEF SetPropIcMiss
      <3>4. CASE SetElement(n, v)
        BY <2>0, <3>4, GlobalSetMovesEpoch, Zenon DEF SetElement
      <3> QED
        BY <2>1, <3>1, <3>2, <3>3, <3>4
    <2>2. ASSUME NEW n \in Names, NEW s \in Values \cup {Accessor}, NEW w \in BOOLEAN,
                 DefineProperty(n, s, w)
          PROVE  bindEpoch' # bindEpoch
      BY <2>0, <2>2 DEF DefineProperty
    <2>3. ASSUME NEW n \in Names, DeleteProperty(n) PROVE bindEpoch' # bindEpoch
      BY <2>0, <2>3 DEF DeleteProperty
    <2>4. ASSUME NEW n \in Names, NEW v \in Values, SetGNameInline(n, v)
          PROVE  bindEpoch' # bindEpoch
      BY <2>0, <2>4 DEF SetGNameInline
    <2>5. ASSUME NEW n \in Names, NEW v \in Values,
                 \/ AddLexical(n, v) \/ InterpretedSetLexical(n, v)
                 \/ SetCallsSetter(n, v) \/ SetNameLexical(n, v)
          PROVE  FALSE
      BY <2>5 DEF AddLexical, InterpretedSetLexical, SetCallsSetter, SetNameLexical, heapVars
    <2>6. ASSUME NEW n \in Names,
                 \/ GetGName(n) \/ BindGName(n) \/ BindingValueHelper(n)
                 \/ DeleteRefused(n) \/ BlowKey(n)
          PROVE  FALSE
      BY <2>6 DEF GetGName, BindGName, BindingValueHelper, ResolveGlobalSlot, DeleteRefused,
                  BlowKey, heapVars
    <2>7. ASSUME ReshapeOther \/ SetterReturns \/ SetterThrows \/ BlowAll PROVE FALSE
      BY <2>7 DEF ReshapeOther, SetterReturns, SetterThrows, BlowAll, heapVars
    <2>8. ASSUME NextGC \/ NextActivate PROVE FALSE
      BY <2>8 DEF NextGC, NextActivate, Allocate, MinorGC, GCCycleBegin, GCSweepSlice,
                  GCCompactSlice, GCCycleEnd, Activate, ActivateInprocess, heapVars
    <2>9. CASE UNCHANGED vars
      BY <2>9 DEF vars, heapVars
    <2> QED
      BY <2>1, <2>2, <2>3, <2>4, <2>5, <2>6, <2>7, <2>8, <2>9
         DEF Next, NextInterpreted, NextCompiled
  <1> QED
    BY <1>1, TypeCorrect, PTL DEF Spec, EpochCoversStores

\* The arm half of a store leaves a blown fuse blown.
LEMMA SettleStaysBlown ==
    ASSUME TypeOK, NEW n \in Names, NEW c, NEW g, NEW s, NEW v, NEW r \in BOOLEAN,
           Settle(n, c, g, s, v, r), gfuse[n] = 2 => g = 2
    PROVE  StaysBlown
  <1>1. gfuse' = [gfuse EXCEPT ![n] = IF r THEN MaybeGnameFuseArmAfterStore(n, g, v, s) ELSE g]
    BY DEF Settle
  <1> QED
    BY <1>1 DEF MaybeGnameFuseArmAfterStore, StaysBlown, TypeOK

\* So does every outcome of a store to the global.
LEMMA GlobalSetStaysBlown ==
    ASSUME TypeOK, NEW n \in Names, NEW v \in Values, NEW c, NEW g, NEW k,
           NEW r \in BOOLEAN, GlobalSet(n, v, c, g, k, r), gfuse[n] = 2 => g = 2
    PROVE  StaysBlown
  <1>1. /\ g = 2 => MaybeGnameFuseBlow(n, g, v) = 2
        /\ g = 2 => BlowGnameFuse(n, g) = 2
    BY DEF MaybeGnameFuseBlow, BlowGnameFuse
  <1>2. CASE SetExisting(n, v, c, g, k, r)
    BY <1>1, <1>2, SettleStaysBlown DEF SetExisting
  <1>3. CASE SetAbsent(n, v, c, g, k, r)
    BY <1>1, <1>3, SettleStaysBlown DEF SetAbsent
  <1>4. CASE SetIgnored(n, v, c, g, k, r)
    BY <1>4, SettleStaysBlown DEF SetIgnored
  <1>5. CASE SetRefused(n, v, c, g, k)
    <2>1. Settle(n, c, g, slot[n], v, FALSE)
      BY <1>5 DEF SetRefused
    <2> QED
      BY <2>1, SettleStaysBlown, Zenon
  <1> QED
    BY <1>2, <1>3, <1>4, <1>5 DEF GlobalSet

\* A literal fuse once blown is blown for the rest of the run.
THEOREM BlownIsSticky == Spec => BlownLiteralIsSticky
  <1>1. TypeOK /\ [Next]_vars => [StaysBlown]_vars
    <2> SUFFICES ASSUME TypeOK, [Next]_vars PROVE StaysBlown
      OBVIOUS
    <2>0. \A n \in Names : \A v : gfuse[n] = 2 =>
            /\ MaybeGnameFuseBlow(n, gfuse[n], v) = 2
            /\ BlowGnameFuse(n, gfuse[n]) = 2
            /\ MaybeGnameFuseArmAfterStore(n, gfuse[n], v, slot[n]) = 2
      BY DEF MaybeGnameFuseBlow, BlowGnameFuse, MaybeGnameFuseArmAfterStore
    <2>1. ASSUME NEW n \in Names, NEW v \in Values,
                 \/ InterpretedSet(n, v) \/ SetHandshake(n, v)
                 \/ SetPropIcMiss(n, v) \/ SetElement(n, v)
          PROVE  StaysBlown
      <3>1. CASE InterpretedSet(n, v)
        BY <3>1, GlobalSetStaysBlown, Zenon DEF InterpretedSet
      <3>2. CASE SetHandshake(n, v)
        BY <2>0, <3>2, GlobalSetStaysBlown, Zenon DEF SetHandshake
      <3>3. CASE SetPropIcMiss(n, v)
        BY <3>3, GlobalSetStaysBlown, Zenon DEF SetPropIcMiss
      <3>4. CASE SetElement(n, v)
        BY <2>0, <3>4, GlobalSetStaysBlown, Zenon DEF SetElement
      <3> QED
        BY <2>1, <3>1, <3>2, <3>3, <3>4
    <2>2. ASSUME NEW n \in Names, NEW g, gfuse' = [gfuse EXCEPT ![n] = g], gfuse[n] = 2 => g = 2
          PROVE  StaysBlown
      BY <2>2 DEF StaysBlown, TypeOK
    <2>3. ASSUME NEW n \in Names, NEW v \in Values, SetGNameInline(n, v) PROVE StaysBlown
      BY <2>3 DEF SetGNameInline, StaysBlown, TypeOK
    <2>4. CASE SetterReturns
      <3> DEFINE f == frames[Len(frames)]
      <3>1. frames # <<>> /\ Settle(f.name, cell[f.name], gfuse[f.name], slot[f.name], f.val, TRUE)
        BY <2>4 DEF SetterReturns
      <3>2. f \in [name : Names, val : Values]
        BY <3>1, FrontType DEF TypeOK
      <3> HIDE DEF f
      <3>3. PICK n \in Names, v \in Values : Settle(n, cell[n], gfuse[n], slot[n], v, TRUE)
        <4>1. f.name \in Names /\ f.val \in Values
          BY <3>2
        <4> QED
          BY <3>1, <4>1, Zenon
      <3> QED
        BY <3>3, SettleStaysBlown, Zenon
    <2>5. ASSUME NEW n \in Names, NEW v \in Values, SetNameLexical(n, v) PROVE StaysBlown
      <3>1. \/ Settle(n, MaybeBlowBindingFuse(cell[n], v), MaybeGnameFuseBlow(n, gfuse[n], v),
                      slot[n], v, TRUE)
            \/ Settle(n, MaybeBlowBindingFuse(cell[n], v), MaybeGnameFuseBlow(n, gfuse[n], v),
                      slot[n], v, FALSE)
        BY <2>5 DEF SetNameLexical
      <3> QED
        BY <2>0, <3>1, SettleStaysBlown, Zenon
    <2>6. CASE BlowAll \/ (\E b \in BOOLEAN : Activate(b)) \/ ActivateInprocess
      BY <2>0, <2>6 DEF BlowAll, Activate, ActivateInprocess, StaysBlown
    <2>7. ASSUME gfuse' = gfuse PROVE StaysBlown
      BY <2>7 DEF StaysBlown
    <2>8. ASSUME NextInterpreted PROVE StaysBlown
      BY <2>0, <2>1, <2>2, <2>7, <2>8 DEF NextInterpreted, DefineProperty, DeleteProperty,
         ReshapeOther, AddLexical, InterpretedSetLexical, fuseVars
    <2>9. ASSUME NextCompiled PROVE StaysBlown
      <3>1. ASSUME NEW n \in Names,
                   \/ GetGName(n) \/ BindGName(n) \/ BindingValueHelper(n)
                   \/ DeleteRefused(n) \/ BlowKey(n)
            PROVE  StaysBlown
        BY <2>0, <2>2, <2>7, <3>1 DEF GetGName, BindGName, BindingValueHelper, ResolveGlobalSlot,
           DeleteRefused, BlowKey
      <3>2. ASSUME NEW n \in Names, NEW v \in Values, SetCallsSetter(n, v) PROVE StaysBlown
        BY <2>0, <2>2, <3>2 DEF SetCallsSetter
      <3>3. CASE SetterThrows
        BY <2>7, <3>3 DEF SetterThrows, fuseVars
      <3> QED
        BY <2>1, <2>3, <2>4, <2>5, <2>6, <2>9, <3>1, <3>2, <3>3 DEF NextCompiled
    <2>10. ASSUME NextGC PROVE StaysBlown
      BY <2>7, <2>10 DEF NextGC, Allocate, MinorGC, GCCycleBegin, GCSweepSlice, GCCompactSlice,
         GCCycleEnd, PurgeMovableCaches, fuseVars
    <2>11. CASE UNCHANGED vars
      BY <2>7, <2>11 DEF vars, fuseVars
    <2> QED
      BY <2>6, <2>8, <2>9, <2>10, <2>11 DEF Next, NextActivate
  <1> QED
    BY <1>1, TypeCorrect, PTL DEF Spec, BlownLiteralIsSticky
=============================================================================
