-------------------------- MODULE MCGlobalBindings --------------------------
(***************************************************************************)
(* TLC instances of GlobalBindings.  One name is enough in an instance: the *)
(* names share nothing but the global's shape, which ReshapeOther changes.  *)
(***************************************************************************)
EXTENDS GlobalBindings, TLC

CONSTANTS x, f, one, o1, body1, body2

\* x is a fused constant global; f is the callee of predicted calls.
MCLiteral == [n \in Names |-> IF n = x THEN one ELSE NoLiteral]
MCExpected == [n \in Names |-> IF n = f THEN body1 ELSE NoBody]
MCTarget == [o \in Objs |-> IF o = o1 THEN body1 ELSE body2]

\* Shape addresses are interchangeable.
ShapeSymmetry == Permutations(Shapes)
=============================================================================
