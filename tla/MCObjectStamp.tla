--------------------------- MODULE MCObjectStamp ---------------------------
(***************************************************************************)
(* TLC instance of ObjectStamp.  A class P with two subclasses F and G,    *)
(* whose layouts extend P's differently, F's claiming more than it does;   *)
(* and a Q with an init delegate that advances its layout.  F is a class,  *)
(* the others are functions.  F's key is past the early-key space.         *)
(***************************************************************************)
EXTENDS ObjectStamp

CONSTANTS fa, fb, fc, fz, ctorP, ctorQ, initQ, ctorG, ctorF,
          newP, newQ, newG, newF, anyG

MaskOf(masked) == [n \in Names |-> IF n \in masked THEN {"int"} ELSE {}]

MCFields == <<<<fa>>, <<fz>>, <<fz, fc>>, <<fa, fc>>, <<fa, fb>>>>
MCMask == <<MaskOf({fa}), MaskOf({fz}), MaskOf({fz}), MaskOf({fa}), MaskOf({fa, fb})>>
MCRanged == <<{fa}, {fz}, {fz}, {fa}, {fa}>>

MCOwn == [x \in Bodies |-> CASE x = ctorP -> 1 [] x = ctorQ -> 2 [] x = initQ -> 3
                             [] x = ctorG -> 4 [] x = ctorF -> 5]
MCIsRestamp == [x \in Bodies |-> x = initQ]

\* Every body stores its own layout's fields.
MCWrites == [x \in Bodies |-> {Fields[MCOwn[x]][i] : i \in 1..Size(MCOwn[x])}]

\* A site per class, and one the analysis did not resolve.  A subclass's constructor
\* runs its superclass's on the same object, and Q's its delegate.
MCSiteLayout == [s \in News |-> CASE s = newP -> 1 [] s = newQ -> 2 [] s = newG -> 4
                                  [] s = newF -> 5 [] s = anyG -> 0]
MCRuns == [s \in News |-> CASE s = newP -> {ctorP}
                            [] s = newQ -> {ctorQ, initQ}
                            [] s = newF -> {ctorP, ctorF}
                            [] s \in {newG, anyG} -> {ctorP, ctorG}]
=============================================================================
