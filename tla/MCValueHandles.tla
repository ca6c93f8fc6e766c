-------------------------- MODULE MCValueHandles --------------------------
EXTENDS ValueHandles, TLC

CONSTANTS a, w1, w2, c1, c2

MCKind == [h \in Handles |-> IF h = a THEN "Assert" ELSE IF h \in {w1, w2} THEN "Weak" ELSE "Callback"]

\* Values are alike, and so are handles of a kind.
Alike(S) == Permutations(S \cap Handles)
MCSymmetry == Permutations(Values) \cup Alike({w1, w2}) \cup Alike({c1, c2})
===========================================================================
