------------------------- MODULE LazyObjectsProofs -------------------------
EXTENDS LazyObjects, TLAPS

\* Whoever creates objects after what they use and destroys them before it
\* never leaves one with a dead part, for any statics and constructors.
THEOREM NeverDangles == Spec => []NoneDangles
<1>1. Init => NoneDangles
  BY DEF Init, NoneDangles
<1>2. NoneDangles /\ [Next]_alive => NoneDangles'
  <2>. SUFFICES ASSUME NoneDangles, [Next]_alive
                PROVE  NoneDangles'
    OBVIOUS
  <2>1. ASSUME NEW s \in Statics, Create(s)
        PROVE  NoneDangles'
    BY <2>1 DEF NoneDangles, Create
  <2>2. ASSUME NEW s \in Statics, Destroy(s)
        PROVE  NoneDangles'
    BY <2>2 DEF NoneDangles, Destroy, Users
  <2>3. CASE UNCHANGED alive
    BY <2>3 DEF NoneDangles
  <2>. QED BY <2>1, <2>2, <2>3 DEF Next
<1>. QED BY <1>1, <1>2, PTL DEF Spec
=============================================================================
