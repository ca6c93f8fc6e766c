--------------------------- MODULE CodeHeapProofs ---------------------------
(***************************************************************************)
(* In every behaviour of CodeHeap regions in use are apart.                *)
(***************************************************************************)
EXTENDS CodeHeap, TLAPS

HInv == TypeOK /\ Exclusive

\* Reserving memory nobody holds keeps regions apart.
LEMMA ReserveInv == HInv /\ Reserve => HInv'
<1> SUFFICES ASSUME HInv, Reserve PROVE HInv'
  OBVIOUS
<1>1. PICK s \in DOMAIN regions' \ DOMAIN regions :
        /\ DOMAIN regions' = DOMAIN regions \cup {s}
        /\ Keeps(regions, regions', DOMAIN regions)
        /\ \A t \in DOMAIN regions : Apart(s, regions'[s], t, regions[t])
        /\ Sized(arena') /\ Sized(regions')
        /\ DOMAIN arena \subseteq DOMAIN arena'
        /\ Keeps(arena, arena', DOMAIN arena)
        /\ Within(arena', s, regions'[s])
  BY DEF Reserve
<1>2. ASSUME NEW x \in DOMAIN regions', NEW y \in DOMAIN regions', x # y
      PROVE  Apart(x, regions'[x], y, regions'[y])
  <2>1. CASE x = s
    BY <1>1, <1>2, <2>1 DEF Keeps
  <2>2. CASE y = s
    BY <1>1, <1>2, <2>2 DEF Keeps, Apart
  <2>3. CASE x # s /\ y # s
    BY <1>1, <1>2, <2>3 DEF Keeps, HInv, Exclusive
  <2> QED BY <2>1, <2>2, <2>3
<1>3. ASSUME NEW x \in DOMAIN regions'
      PROVE  Within(arena', x, regions'[x])
  BY <1>1 DEF Keeps, Within, HInv, Exclusive
<1> QED BY <1>1, <1>2, <1>3 DEF HInv, TypeOK, Exclusive

\* Shrinking the region that turns into code keeps regions apart.
LEMMA CommitInv == \A f : HInv /\ Commit(f) => HInv'
<1> SUFFICES ASSUME NEW f, HInv, Commit(f) PROVE HInv'
  OBVIOUS
<1>1. PICK s \in DOMAIN regions :
        /\ DOMAIN regions' = DOMAIN regions
        /\ Keeps(regions, regions', DOMAIN regions \ {s})
        /\ regions'[s] \in Nat /\ regions'[s] <= regions[s]
        /\ UNCHANGED arena
  BY DEF Commit
<1>2. \A x \in DOMAIN regions :
        /\ x \in Nat /\ regions[x] \in Nat
        /\ regions'[x] \in Nat /\ regions'[x] <= regions[x]
  BY <1>1 DEF HInv, TypeOK, Sized, Keeps
<1>3. ASSUME NEW x \in DOMAIN regions', NEW y \in DOMAIN regions', x # y
      PROVE  Apart(x, regions'[x], y, regions'[y])
  <2>1. Apart(x, regions[x], y, regions[y])
    BY <1>1, <1>3 DEF HInv, Exclusive
  <2> QED BY <1>1, <1>2, <2>1 DEF Apart
<1>4. ASSUME NEW x \in DOMAIN regions'
      PROVE  Within(arena', x, regions'[x])
  <2>1. PICK b \in DOMAIN arena : b <= x /\ x + regions[x] <= b + arena[b]
    BY <1>1 DEF HInv, Exclusive, Within
  <2>2. b \in Nat /\ arena[b] \in Nat
    BY DEF HInv, TypeOK, Sized
  <2>3. x + regions'[x] <= b + arena[b]
    BY <1>1, <1>2, <2>1, <2>2
  <2> QED BY <1>1, <2>1, <2>3 DEF Within
<1> QED BY <1>1, <1>2, <1>3, <1>4 DEF HInv, TypeOK, Exclusive, Sized

\* Giving regions back keeps the others apart.
LEMMA DiscardInv == \A f : HInv /\ Discard(f) => HInv'
BY DEF Discard, HInv, TypeOK, Exclusive, Keeps, Sized

\* No two regions in use ever share a word, and all lie in mapped memory.
THEOREM AlwaysExclusive == Spec => []Exclusive
<1>1. Init => HInv
  BY DEF Init, HInv, TypeOK, Exclusive, Sized
<1>2. HInv /\ [Next]_heapVars => HInv'
  <2> SUFFICES ASSUME HInv, [Next]_heapVars PROVE HInv'
    OBVIOUS
  <2>1. CASE UNCHANGED heapVars
    BY <2>1 DEF heapVars, HInv, TypeOK, Exclusive, Sized
  <2> QED BY <2>1, ReserveInv, CommitInv, DiscardInv DEF Next
<1>3. HInv => Exclusive
  BY DEF HInv
<1> QED BY <1>1, <1>2, <1>3, PTL DEF Spec
=============================================================================
