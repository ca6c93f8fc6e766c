----------------------- MODULE JITMemoryManagerProofs -----------------------
(***************************************************************************)
(* First what each heap operation of JITMemoryManager does to one memory:  *)
(* the fields it changes, and that it keeps Well.  Then the invariance of  *)
(* IInv and what follows from it.                                          *)
(***************************************************************************)
EXTENDS JITMemoryManager, TLAPS

-----------------------------------------------------------------------------
(* The free list as a circle of Next and Prev links. *)

\* Taking a block out of the circle leaves a circle of the others.
LEMMA CircleRemove ==
  ASSUME NEW F, NEW next, NEW prev, Circle(F, next, prev),
         NEW b \in F, next[b] # b,
         NEW nx, nx = [x \in F \ {b} |-> IF x = prev[b] THEN next[b] ELSE next[x]],
         NEW pv, pv = [x \in F \ {b} |-> IF x = next[b] THEN prev[b] ELSE prev[x]]
  PROVE  Circle(F \ {b}, nx, pv)
<1>1. /\ next[b] \in F \ {b} /\ prev[b] \in F \ {b}
      /\ next[prev[b]] = b /\ prev[next[b]] = b
  BY DEF Circle
<1>2. DOMAIN nx = F \ {b} /\ DOMAIN pv = F \ {b}
  OBVIOUS
<1>3. \A x \in F \ {b} : nx[x] \in F \ {b} /\ pv[x] \in F \ {b}
  BY <1>1 DEF Circle
<1>4. \A x \in F \ {b} : nx[pv[x]] = x /\ pv[nx[x]] = x
  BY <1>1, <1>3 DEF Circle
<1>5. ASSUME NEW S \in SUBSET (F \ {b}), S # {}, \A x \in S : nx[x] \in S
      PROVE  S = F \ {b}
  <2>1. CASE prev[b] \in S
    <3>1. \A x \in S \cup {b} : next[x] \in S \cup {b}
      BY <1>1, <1>5, <2>1
    <3>2. S \cup {b} \in SUBSET F /\ S \cup {b} # {}
      OBVIOUS
    <3>3. S \cup {b} = F
      BY <3>1, <3>2 DEF Circle
    <3> QED BY <3>3
  <2>2. CASE prev[b] \notin S
    <3>1. \A x \in S : next[x] \in S
      BY <1>5, <2>2
    <3>2. S = F
      BY <3>1, <1>5 DEF Circle
    <3> QED BY <3>2, <1>1, <2>2 DEF Circle
  <2> QED BY <2>1, <2>2
<1> QED BY <1>2, <1>3, <1>4, <1>5 DEF Circle

\* Inserting a new block in front of a listed one leaves one circle.
LEMMA CircleAdd ==
  ASSUME NEW F, NEW next, NEW prev, Circle(F, next, prev),
         NEW h \in F, NEW b, b \notin F,
         NEW nx, DOMAIN nx = F \cup {b},
         \A x \in F \cup {b} : nx[x] = IF x = b THEN h
                                      ELSE IF x = prev[h] THEN b ELSE next[x],
         NEW pv, DOMAIN pv = F \cup {b},
         \A x \in F \cup {b} : pv[x] = IF x = b THEN prev[h]
                                      ELSE IF x = h THEN b ELSE prev[x]
  PROVE  Circle(F \cup {b}, nx, pv)
<1>1. prev[h] \in F /\ next[prev[h]] = h
  BY DEF Circle
<1>2. DOMAIN nx = F \cup {b} /\ DOMAIN pv = F \cup {b}
  OBVIOUS
<1>3. \A x \in F \cup {b} : nx[x] \in F \cup {b} /\ pv[x] \in F \cup {b}
  BY <1>1 DEF Circle
<1>4. \A x \in F \cup {b} : nx[pv[x]] = x /\ pv[nx[x]] = x
  BY <1>1 DEF Circle
<1>5. ASSUME NEW S \in SUBSET (F \cup {b}), S # {}, \A x \in S : nx[x] \in S
      PROVE  S = F \cup {b}
  <2> DEFINE T == S \ {b}
  <2>1. T # {} /\ T \in SUBSET F
    BY <1>1, <1>5
  <2>2. ASSUME NEW x \in T
        PROVE  next[x] \in T
    <3>1. next[x] \in F /\ nx[x] \in S
      BY <1>5 DEF Circle
    <3>2. CASE x = prev[h]
      <4>1. b \in S /\ nx[b] = h
        BY <3>1, <3>2
      <4> QED BY <4>1, <1>1, <1>5, <3>2
    <3>3. CASE x # prev[h]
      BY <3>1, <3>3
    <3> QED BY <3>2, <3>3
  <2>3. T = F
    BY <2>1, <2>2 DEF Circle
  <2>4. b \in S
    BY <2>3, <1>1, <1>5
  <2> QED BY <2>3, <2>4
<1> QED BY <1>2, <1>3, <1>4, <1>5 DEF Circle

-----------------------------------------------------------------------------
(* What each operation on a memory does to its fields. *)

\* RemoveFromFreeList changes links, and the flag when they are broken.
LEMMA RemoveFields ==
  ASSUME NEW m, NEW b, Fields(m)
  PROVE  LET r == RemoveFromFreeList(m, b)
             n == m.next[b]
             p == m.prev[b]
         IN /\ Fields(r)
            /\ r.size = m.size /\ r.allocated = m.allocated
            /\ r.prevAllocated = m.prevAllocated
            /\ r.mark = m.mark /\ r.head = m.head
            /\ r.next = [x \in DOMAIN m.next \ {b} |-> IF x = p THEN n ELSE m.next[x]]
            /\ r.prev = [x \in DOMAIN m.next \ {b} |-> IF x = n THEN p ELSE m.prev[x]]
            /\ m.ok = TRUE /\ m.prev[n] = b /\ m.next[p] = b => r.ok = TRUE
BY DEF Fields, RemoveFromFreeList

\* AddToFreeList changes links only.
LEMMA AddFields ==
  ASSUME NEW m, NEW b, NEW list, Fields(m)
  PROVE  LET r == AddToFreeList(m, b, list)
             p == m.prev[list]
         IN /\ Fields(r)
            /\ r.size = m.size /\ r.allocated = m.allocated
            /\ r.prevAllocated = m.prevAllocated
            /\ r.mark = m.mark /\ r.head = m.head /\ r.ok = m.ok
            /\ r.next = [x \in DOMAIN m.next \cup {b} |->
                           IF x = b THEN list ELSE IF x = p THEN b ELSE m.next[x]]
            /\ r.prev = [x \in DOMAIN m.next \cup {b} |->
                           IF x = b THEN p ELSE IF x = list THEN b ELSE m.prev[x]]
BY DEF Fields, AddToFreeList

\* SetEndOfBlockSizeMarker changes one word.
LEMMA MarkerFields ==
  ASSUME NEW m, NEW b, Fields(m)
  PROVE  LET r == SetEndOfBlockSizeMarker(m, b)
             e == getBlockAfter(m, b)
         IN /\ Fields(r)
            /\ r.size = m.size /\ r.allocated = m.allocated
            /\ r.prevAllocated = m.prevAllocated
            /\ r.head = m.head /\ r.ok = m.ok
            /\ r.next = m.next /\ r.prev = m.prev
            /\ r.mark = [x \in DOMAIN m.mark \cup {e} |->
                           IF x = e THEN m.size[b] ELSE m.mark[x]]
BY DEF Fields, SetEndOfBlockSizeMarker

\* AllocateBlock sets the two flags, unlinks the block and drops its marker.
LEMMA AllocateFields ==
  ASSUME NEW m, NEW b, Fields(m)
  PROVE  LET r == AllocateBlock(m, b)
             a == getBlockAfter(m, b)
             n == m.next[b]
             p == m.prev[b]
         IN /\ Fields(r)
            /\ r.size = m.size /\ r.allocated = m.allocated \cup {b}
            /\ r.prevAllocated = m.prevAllocated \cup {a}
            /\ r.mark = [x \in DOMAIN m.mark \ {a} |-> m.mark[x]]
            /\ r.head = n
            /\ r.next = [x \in DOMAIN m.next \ {b} |-> IF x = p THEN n ELSE m.next[x]]
            /\ r.prev = [x \in DOMAIN m.next \ {b} |-> IF x = n THEN p ELSE m.prev[x]]
            /\ /\ m.ok = TRUE /\ b \notin m.allocated /\ a \notin m.prevAllocated
               /\ m.prev[n] = b /\ m.next[p] = b
               => r.ok = TRUE
<1> DEFINE u == [m EXCEPT !.allocated = @ \cup {b},
                 !.prevAllocated = @ \cup {getBlockAfter(m, b)},
                 !.mark = [x \in DOMAIN m.mark \ {getBlockAfter(m, b)} |-> m.mark[x]],
                 !.head = m.next[b],
                 !.ok = @ /\ b \notin m.allocated
                          /\ getBlockAfter(m, b) \notin m.prevAllocated]
<1>1. /\ Fields(u)
      /\ u.size = m.size /\ u.allocated = m.allocated \cup {b}
      /\ u.prevAllocated = m.prevAllocated \cup {getBlockAfter(m, b)}
      /\ u.mark = [x \in DOMAIN m.mark \ {getBlockAfter(m, b)} |-> m.mark[x]]
      /\ u.head = m.next[b]
      /\ u.next = m.next /\ u.prev = m.prev
      /\ /\ m.ok = TRUE
         /\ b \notin m.allocated /\ getBlockAfter(m, b) \notin m.prevAllocated
         => u.ok = TRUE
  BY DEF Fields
<1>2. AllocateBlock(m, b) = RemoveFromFreeList(u, b)
  BY DEF AllocateBlock
<1> DEFINE r == RemoveFromFreeList(u, b)
<1> HIDE DEF u
<1>3. /\ Fields(r)
      /\ r.size = u.size /\ r.allocated = u.allocated
      /\ r.prevAllocated = u.prevAllocated
      /\ r.mark = u.mark /\ r.head = u.head
      /\ r.next = [x \in DOMAIN u.next \ {b} |->
                     IF x = u.prev[b] THEN u.next[b] ELSE u.next[x]]
      /\ r.prev = [x \in DOMAIN u.next \ {b} |->
                     IF x = u.next[b] THEN u.prev[b] ELSE u.prev[x]]
      /\ u.ok = TRUE /\ u.prev[u.next[b]] = b /\ u.next[u.prev[b]] = b => r.ok = TRUE
  BY <1>1, RemoveFields
<1> HIDE DEF r
<1> QED BY <1>1, <1>2, <1>3 DEF r

\* Absorb takes one block off the map and adds its words to another.
LEMMA AbsorbFields ==
  ASSUME NEW m, NEW b, NEW c, Fields(m)
  PROVE  LET r == Absorb(m, b, c)
         IN /\ Fields(r)
            /\ r.size = [x \in Blocks(m) \ {c} |->
                           IF x = b THEN m.size[b] + m.size[c] ELSE m.size[x]]
            /\ r.allocated = m.allocated \ {c}
            /\ r.prevAllocated = m.prevAllocated \ {c}
            /\ r.mark = [x \in DOMAIN m.mark \ {c} |-> m.mark[x]]
            /\ r.next = m.next /\ r.prev = m.prev /\ r.head = m.head /\ r.ok = m.ok
BY DEF Fields, Absorb
\* MergeFollowing unlinks the following block and absorbs it.
LEMMA MergeFields ==
  ASSUME NEW m, NEW b, Fields(m)
  PROVE  LET r == MergeFollowing(m, b)
             a == getBlockAfter(m, b)
             n == m.next[a]
             p == m.prev[a]
         IN /\ Fields(r)
            /\ r.size = [x \in Blocks(m) \ {a} |->
                           IF x = b THEN m.size[b] + m.size[a] ELSE m.size[x]]
            /\ r.allocated = m.allocated \ {a}
            /\ r.prevAllocated = (m.prevAllocated \ {a}) \cup {b + r.size[b]}
            /\ r.mark = [x \in DOMAIN m.mark \ {a} |-> m.mark[x]]
            /\ r.head = IF a = m.head THEN n ELSE m.head
            /\ r.next = [x \in DOMAIN m.next \ {a} |-> IF x = p THEN n ELSE m.next[x]]
            /\ r.prev = [x \in DOMAIN m.next \ {a} |-> IF x = n THEN p ELSE m.prev[x]]
            /\ m.ok = TRUE /\ m.prev[n] = a /\ m.next[p] = a /\ n # a => r.ok = TRUE
<1> DEFINE a == getBlockAfter(m, b)
           u == RemoveFromFreeList(m, a)
           g == Absorb(u, b, a)
           r == MergeFollowing(m, b)
<1>1. /\ Fields(u)
      /\ u.size = m.size /\ u.allocated = m.allocated
      /\ u.prevAllocated = m.prevAllocated
      /\ u.mark = m.mark /\ u.head = m.head
      /\ u.next = [x \in DOMAIN m.next \ {a} |->
                     IF x = m.prev[a] THEN m.next[a] ELSE m.next[x]]
      /\ u.prev = [x \in DOMAIN m.next \ {a} |->
                     IF x = m.next[a] THEN m.prev[a] ELSE m.prev[x]]
      /\ m.ok = TRUE /\ m.prev[m.next[a]] = a /\ m.next[m.prev[a]] = a => u.ok = TRUE
  BY RemoveFields
<1> HIDE DEF u
<1>2. /\ Fields(g)
      /\ g.size = [x \in Blocks(u) \ {a} |->
                     IF x = b THEN u.size[b] + u.size[a] ELSE u.size[x]]
      /\ g.allocated = u.allocated \ {a}
      /\ g.prevAllocated = u.prevAllocated \ {a}
      /\ g.mark = [x \in DOMAIN u.mark \ {a} |-> u.mark[x]]
      /\ g.next = u.next /\ g.prev = u.prev /\ g.head = u.head /\ g.ok = u.ok
  BY <1>1, AbsorbFields
<1> HIDE DEF g
<1>3. r = [g EXCEPT !.prevAllocated = @ \cup {getBlockAfter(g, b)},
               !.head = IF a = m.head THEN m.next[a] ELSE @,
               !.ok = @ /\ (a = m.head => m.next[a] # a)]
  BY DEF MergeFollowing, g, u
<1> HIDE DEF r, a
<1>4. /\ Fields(r)
      /\ r.size = g.size /\ r.allocated = g.allocated
      /\ r.prevAllocated = g.prevAllocated \cup {getBlockAfter(g, b)}
      /\ r.mark = g.mark /\ r.next = g.next /\ r.prev = g.prev
      /\ r.head = IF a = m.head THEN m.next[a] ELSE g.head
      /\ g.ok = TRUE /\ m.next[a] # a => r.ok = TRUE
  BY <1>2, <1>3 DEF Fields
<1> QED BY ZenonT(60), <1>1, <1>2, <1>4 DEF r, a, getBlockAfter, Blocks

\* GrowBlock absorbs the freed block and marks the new end.
LEMMA GrowFields ==
  ASSUME NEW m, NEW p, NEW b, Fields(m)
  PROVE  LET r == GrowBlock(m, p, b)
             e == p + r.size[p]
         IN /\ Fields(r)
            /\ r.size = [x \in Blocks(m) \ {b} |->
                           IF x = p THEN m.size[p] + m.size[b] ELSE m.size[x]]
            /\ r.allocated = m.allocated \ {b}
            /\ r.prevAllocated = (m.prevAllocated \ {b}) \ {e}
            /\ r.mark = [x \in (DOMAIN m.mark \ {b}) \cup {e} |->
                           IF x = e THEN r.size[p] ELSE m.mark[x]]
            /\ r.head = m.head /\ r.next = m.next /\ r.prev = m.prev
            /\ m.ok = TRUE /\ r.size[p] > m.size[p] => r.ok = TRUE
<1> DEFINE g == Absorb(m, p, b)
           s == SetEndOfBlockSizeMarker(g, p)
           r == GrowBlock(m, p, b)
<1>1. /\ Fields(g)
      /\ g.size = [x \in Blocks(m) \ {b} |->
                     IF x = p THEN m.size[p] + m.size[b] ELSE m.size[x]]
      /\ g.allocated = m.allocated \ {b}
      /\ g.prevAllocated = m.prevAllocated \ {b}
      /\ g.mark = [x \in DOMAIN m.mark \ {b} |-> m.mark[x]]
      /\ g.next = m.next /\ g.prev = m.prev /\ g.head = m.head /\ g.ok = m.ok
  BY AbsorbFields
<1> HIDE DEF g
<1>2. /\ Fields(s)
      /\ s.size = g.size /\ s.allocated = g.allocated
      /\ s.prevAllocated = g.prevAllocated
      /\ s.head = g.head /\ s.ok = g.ok
      /\ s.next = g.next /\ s.prev = g.prev
      /\ s.mark = [x \in DOMAIN g.mark \cup {getBlockAfter(g, p)} |->
                     IF x = getBlockAfter(g, p) THEN g.size[p] ELSE g.mark[x]]
  BY <1>1 DEF Fields, SetEndOfBlockSizeMarker
<1> HIDE DEF s
<1>3. r = [s EXCEPT !.prevAllocated = @ \ {getBlockAfter(g, p)},
                    !.ok = @ /\ g.size[p] > m.size[p]]
  BY DEF GrowBlock, s, g
<1> HIDE DEF r
<1>4. /\ Fields(r)
      /\ r.size = s.size /\ r.allocated = s.allocated /\ r.mark = s.mark
      /\ r.prevAllocated = s.prevAllocated \ {getBlockAfter(g, p)}
      /\ r.head = s.head /\ r.next = s.next /\ r.prev = s.prev
      /\ s.ok = TRUE /\ g.size[p] > m.size[p] => r.ok = TRUE
  BY <1>2, <1>3 DEF Fields
<1> QED BY <1>1, <1>2, <1>4 DEF r, getBlockAfter

\* MarkFree clears the flags, links the block at the head and marks its end.
LEMMA MarkFreeFields ==
  ASSUME NEW m, NEW b, Fields(m)
  PROVE  LET r == MarkFree(m, b)
             e == getBlockAfter(m, b)
             p == m.prev[m.head]
         IN /\ Fields(r)
            /\ r.size = m.size /\ r.allocated = m.allocated \ {b}
            /\ r.prevAllocated = m.prevAllocated \ {e}
            /\ r.mark = [x \in DOMAIN m.mark \cup {e} |->
                           IF x = e THEN m.size[b] ELSE m.mark[x]]
            /\ r.head = m.head /\ r.ok = m.ok
            /\ r.next = [x \in DOMAIN m.next \cup {b} |->
                           IF x = b THEN m.head ELSE IF x = p THEN b ELSE m.next[x]]
            /\ r.prev = [x \in DOMAIN m.next \cup {b} |->
                           IF x = b THEN p ELSE IF x = m.head THEN b ELSE m.prev[x]]
<1> DEFINE e == getBlockAfter(m, b)
           u == [m EXCEPT !.allocated = @ \ {b}, !.prevAllocated = @ \ {e}]
           v == AddToFreeList(u, b, m.head)
           r == MarkFree(m, b)
<1> HIDE DEF e
<1>1. /\ Fields(u)
      /\ u.size = m.size /\ u.allocated = m.allocated \ {b}
      /\ u.prevAllocated = m.prevAllocated \ {e}
      /\ u.mark = m.mark /\ u.head = m.head /\ u.ok = m.ok
      /\ u.next = m.next /\ u.prev = m.prev
  BY DEF Fields
<1> HIDE DEF u
<1>2. /\ Fields(v)
      /\ v.size = u.size /\ v.allocated = u.allocated
      /\ v.prevAllocated = u.prevAllocated
      /\ v.mark = u.mark /\ v.head = u.head /\ v.ok = u.ok
      /\ v.next = [x \in DOMAIN u.next \cup {b} |->
                     IF x = b THEN m.head ELSE IF x = u.prev[m.head] THEN b ELSE u.next[x]]
      /\ v.prev = [x \in DOMAIN u.next \cup {b} |->
                     IF x = b THEN u.prev[m.head] ELSE IF x = m.head THEN b ELSE u.prev[x]]
  BY <1>1, AddFields
<1> HIDE DEF v
<1>3. r = SetEndOfBlockSizeMarker(v, b)
  BY DEF MarkFree, v, u, e
<1>4. /\ Fields(r)
      /\ r.size = v.size /\ r.allocated = v.allocated
      /\ r.prevAllocated = v.prevAllocated
      /\ r.head = v.head /\ r.ok = v.ok
      /\ r.next = v.next /\ r.prev = v.prev
      /\ r.mark = [x \in DOMAIN v.mark \cup {getBlockAfter(v, b)} |->
                     IF x = getBlockAfter(v, b) THEN v.size[b] ELSE v.mark[x]]
  BY SMTT(30), <1>2, <1>3, MarkerFields
<1> HIDE DEF r
<1>5. getBlockAfter(v, b) = e
  BY <1>1, <1>2 DEF getBlockAfter, e
<1> QED BY <1>1, <1>2, <1>4, <1>5 DEF r, e

\* TrimAllocationToSize without a split changes nothing.
LEMMA TrimWholeFields ==
  ASSUME NEW m, NEW b, NEW k, Fields(m), TooSmallToSplit(m, b, AtLeastMin(k)),
         m.ok = TRUE, b \in m.allocated, getBlockAfter(m, b) \in m.prevAllocated,
         AtLeastMin(k) <= m.size[b]
  PROVE  LET r == TrimAllocationToSize(m, b, k)
         IN /\ Fields(r)
            /\ r.size = m.size /\ r.allocated = m.allocated
            /\ r.prevAllocated = m.prevAllocated /\ r.mark = m.mark
            /\ r.head = m.head /\ r.next = m.next /\ r.prev = m.prev
            /\ r.ok = TRUE
BY DEF TrimAllocationToSize, Fields

\* TrimAllocationToSize with a split turns the tail into a free block.
LEMMA TrimSplitFields ==
  ASSUME NEW m, NEW b, NEW k, Fields(m), ~ TooSmallToSplit(m, b, AtLeastMin(k)),
         m.ok = TRUE, b \in m.allocated, getBlockAfter(m, b) \in m.prevAllocated,
         AtLeastMin(k) <= m.size[b]
  PROVE  LET r == TrimAllocationToSize(m, b, k)
             n == AtLeastMin(k)
             a == getBlockAfter(m, b)
             t == b + n
             p == m.prev[m.head]
         IN /\ Fields(r)
            /\ r.size = [x \in Blocks(m) \cup {t} |->
                           IF x = b THEN n ELSE IF x = t THEN a - t ELSE m.size[x]]
            /\ r.allocated = m.allocated
            /\ r.prevAllocated = (m.prevAllocated \ {a}) \cup {t}
            /\ r.mark = [x \in DOMAIN m.mark \cup {t + r.size[t]} |->
                           IF x = t + r.size[t] THEN r.size[t] ELSE m.mark[x]]
            /\ r.head = t
            /\ r.next = [x \in DOMAIN m.next \cup {t} |->
                           IF x = t THEN m.head ELSE IF x = p THEN t ELSE m.next[x]]
            /\ r.prev = [x \in DOMAIN m.next \cup {t} |->
                           IF x = t THEN p ELSE IF x = m.head THEN t ELSE m.prev[x]]
            /\ r.ok = TRUE
<1> DEFINE n == AtLeastMin(k)
           a == getBlockAfter(m, b)
           t == b + n
           c == [m EXCEPT !.ok = @ /\ b \in m.allocated /\ a \in m.prevAllocated
                                   /\ n <= m.size[b]]
           s == [c EXCEPT !.size = [x \in Blocks(m) \cup {t} |->
                                      IF x = b THEN n
                                      ELSE IF x = t THEN a - t ELSE m.size[x]],
                          !.prevAllocated = (@ \ {a}) \cup {t}]
           u == SetEndOfBlockSizeMarker(s, t)
           v == AddToFreeList(u, t, m.head)
           r == TrimAllocationToSize(m, b, k)
<1>1. r = [v EXCEPT !.head = t]
  BY DEF TrimAllocationToSize
<1>0. m.ok = TRUE /\ b \in m.allocated /\ a \in m.prevAllocated /\ n <= m.size[b]
  OBVIOUS
<1> HIDE DEF n, a, t, r
<1>2. /\ Fields(s)
      /\ s.size = [x \in Blocks(m) \cup {t} |->
                     IF x = b THEN n ELSE IF x = t THEN a - t ELSE m.size[x]]
      /\ s.allocated = m.allocated
      /\ s.prevAllocated = (m.prevAllocated \ {a}) \cup {t}
      /\ s.mark = m.mark /\ s.next = m.next /\ s.prev = m.prev
      /\ s.ok = TRUE
  BY <1>0 DEF Fields
<1> HIDE DEF s, c
<1>3. /\ Fields(u)
      /\ u.size = s.size /\ u.allocated = s.allocated
      /\ u.prevAllocated = s.prevAllocated /\ u.ok = s.ok
      /\ u.next = s.next /\ u.prev = s.prev
      /\ u.mark = [x \in DOMAIN s.mark \cup {getBlockAfter(s, t)} |->
                     IF x = getBlockAfter(s, t) THEN s.size[t] ELSE s.mark[x]]
  BY <1>2 DEF Fields, SetEndOfBlockSizeMarker
<1> HIDE DEF u
<1>4. /\ Fields(v)
      /\ v.size = u.size /\ v.allocated = u.allocated
      /\ v.prevAllocated = u.prevAllocated
      /\ v.mark = u.mark /\ v.ok = u.ok
      /\ v.next = [x \in DOMAIN u.next \cup {t} |->
                     IF x = t THEN m.head ELSE IF x = u.prev[m.head] THEN t ELSE u.next[x]]
      /\ v.prev = [x \in DOMAIN u.next \cup {t} |->
                     IF x = t THEN u.prev[m.head] ELSE IF x = m.head THEN t ELSE u.prev[x]]
  BY <1>3 DEF Fields, AddToFreeList
<1> HIDE DEF v
<1>5. /\ Fields(r)
      /\ r.size = v.size /\ r.allocated = v.allocated
      /\ r.prevAllocated = v.prevAllocated
      /\ r.mark = v.mark /\ r.ok = v.ok /\ r.head = t
      /\ r.next = v.next /\ r.prev = v.prev
  BY <1>1, <1>4 DEF Fields
<1>6. getBlockAfter(s, t) = t + r.size[t]
  BY <1>3, <1>4, <1>5 DEF getBlockAfter
<1>7. s.size[t] = r.size[t]
  BY <1>3, <1>4, <1>5
<1> QED BY <1>2, <1>3, <1>4, <1>5, <1>6, <1>7 DEF r, t, a, n

\* A new slab brings one free block, its sentinel and their tags.
LEMMA SlabFields ==
  ASSUME NEW m, NEW base, NEW slabSize, NEW k, Fields(m)
  PROVE  LET r == WithSlab(m, base, slabSize, k)
             e == base + slabSize - HeaderSize
             p == m.prev[m.head]
         IN /\ Fields(r)
            /\ r.size = [x \in Blocks(m) \cup {base, e} |->
                           IF x = base THEN e - base
                           ELSE IF x = e THEN HeaderSize ELSE m.size[x]]
            /\ r.allocated = m.allocated \cup {e}
            /\ r.prevAllocated = m.prevAllocated \cup {base}
            /\ r.mark = [x \in DOMAIN m.mark \cup {base + r.size[base]} |->
                           IF x = base + r.size[base] THEN r.size[base] ELSE m.mark[x]]
            /\ r.head = m.head
            /\ r.next = [x \in DOMAIN m.next \cup {base} |->
                           IF x = base THEN m.head ELSE IF x = p THEN base ELSE m.next[x]]
            /\ r.prev = [x \in DOMAIN m.next \cup {base} |->
                           IF x = base THEN p ELSE IF x = m.head THEN base ELSE m.prev[x]]
            /\ m.ok = TRUE /\ (e - base) - HeaderSize >= k => r.ok = TRUE
<1> DEFINE e == base + slabSize - HeaderSize
           s == [m EXCEPT !.size = [x \in Blocks(m) \cup {base, e} |->
                                      IF x = base THEN e - base
                                      ELSE IF x = e THEN HeaderSize ELSE m.size[x]],
                          !.allocated = @ \cup {e},
                          !.prevAllocated = @ \cup {base},
                          !.ok = @ /\ (e - base) - HeaderSize >= k]
           u == SetEndOfBlockSizeMarker(s, base)
           r == WithSlab(m, base, slabSize, k)
<1>1. r = AddToFreeList(u, base, m.head)
  BY DEF WithSlab
<1> HIDE DEF e, r
<1>2. /\ Fields(s)
      /\ s.size = [x \in Blocks(m) \cup {base, e} |->
                     IF x = base THEN e - base
                     ELSE IF x = e THEN HeaderSize ELSE m.size[x]]
      /\ s.allocated = m.allocated \cup {e}
      /\ s.prevAllocated = m.prevAllocated \cup {base}
      /\ s.mark = m.mark /\ s.next = m.next /\ s.prev = m.prev /\ s.head = m.head
      /\ m.ok = TRUE /\ (e - base) - HeaderSize >= k => s.ok = TRUE
  BY DEF Fields
<1> HIDE DEF s
<1>3. /\ Fields(u)
      /\ u.size = s.size /\ u.allocated = s.allocated
      /\ u.prevAllocated = s.prevAllocated /\ u.ok = s.ok
      /\ u.next = s.next /\ u.prev = s.prev /\ u.head = s.head
      /\ u.mark = [x \in DOMAIN s.mark \cup {getBlockAfter(s, base)} |->
                     IF x = getBlockAfter(s, base) THEN s.size[base] ELSE s.mark[x]]
  BY <1>2 DEF Fields, SetEndOfBlockSizeMarker
<1> HIDE DEF u
<1>4. /\ Fields(r)
      /\ r.size = u.size /\ r.allocated = u.allocated
      /\ r.prevAllocated = u.prevAllocated
      /\ r.mark = u.mark /\ r.ok = u.ok /\ r.head = u.head
      /\ r.next = [x \in DOMAIN u.next \cup {base} |->
                     IF x = base THEN m.head
                     ELSE IF x = u.prev[m.head] THEN base ELSE u.next[x]]
      /\ r.prev = [x \in DOMAIN u.next \cup {base} |->
                     IF x = base THEN u.prev[m.head]
                     ELSE IF x = m.head THEN base ELSE u.prev[x]]
  BY <1>1, <1>3 DEF Fields, AddToFreeList
<1>5. getBlockAfter(s, base) = base + r.size[base] /\ s.size[base] = r.size[base]
  BY <1>3, <1>4 DEF getBlockAfter
<1> QED BY <1>2, <1>3, <1>4, <1>5 DEF r, e

-----------------------------------------------------------------------------
(* Each operation keeps Well. *)

\* A block ends behind its start, and no two blocks end at the same place.
LEMMA AfterFacts ==
  ASSUME NEW m, NEW slabs, Layout(m, slabs)
  PROVE  /\ \A b \in Blocks(m) : /\ getBlockAfter(m, b) \in Nat
                                 /\ getBlockAfter(m, b) > b
         /\ \A b, c \in Blocks(m) : getBlockAfter(m, b) = getBlockAfter(m, c) => b = c
<1>1. \A b \in Blocks(m) : /\ getBlockAfter(m, b) \in Nat
                           /\ getBlockAfter(m, b) > b
  BY DEF Layout, getBlockAfter
<1>2. ASSUME NEW b \in Blocks(m), NEW c \in Blocks(m),
             getBlockAfter(m, b) = getBlockAfter(m, c), b # c
      PROVE  FALSE
  <2>1. b \in Nat /\ c \in Nat
    BY DEF Layout
  <2>2. (b < c => getBlockAfter(m, b) <= c) /\ (c < b => getBlockAfter(m, c) <= b)
    BY DEF Layout
  <2> QED BY <1>1, <1>2, <2>1, <2>2
<1> QED BY <1>1, <1>2

\* The tombstone follows the separator in front of it.
LEMMA TombstoneFact ==
  ASSUME NEW m, NEW slabs, Layout(m, slabs), Fixed(m, slabs),
         NEW b \in Blocks(m) \ SentinelsOf(slabs)
  PROVE  getBlockAfter(m, b) # Mem2
<1>1. Mem1 \in SentinelsOf(slabs) /\ Mem1 \in Blocks(m) /\ m.size[Mem1] = 1
  BY DEF SentinelsOf, Fixed, Layout, HeaderSize
<1>2. getBlockAfter(m, Mem1) = Mem2
  BY <1>1, JMMAssumption DEF getBlockAfter, Mem1, Mem2, Mem3, HeaderSize, MinBlockSize
<1> QED BY <1>1, <1>2, AfterFacts

\* What follows the tombstone is the sentinel of the first slab.
LEMMA AfterTombstone ==
  ASSUME NEW m, NEW slabs, Fixed(m, slabs)
  PROVE  getBlockAfter(m, Mem2) = Mem3 /\ Mem3 \in SentinelsOf(slabs)
<1>1. m.size[Mem2] = 4
  BY DEF Fixed, MinBlockSize
<1> QED
  BY <1>1, JMMAssumption
     DEF getBlockAfter, SentinelsOf, Mem2, Mem3, HeaderSize, MinBlockSize

\* Allocating a free block other than the tombstone.
LEMMA AllocateWell ==
  ASSUME NEW m, NEW slabs, Well(m, slabs), NEW b \in Free(m), b # Mem2
  PROVE  LET r == AllocateBlock(m, b)
         IN /\ Well(r, slabs)
            /\ r.size = m.size
            /\ r.allocated = m.allocated \cup {b}
            /\ getBlockAfter(r, b) \in m.allocated
<1> DEFINE r == AllocateBlock(m, b)
           a == getBlockAfter(m, b)
<1>1. /\ Fields(r)
      /\ r.size = m.size /\ r.allocated = m.allocated \cup {b}
      /\ r.prevAllocated = m.prevAllocated \cup {a}
      /\ r.mark = [x \in DOMAIN m.mark \ {a} |-> m.mark[x]]
      /\ r.head = m.next[b]
      /\ r.next = [x \in DOMAIN m.next \ {b} |->
                     IF x = m.prev[b] THEN m.next[b] ELSE m.next[x]]
      /\ r.prev = [x \in DOMAIN m.next \ {b} |->
                     IF x = m.next[b] THEN m.prev[b] ELSE m.prev[x]]
      /\ /\ m.ok = TRUE /\ b \notin m.allocated /\ a \notin m.prevAllocated
         /\ m.prev[m.next[b]] = b /\ m.next[m.prev[b]] = b
         => r.ok = TRUE
  BY AllocateFields DEF Well
<1> HIDE DEF r
<1>2. /\ Fields(m) /\ Layout(m, slabs) /\ Fixed(m, slabs) /\ Tags(m)
      /\ Circle(Free(m), m.next, m.prev)
      /\ m.head \in Free(m)
      /\ m.ok = TRUE
  BY DEF Well
<1>3. /\ Blocks(r) = Blocks(m) /\ Free(r) = Free(m) \ {b}
      /\ \A x : getBlockAfter(r, x) = getBlockAfter(m, x)
  BY <1>1 DEF Blocks, Free, getBlockAfter
<1>4. b \in Blocks(m) /\ b \notin m.allocated /\ a \in m.allocated /\ a \in Blocks(m)
  BY <1>2 DEF Free, Tags, Layout
<1>5. a \notin m.prevAllocated
  BY <1>2, <1>4 DEF Tags
<1>6. Layout(r, slabs)
  BY <1>1, <1>2, <1>3, <1>4 DEF Layout
<1>7. Fixed(r, slabs)
  BY <1>1, <1>2, <1>3 DEF Fixed
<1>8. Tags(r)
  <2>1. \A c \in Blocks(m) : getBlockAfter(m, c) = a => c = b
    BY <1>2, <1>4, AfterFacts
  <2>2. \A c \in Blocks(m) : getBlockAfter(m, c) \in Blocks(m) =>
          (c \in r.allocated <=> getBlockAfter(m, c) \in r.prevAllocated)
    BY <1>1, <1>2, <2>1 DEF Tags
  <2>3. \A c \in Free(m) \ {b} :
          /\ getBlockAfter(m, c) \in r.allocated
          /\ getBlockAfter(m, c) \in DOMAIN r.mark
          /\ r.mark[getBlockAfter(m, c)] = r.size[c]
    BY <1>1, <1>2, <2>1 DEF Tags, Free
  <2> QED BY <1>3, <2>2, <2>3 DEF Tags
<1>9. m.next[b] # b
  <2>1. {b} \in SUBSET Free(m) /\ {b} # {}
    OBVIOUS
  <2>2. Mem2 \in Free(m)
    BY <1>2 DEF Fixed
  <2>3. CASE m.next[b] = b
    <3>1. \A x \in {b} : m.next[x] \in {b}
      BY <2>3
    <3>2. {b} = Free(m)
      BY <2>1, <3>1, <1>2 DEF Circle
    <3> QED BY <3>2, <2>2
  <2> QED BY <2>3
<1>10. Circle(Free(r), r.next, r.prev)
  <2>1. DOMAIN m.next = Free(m)
    BY <1>2 DEF Circle
  <2> QED BY <1>1, <1>2, <1>3, <1>9, <2>1, CircleRemove
<1>11. r.head \in Free(r) /\ r.ok = TRUE
  BY <1>1, <1>2, <1>3, <1>4, <1>5, <1>9 DEF Circle
<1> QED BY <1>1, <1>3, <1>4, <1>6, <1>7, <1>8, <1>10, <1>11 DEF Well, r

\* Taking the free block behind an allocated one into it.
LEMMA MergeWell ==
  ASSUME NEW m, NEW slabs, Well(m, slabs),
         NEW b \in m.allocated \ SentinelsOf(slabs), getBlockAfter(m, b) \in Free(m)
  PROVE  LET r == MergeFollowing(m, b)
             a == getBlockAfter(m, b)
         IN /\ Well(r, slabs)
            /\ r.allocated = m.allocated
            /\ Free(r) = Free(m) \ {a}
            /\ getBlockAfter(r, b) \in r.allocated
            /\ b \in r.prevAllocated <=> b \in m.prevAllocated
            /\ r.head = IF a = m.head THEN m.next[a] ELSE m.head
            /\ \A x \in m.allocated \ {b} : r.size[x] = m.size[x]
<1> DEFINE r == MergeFollowing(m, b)
           a == getBlockAfter(m, b)
           e == getBlockAfter(m, a)
<1>1. /\ Fields(r)
      /\ r.size = [x \in Blocks(m) \ {a} |->
                     IF x = b THEN m.size[b] + m.size[a] ELSE m.size[x]]
      /\ r.allocated = m.allocated \ {a}
      /\ r.prevAllocated = (m.prevAllocated \ {a}) \cup {b + r.size[b]}
      /\ r.mark = [x \in DOMAIN m.mark \ {a} |-> m.mark[x]]
      /\ r.head = IF a = m.head THEN m.next[a] ELSE m.head
      /\ r.next = [x \in DOMAIN m.next \ {a} |->
                     IF x = m.prev[a] THEN m.next[a] ELSE m.next[x]]
      /\ r.prev = [x \in DOMAIN m.next \ {a} |->
                     IF x = m.next[a] THEN m.prev[a] ELSE m.prev[x]]
      /\ /\ m.ok = TRUE /\ m.prev[m.next[a]] = a /\ m.next[m.prev[a]] = a
         /\ m.next[a] # a
         => r.ok = TRUE
  BY MergeFields DEF Well
<1> HIDE DEF r
<1>2. /\ Fields(m) /\ Layout(m, slabs) /\ Fixed(m, slabs) /\ Tags(m)
      /\ Circle(Free(m), m.next, m.prev)
      /\ m.head \in Free(m)
      /\ m.ok = TRUE
  BY DEF Well
<1>3. /\ b \in Blocks(m) /\ a \in Blocks(m) /\ a \notin m.allocated /\ a # b
      /\ e \in m.allocated /\ e \in Blocks(m)
      /\ b \in Nat /\ m.size[b] \in Nat \ {0} /\ a = b + m.size[b]
      /\ a \in Nat /\ m.size[a] \in Nat \ {0} /\ e = a + m.size[a]
  BY <1>2 DEF Free, Tags, Layout, getBlockAfter
<1>4. a # Mem2
  BY <1>2, <1>3, TombstoneFact
<1>5. /\ Blocks(r) = Blocks(m) \ {a}
      /\ Free(r) = Free(m) \ {a}
      /\ r.allocated = m.allocated
      /\ getBlockAfter(r, b) = e
      /\ \A x \in Blocks(m) \ {a, b} :
           r.size[x] = m.size[x] /\ getBlockAfter(r, x) = getBlockAfter(m, x)
  <2>1. /\ r.size = [x \in Blocks(m) \ {a} |-> IF x = b THEN m.size[b] + m.size[a] ELSE m.size[x]]
        /\ r.allocated = m.allocated \ {a}
    BY <1>1
  <2>2. /\ b \in Blocks(m) /\ a # b /\ a \notin m.allocated /\ b \in Nat
        /\ m.size[b] \in Nat /\ m.size[a] \in Nat
        /\ a = b + m.size[b] /\ e = a + m.size[a]
    BY <1>3
  <2> HIDE DEF a, e
  <2>3. Blocks(r) = Blocks(m) \ {a} /\ Free(r) = Free(m) \ {a} /\ r.allocated = m.allocated
    BY <2>1, <2>2 DEF Blocks, Free
  <2>4. r.size[b] = m.size[b] + m.size[a]
    BY <2>1, <2>2
  <2>5. getBlockAfter(r, b) = e
    BY <2>2, <2>4 DEF getBlockAfter
  <2>6. \A x \in Blocks(m) \ {a, b} : r.size[x] = m.size[x]
    BY <2>1
  <2>7. \A x \in Blocks(m) \ {a, b} : getBlockAfter(r, x) = getBlockAfter(m, x)
    BY <2>6 DEF getBlockAfter
  <2> QED BY <2>3, <2>5, <2>6, <2>7
<1>6. \A c \in Blocks(m) : /\ getBlockAfter(m, c) = a => c = b
                           /\ getBlockAfter(m, c) = e => c = a
  BY <1>2, <1>3, AfterFacts
<1>7. a \notin m.prevAllocated <=> b \notin m.allocated
  BY <1>2, <1>3 DEF Tags
<1>8. b + r.size[b] = e
  BY <1>5 DEF getBlockAfter
<1>9. Layout(r, slabs)
  <2>1. \A x \in Blocks(r) : x \in Nat /\ r.size[x] \in Nat \ {0}
    <3>1. \A x \in Blocks(m) : x \in Nat /\ m.size[x] \in Nat \ {0}
      BY <1>2 DEF Layout
    <3>2. b + r.size[b] = e /\ b \in Nat /\ r.size[b] = m.size[b] + m.size[a]
          /\ m.size[b] \in Nat \ {0} /\ m.size[a] \in Nat \ {0}
      BY <1>1, <1>3, <1>8
    <3> HIDE DEF a, e
    <3>3. Blocks(r) = Blocks(m) \ {a} /\ \A x \in Blocks(m) \ {a, b} : r.size[x] = m.size[x]
      BY <1>5
    <3> QED BY <3>1, <3>2, <3>3
  <2>2. r.allocated \subseteq Blocks(r) /\ r.prevAllocated \subseteq Blocks(r)
    <3>1. m.allocated \subseteq Blocks(m) /\ m.prevAllocated \subseteq Blocks(m)
      BY <1>2 DEF Layout
    <3>2. /\ r.prevAllocated = (m.prevAllocated \ {a}) \cup {e}
          /\ e \in Blocks(m) /\ e \in m.allocated /\ a \notin m.allocated
      BY <1>1, <1>3, <1>8
    <3> HIDE DEF a, e
    <3> QED BY <1>5, <3>1, <3>2
  <2>3. ASSUME NEW x \in Blocks(r), NEW y \in Blocks(r), x < y
        PROVE  getBlockAfter(r, x) <= y
    <3>1. CASE x = b
      <4>1. a <= y /\ y # a
        BY <1>2, <1>3, <1>5, <2>3, <3>1 DEF Layout
      <4>2. a < y
        BY <4>1, <1>3, <1>5, <2>1
      <4> QED BY <4>2, <1>2, <1>3, <1>5, <3>1 DEF Layout
    <3>2. CASE x # b
      BY <1>2, <1>5, <2>3, <3>2 DEF Layout
    <3> QED BY <3>1, <3>2
  <2>4. \A x \in Blocks(r) \ SentinelsOf(slabs) :
          getBlockAfter(r, x) \in Blocks(r) \ DOMAIN slabs /\ r.size[x] >= MinBlockSize
    <3>1. ASSUME NEW x \in Blocks(r) \ SentinelsOf(slabs), x # b
          PROVE  getBlockAfter(r, x) \in Blocks(r) \ DOMAIN slabs /\ r.size[x] >= MinBlockSize
      BY <1>2, <1>5, <1>6, <3>1 DEF Layout
    <3>2. m.size[b] >= MinBlockSize
      BY <1>2, <1>3 DEF Layout
    <3>3. r.size[b] >= MinBlockSize
      BY <3>2, <1>1, <1>3 DEF MinBlockSize
    <3>4. a \notin SentinelsOf(slabs)
      BY <1>2, <1>3 DEF Fixed
    <3>5. e # a /\ e \notin DOMAIN slabs
      BY <1>2, <1>3, <3>4 DEF Layout
    <3> QED BY <3>1, <3>3, <3>5, <1>3, <1>5
  <2>5. \A x \in Blocks(r) : \E s \in DOMAIN slabs :
          s <= x /\ getBlockAfter(r, x) <= SlabEnd(slabs, s)
    <3>1. ASSUME NEW x \in Blocks(r), x # b
          PROVE  \E s \in DOMAIN slabs : s <= x /\ getBlockAfter(r, x) <= SlabEnd(slabs, s)
      BY <1>2, <1>5, <3>1 DEF Layout
    <3>2. \E s \in DOMAIN slabs : s <= b /\ e <= SlabEnd(slabs, s)
      <4>1. PICK s \in DOMAIN slabs : s <= a /\ e <= SlabEnd(slabs, s)
        BY <1>2, <1>3 DEF Layout
      <4>2. s \in Blocks(m) /\ s \in Nat
        BY <1>2 DEF Fixed, Layout
      <4>3. s # a
        BY <1>2, <1>3 DEF Layout
      <4>4. ~ (b < s)
        BY <1>2, <1>3, <4>1, <4>2, <4>3 DEF Layout
      <4> QED BY <4>1, <4>2, <4>4, <1>3
    <3> QED BY <3>1, <3>2, <1>5
  <2>6. \A c \in Blocks(r) \ DOMAIN slabs : \E x \in Blocks(r) : getBlockAfter(r, x) = c
    <3>1. ASSUME NEW c \in Blocks(r) \ DOMAIN slabs
          PROVE  \E x \in Blocks(r) : getBlockAfter(r, x) = c
      <4>1. PICK x \in Blocks(m) : getBlockAfter(m, x) = c
        BY <1>2, <1>5 DEF Layout
      <4>2. CASE x = a
        BY <4>1, <4>2, <1>3, <1>5
      <4>3. CASE x # a
        BY <4>1, <4>3, <1>3, <1>5
      <4> QED BY <4>2, <4>3
    <3> QED BY <3>1
  <2> QED BY <2>1, <2>2, <2>3, <2>4, <2>5, <2>6 DEF Layout
<1>10. Fixed(r, slabs)
  <2>1. DOMAIN slabs \subseteq Blocks(r) \cap r.prevAllocated
    <3>1. DOMAIN slabs \subseteq Blocks(m) \cap m.prevAllocated
      BY <1>2 DEF Fixed
    <3>2. r.prevAllocated = (m.prevAllocated \ {a}) \cup {e}
      BY <1>1, <1>8
    <3>3. a \notin DOMAIN slabs
      <4>1. b \in Blocks(m) \ SentinelsOf(slabs)
        BY <1>3
      <4> QED BY <1>2, <4>1 DEF Layout
    <3> HIDE DEF a, e
    <3> QED BY <1>5, <3>1, <3>2, <3>3
  <2>2. \A k \in SentinelsOf(slabs) : k \in m.allocated /\ k # b /\ k # a
    BY <1>2, <1>3 DEF Fixed
  <2>3. \A k \in SentinelsOf(slabs) : k \in Blocks(m) \ {a, b} /\ m.size[k] = HeaderSize
    BY <1>2, <2>2 DEF Fixed, Layout
  <2>4. Mem2 \in Free(r) /\ r.size[Mem2] = MinBlockSize
    BY <1>1, <1>2, <1>3, <1>4, <1>5 DEF Fixed, Free
  <2> QED BY <2>1, <2>2, <2>3, <2>4, <1>2, <1>5 DEF Fixed
<1>11. Tags(r)
  <2>1. ASSUME NEW x \in Blocks(r), getBlockAfter(r, x) \in Blocks(r)
        PROVE  x \in r.allocated <=> getBlockAfter(r, x) \in r.prevAllocated
    <3>1. CASE x = b
      BY <1>1, <1>5, <1>8, <3>1
    <3>2. CASE x # b
      <4>1. getBlockAfter(r, x) = getBlockAfter(m, x) /\ getBlockAfter(m, x) # e
        BY <1>5, <1>6, <3>2
      <4>2. getBlockAfter(m, x) # a
        BY <4>1, <2>1, <1>5
      <4> QED BY <4>1, <4>2, <2>1, <1>1, <1>2, <1>5, <1>8 DEF Tags
    <3> QED BY <3>1, <3>2
  <2>2. \A x \in Free(r) :
          /\ getBlockAfter(r, x) \in r.allocated
          /\ getBlockAfter(r, x) \in DOMAIN r.mark
          /\ r.mark[getBlockAfter(r, x)] = r.size[x]
    <3>1. ASSUME NEW x \in Free(m) \ {a}
          PROVE  /\ getBlockAfter(r, x) = getBlockAfter(m, x)
                 /\ r.size[x] = m.size[x]
      BY <1>5 DEF Free
    <3>2. ASSUME NEW x \in Free(m)
          PROVE  /\ getBlockAfter(m, x) \in m.allocated
                 /\ getBlockAfter(m, x) \in DOMAIN m.mark \ {a}
                 /\ m.mark[getBlockAfter(m, x)] = m.size[x]
      BY <1>2, <1>3 DEF Tags
    <3> QED BY <3>1, <3>2, <1>1, <1>5
  <2> QED BY <2>1, <2>2 DEF Tags
<1>12. m.next[a] # a
  <2>1. {a} \in SUBSET Free(m) /\ {a} # {} /\ Mem2 \in Free(m)
    BY <1>2 DEF Fixed
  <2>2. CASE m.next[a] = a
    <3>1. \A x \in {a} : m.next[x] \in {a}
      BY <2>2
    <3>2. {a} = Free(m)
      BY <2>1, <3>1, <1>2 DEF Circle
    <3> QED BY <3>2, <2>1, <1>4
  <2> QED BY <2>2
<1>13. Circle(Free(r), r.next, r.prev)
  <2>1. DOMAIN m.next = Free(m)
    BY <1>2 DEF Circle
  <2> QED BY SMTT(30), <1>1, <1>2, <1>5, <1>12, <2>1, CircleRemove
<1>14. r.head \in Free(r) /\ r.ok = TRUE
  BY <1>1, <1>2, <1>5, <1>12 DEF Circle
<1>15. b \in r.prevAllocated <=> b \in m.prevAllocated
  <2>1. r.prevAllocated = (m.prevAllocated \ {a}) \cup {e}
    BY <1>1, <1>8
  <2>2. b \in Nat /\ a = b + m.size[b] /\ e = a + m.size[a] /\ m.size[b] \in Nat \ {0} /\ m.size[a] \in Nat \ {0}
    BY <1>3
  <2> HIDE DEF a, e
  <2>3. a \in Nat /\ b < a
    BY <2>2
  <2>4. e \in Nat /\ a < e
    BY <2>2, <2>3
  <2>5. b # a /\ b # e
    BY <2>2, <2>3, <2>4
  <2> QED BY <2>1, <2>5
<1>16. \A x \in m.allocated \ {b} : r.size[x] = m.size[x]
  <2>1. m.allocated \subseteq Blocks(m)
    BY <1>2 DEF Layout
  <2>2. a \notin m.allocated
    BY <1>3
  <2> HIDE DEF a, e
  <2> QED BY <1>5, <2>1, <2>2
<1>17. Well(r, slabs)
  BY <1>1, <1>9, <1>10, <1>11, <1>13, <1>14 DEF Well
<1> QED BY <1>1, <1>3, <1>5, <1>15, <1>16, <1>17 DEF r

\* Giving an allocated block to the free block in front of it.
LEMMA GrowWell ==
  ASSUME NEW m, NEW slabs, Well(m, slabs),
         NEW b \in m.allocated \ SentinelsOf(slabs),
         b \notin m.prevAllocated, getBlockAfter(m, b) \in m.allocated
  PROVE  LET p == FreeBlockBefore(m, b)
             r == GrowBlock(m, p, b)
         IN /\ Well(r, slabs)
            /\ p \in Free(m)
            /\ r.allocated = m.allocated \ {b}
            /\ Free(r) = Free(m)
            /\ \A x \in m.allocated \ {b} : r.size[x] = m.size[x]
<1> DEFINE p == FreeBlockBefore(m, b)
           r == GrowBlock(m, p, b)
           e == getBlockAfter(m, b)
<1>2. /\ Fields(m) /\ Layout(m, slabs) /\ Fixed(m, slabs) /\ Tags(m)
      /\ Circle(Free(m), m.next, m.prev)
      /\ m.head \in Free(m)
      /\ m.ok = TRUE
  BY DEF Well
<1>3. /\ b \in Blocks(m) /\ b \in m.allocated /\ e \in Blocks(m) /\ e \in m.allocated
      /\ b \in Nat /\ m.size[b] \in Nat \ {0} /\ e = b + m.size[b]
  BY <1>2 DEF Layout, getBlockAfter
<1>4. p \in Free(m) /\ getBlockAfter(m, p) = b
  <2>1. PICK c \in Blocks(m) : getBlockAfter(m, c) = b
    BY <1>2, <1>3 DEF Layout, Fixed
  <2>2. c \in Free(m)
    BY <1>2, <1>3, <2>1 DEF Tags, Free
  <2>3. m.mark[b] = m.size[c]
    BY <1>2, <2>1, <2>2 DEF Tags
  <2>4. c \in Nat /\ m.size[c] \in Nat /\ b = c + m.size[c]
    BY <1>2, <2>1 DEF Layout, getBlockAfter
  <2>5. p = c
    BY <1>3, <2>3, <2>4 DEF FreeBlockBefore
  <2> QED BY <2>1, <2>2, <2>5
<1>5. p \in Blocks(m) /\ p \notin m.allocated /\ p # b /\ p \in Nat
      /\ m.size[p] \in Nat \ {0} /\ b = p + m.size[p]
  BY <1>2, <1>3, <1>4 DEF Free, Layout, getBlockAfter
<1> HIDE DEF p
<1>6. /\ Fields(r)
      /\ r.size = [x \in Blocks(m) \ {b} |->
                     IF x = p THEN m.size[p] + m.size[b] ELSE m.size[x]]
      /\ r.allocated = m.allocated \ {b}
      /\ r.prevAllocated = (m.prevAllocated \ {b}) \ {p + r.size[p]}
      /\ r.mark = [x \in (DOMAIN m.mark \ {b}) \cup {p + r.size[p]} |->
                     IF x = p + r.size[p] THEN r.size[p] ELSE m.mark[x]]
      /\ r.head = m.head /\ r.next = m.next /\ r.prev = m.prev
      /\ m.ok = TRUE /\ r.size[p] > m.size[p] => r.ok = TRUE
  BY <1>2, GrowFields
<1> HIDE DEF r
<1>7. /\ Blocks(r) = Blocks(m) \ {b}
      /\ Free(r) = Free(m)
      /\ r.size[p] = m.size[p] + m.size[b]
      /\ p + r.size[p] = e
      /\ getBlockAfter(r, p) = e
      /\ \A x \in Blocks(m) \ {b, p} :
           r.size[x] = m.size[x] /\ getBlockAfter(r, x) = getBlockAfter(m, x)
  <2>1. Blocks(r) = Blocks(m) \ {b} /\ Free(r) = Free(m)
    BY <1>3, <1>6 DEF Blocks, Free
  <2>2. r.size[p] = m.size[p] + m.size[b]
    BY <1>5, <1>6
  <2>3. p + r.size[p] = e
    BY <1>3, <1>5, <2>2
  <2>4. getBlockAfter(r, p) = e
    BY <2>3 DEF getBlockAfter
  <2>5. \A x \in Blocks(m) \ {b, p} : r.size[x] = m.size[x]
    BY <1>6
  <2>6. \A x \in Blocks(m) \ {b, p} : getBlockAfter(r, x) = getBlockAfter(m, x)
    BY <2>5 DEF getBlockAfter
  <2> HIDE DEF e
  <2> QED BY <2>1, <2>2, <2>3, <2>4, <2>5, <2>6
<1>8. \A c \in Blocks(m) : /\ getBlockAfter(m, c) = b => c = p
                           /\ getBlockAfter(m, c) = e => c = b
  BY <1>2, <1>3, <1>4, <1>5, AfterFacts
<1>9. p \notin SentinelsOf(slabs)
  BY <1>2, <1>5 DEF Fixed
<1>10. Layout(r, slabs)
  <2>1. \A x \in Blocks(r) : x \in Nat /\ r.size[x] \in Nat \ {0}
    BY <1>2, <1>3, <1>5, <1>7 DEF Layout
  <2>2. r.allocated \subseteq Blocks(r) /\ r.prevAllocated \subseteq Blocks(r)
    BY <1>2, <1>6, <1>7 DEF Layout
  <2>3. ASSUME NEW x \in Blocks(r), NEW y \in Blocks(r), x < y
        PROVE  getBlockAfter(r, x) <= y
    <3>1. CASE x = p
      <4>1. b <= y /\ y # b
        BY <1>2, <1>4, <1>5, <1>7, <2>3, <3>1 DEF Layout
      <4>2. b < y
        BY <4>1, <1>3, <1>7, <2>1
      <4> QED BY <4>2, <1>2, <1>3, <1>7, <3>1 DEF Layout
    <3>2. CASE x # p
      BY <1>2, <1>7, <2>3, <3>2 DEF Layout
    <3> QED BY <3>1, <3>2
  <2>4. \A x \in Blocks(r) \ SentinelsOf(slabs) :
          getBlockAfter(r, x) \in Blocks(r) \ DOMAIN slabs /\ r.size[x] >= MinBlockSize
    <3>1. ASSUME NEW x \in Blocks(r) \ SentinelsOf(slabs), x # p
          PROVE  getBlockAfter(r, x) \in Blocks(r) \ DOMAIN slabs /\ r.size[x] >= MinBlockSize
      BY <1>2, <1>7, <1>8, <3>1 DEF Layout
    <3>2. m.size[p] >= MinBlockSize
      BY <1>2, <1>5, <1>9 DEF Layout
    <3>3. r.size[p] >= MinBlockSize
      BY <3>2, <1>7, <1>3, <1>5 DEF MinBlockSize
    <3>4. e # b /\ e \notin DOMAIN slabs
      BY <1>2, <1>3 DEF Layout
    <3> QED BY <3>1, <3>3, <3>4, <1>3, <1>7
  <2>5. \A x \in Blocks(r) : \E s \in DOMAIN slabs :
          s <= x /\ getBlockAfter(r, x) <= SlabEnd(slabs, s)
    <3>1. ASSUME NEW x \in Blocks(r), x # p
          PROVE  \E s \in DOMAIN slabs : s <= x /\ getBlockAfter(r, x) <= SlabEnd(slabs, s)
      BY <1>2, <1>7, <3>1 DEF Layout
    <3>2. \E s \in DOMAIN slabs : s <= p /\ e <= SlabEnd(slabs, s)
      <4>1. PICK s \in DOMAIN slabs : s <= b /\ e <= SlabEnd(slabs, s)
        BY <1>2, <1>3 DEF Layout
      <4>2. s \in Blocks(m) /\ s \in Nat
        BY <1>2 DEF Fixed, Layout
      <4>3. s # b
        BY <1>2, <1>4, <1>5, <1>9 DEF Layout
      <4>4. ~ (p < s)
        BY SMTT(30), <1>2, <1>3, <1>4, <1>5, <4>1, <4>2, <4>3 DEF Layout
      <4> QED BY <4>1, <4>2, <4>4, <1>5
    <3> QED BY <3>1, <3>2, <1>7
  <2>6. \A c \in Blocks(r) \ DOMAIN slabs : \E x \in Blocks(r) : getBlockAfter(r, x) = c
    <3>1. ASSUME NEW c \in Blocks(r) \ DOMAIN slabs
          PROVE  \E x \in Blocks(r) : getBlockAfter(r, x) = c
      <4>1. PICK x \in Blocks(m) : getBlockAfter(m, x) = c
        BY <1>2, <1>7 DEF Layout
      <4>2. CASE x = b
        BY <4>1, <4>2, <1>5, <1>7
      <4>3. CASE x # b
        <5>1. x # p
          BY <1>4, <1>7, <3>1, <4>1
        <5> QED BY <5>1, <4>1, <4>3, <1>7
      <4> QED BY <4>2, <4>3
    <3> QED BY <3>1
  <2> QED BY <2>1, <2>2, <2>3, <2>4, <2>5, <2>6 DEF Layout
<1>11. Fixed(r, slabs)
  <2>1. b \notin DOMAIN slabs /\ e \notin DOMAIN slabs
    BY <1>2, <1>3 DEF Fixed, Layout
  <2>2. DOMAIN slabs \subseteq Blocks(r) \cap r.prevAllocated
    BY <2>1, <1>2, <1>6, <1>7 DEF Fixed
  <2>3. \A k \in SentinelsOf(slabs) : k \in Blocks(m) \ {p, b} /\ m.size[k] = HeaderSize
                                      /\ k \in r.allocated
    BY <1>2, <1>6, <1>9 DEF Fixed, Layout
  <2>4. Mem2 # p
    BY <1>2, <1>4, AfterTombstone
  <2>5. Mem2 \in Free(r) /\ r.size[Mem2] = MinBlockSize
    BY <1>2, <1>3, <1>7, <2>4 DEF Fixed, Free
  <2> QED BY <2>2, <2>3, <2>5, <1>2, <1>7 DEF Fixed
<1>12. Tags(r)
  <2>1. ASSUME NEW x \in Blocks(r), getBlockAfter(r, x) \in Blocks(r)
        PROVE  x \in r.allocated <=> getBlockAfter(r, x) \in r.prevAllocated
    <3>1. CASE x = p
      BY <1>5, <1>6, <1>7, <3>1
    <3>2. CASE x # p
      <4>1. /\ getBlockAfter(r, x) = getBlockAfter(m, x) /\ x # b
            /\ getBlockAfter(m, x) # e /\ getBlockAfter(m, x) # b
            /\ getBlockAfter(m, x) \in Blocks(m)
        BY <1>7, <1>8, <2>1, <3>2
      <4>2. x \in m.allocated <=> getBlockAfter(m, x) \in m.prevAllocated
        BY <4>1, <2>1, <1>2, <1>7 DEF Tags
      <4> QED BY <4>1, <4>2, <1>6, <1>7
    <3> QED BY <3>1, <3>2
  <2>2. \A x \in Free(r) :
          /\ getBlockAfter(r, x) \in r.allocated
          /\ getBlockAfter(r, x) \in DOMAIN r.mark
          /\ r.mark[getBlockAfter(r, x)] = r.size[x]
    <3>1. ASSUME NEW x \in Free(m) \ {p}
          PROVE  /\ getBlockAfter(r, x) = getBlockAfter(m, x)
                 /\ r.size[x] = m.size[x]
      BY <1>3, <1>7 DEF Free
    <3>2. ASSUME NEW x \in Free(m) \ {p}
          PROVE  /\ getBlockAfter(m, x) \in m.allocated \ {b, e}
                 /\ getBlockAfter(m, x) \in DOMAIN m.mark
                 /\ m.mark[getBlockAfter(m, x)] = m.size[x]
      BY <1>2, <1>3, <1>8 DEF Tags, Free
    <3>3. ASSUME NEW x \in Free(m) \ {p}
          PROVE  /\ getBlockAfter(r, x) \in r.allocated
                 /\ getBlockAfter(r, x) \in DOMAIN r.mark
                 /\ r.mark[getBlockAfter(r, x)] = r.size[x]
      <4> DEFINE y == getBlockAfter(m, x)
      <4>1. y \in m.allocated \ {b, e} /\ y \in DOMAIN m.mark /\ m.mark[y] = m.size[x]
        BY <3>2
      <4> HIDE DEF y
      <4>2. y \in r.allocated /\ y \in DOMAIN r.mark /\ r.mark[y] = m.mark[y]
        BY <4>1, <1>6, <1>7
      <4> QED BY <3>1, <4>1, <4>2 DEF y
    <3>4. e # b
      BY <1>3
    <3>5. e \in r.allocated /\ e \in DOMAIN r.mark /\ r.mark[e] = r.size[p]
      BY <3>4, <1>3, <1>6, <1>7
    <3> QED BY <3>3, <3>5, <1>7
  <2> QED BY <2>1, <2>2 DEF Tags
<1>13. \A x \in m.allocated \ {b} : r.size[x] = m.size[x]
  BY <1>2, <1>5, <1>7 DEF Layout
<1>14. r.ok = TRUE
  <2>1. m.ok = TRUE /\ (r.size[p] > m.size[p] => r.ok = TRUE)
    BY <1>2, <1>6
  <2>2. r.size[p] = m.size[p] + m.size[b] /\ m.size[p] \in Nat /\ m.size[b] \in Nat \ {0}
    BY <1>3, <1>5, <1>7
  <2>3. r.size[p] > m.size[p]
    BY <2>2
  <2> QED BY <2>1, <2>3
<1>15. Well(r, slabs)
  BY <1>2, <1>6, <1>7, <1>10, <1>11, <1>12, <1>14 DEF Well
<1> QED BY <1>4, <1>6, <1>7, <1>13, <1>15 DEF r, p

\* Inserting a block into the free list of a memory.
LEMMA CircleOfMemory ==
  ASSUME NEW m, Circle(Free(m), m.next, m.prev), m.head \in Free(m),
         NEW b, b \notin Free(m), NEW r,
         r.next = [x \in DOMAIN m.next \cup {b} |->
                     IF x = b THEN m.head
                     ELSE IF x = m.prev[m.head] THEN b ELSE m.next[x]],
         r.prev = [x \in DOMAIN m.next \cup {b} |->
                     IF x = b THEN m.prev[m.head]
                     ELSE IF x = m.head THEN b ELSE m.prev[x]]
  PROVE  Circle(Free(m) \cup {b}, r.next, r.prev)
<1>1. DOMAIN m.next = Free(m)
  BY DEF Circle
<1> DEFINE F == Free(m)
           nx == r.next
           pv == r.prev
           next == m.next
           prev == m.prev
           h == m.head
<1>2. /\ Circle(F, next, prev) /\ h \in F /\ b \notin F
      /\ DOMAIN nx = F \cup {b} /\ DOMAIN pv = F \cup {b}
      /\ \A x \in F \cup {b} : nx[x] = IF x = b THEN h
                                  ELSE IF x = prev[h] THEN b ELSE next[x]
      /\ \A x \in F \cup {b} : pv[x] = IF x = b THEN prev[h]
                                  ELSE IF x = h THEN b ELSE prev[x]
  BY <1>1
<1> HIDE DEF F, nx, pv, next, prev, h
<1>3. Circle(F \cup {b}, nx, pv)
  BY SMTT(30), <1>2, CircleAdd
<1> QED BY <1>3 DEF F, nx, pv

\* Turning an allocated block between two allocated ones free.
LEMMA MarkFreeWell ==
  ASSUME NEW m, NEW slabs, Well(m, slabs),
         NEW b \in m.allocated \ SentinelsOf(slabs),
         b \in m.prevAllocated, getBlockAfter(m, b) \in m.allocated
  PROVE  LET r == MarkFree(m, b)
         IN /\ Well(r, slabs)
            /\ r.size = m.size
            /\ r.allocated = m.allocated \ {b}
            /\ Free(r) = Free(m) \cup {b}
<1> DEFINE r == MarkFree(m, b)
           e == getBlockAfter(m, b)
<1>1. /\ Fields(r)
      /\ r.size = m.size /\ r.allocated = m.allocated \ {b}
      /\ r.prevAllocated = m.prevAllocated \ {e}
      /\ r.mark = [x \in DOMAIN m.mark \cup {e} |->
                     IF x = e THEN m.size[b] ELSE m.mark[x]]
      /\ r.head = m.head /\ r.ok = m.ok
      /\ r.next = [x \in DOMAIN m.next \cup {b} |->
                     IF x = b THEN m.head
                     ELSE IF x = m.prev[m.head] THEN b ELSE m.next[x]]
      /\ r.prev = [x \in DOMAIN m.next \cup {b} |->
                     IF x = b THEN m.prev[m.head]
                     ELSE IF x = m.head THEN b ELSE m.prev[x]]
  BY MarkFreeFields DEF Well
<1> HIDE DEF r
<1>2. /\ Fields(m) /\ Layout(m, slabs) /\ Fixed(m, slabs) /\ Tags(m)
      /\ Circle(Free(m), m.next, m.prev)
      /\ m.head \in Free(m)
      /\ m.ok = TRUE
  BY DEF Well
<1>3. /\ b \in Blocks(m) /\ b \in m.allocated /\ e \in Blocks(m) /\ e \in m.allocated
      /\ b \in Nat /\ m.size[b] \in Nat \ {0} /\ e = b + m.size[b] /\ e # b
      /\ e \notin DOMAIN slabs
  BY <1>2 DEF Layout, getBlockAfter
<1>4. /\ Blocks(r) = Blocks(m) /\ Free(r) = Free(m) \cup {b}
      /\ \A x : getBlockAfter(r, x) = getBlockAfter(m, x)
  BY <1>1, <1>3 DEF Blocks, Free, getBlockAfter
<1>5. \A c \in Blocks(m) : getBlockAfter(m, c) = e => c = b
  BY <1>2, <1>3, AfterFacts
<1>6. Layout(r, slabs)
  <2>1. r.allocated \subseteq Blocks(r) /\ r.prevAllocated \subseteq Blocks(r)
    BY <1>1, <1>2, <1>4 DEF Layout
  <2> QED BY <1>1, <1>2, <1>4, <2>1 DEF Layout
<1>7. Fixed(r, slabs)
  <2>1. DOMAIN slabs \subseteq Blocks(r) \cap r.prevAllocated
    BY <1>1, <1>2, <1>3, <1>4 DEF Fixed
  <2> QED BY <2>1, <1>1, <1>2, <1>4 DEF Fixed
<1>8. Tags(r)
  <2>1. ASSUME NEW x \in Blocks(m), getBlockAfter(m, x) \in Blocks(m)
        PROVE  x \in r.allocated <=> getBlockAfter(m, x) \in r.prevAllocated
    BY <2>1, <1>1, <1>2, <1>5 DEF Tags
  <2>2. ASSUME NEW x \in Free(m)
        PROVE  /\ getBlockAfter(m, x) \in r.allocated
               /\ getBlockAfter(m, x) \in DOMAIN r.mark
               /\ r.mark[getBlockAfter(m, x)] = r.size[x]
    <3> DEFINE y == getBlockAfter(m, x)
    <3>1. /\ y \in m.allocated /\ y \in DOMAIN m.mark /\ m.mark[y] = m.size[x]
          /\ x \in Blocks(m) /\ x # b
      BY <1>2, <1>3 DEF Tags, Free
    <3>2. y # e
      BY <3>1, <1>5
    <3>3. y # b
      BY <3>1, <1>2, <1>3 DEF Tags, Free
    <3> HIDE DEF y
    <3>4. y \in r.allocated /\ y \in DOMAIN r.mark /\ r.mark[y] = m.mark[y]
      BY <3>1, <3>2, <3>3, <1>1
    <3> QED BY <3>1, <3>4, <1>1 DEF y
  <2>3. e \in r.allocated /\ e \in DOMAIN r.mark /\ r.mark[e] = r.size[b]
    BY <1>1, <1>3
  <2> QED BY <2>1, <2>2, <2>3, <1>4 DEF Tags
<1>9. Circle(Free(r), r.next, r.prev)
  <2>1. DOMAIN m.next = Free(m) /\ b \notin Free(m)
    BY <1>2, <1>3 DEF Circle, Free
  <2>2. Circle(Free(m) \cup {b}, r.next, r.prev)
    BY <1>1, <1>2, <2>1, CircleOfMemory
  <2> QED BY <1>4, <2>2
<1>10. r.head \in Free(r) /\ r.ok = TRUE
  BY <1>1, <1>2, <1>4
<1> QED BY <1>1, <1>4, <1>6, <1>7, <1>8, <1>9, <1>10 DEF Well, r

\* Well does not depend on which free block is the head of the list.
LEMMA SameWell ==
  ASSUME NEW m, NEW slabs, Well(m, slabs), NEW r, Fields(r),
         r.size = m.size, r.allocated = m.allocated,
         r.prevAllocated = m.prevAllocated, r.mark = m.mark,
         r.next = m.next, r.prev = m.prev,
         r.head \in Free(m), r.ok = TRUE
  PROVE  Well(r, slabs)
<1>1. /\ Blocks(r) = Blocks(m) /\ Free(r) = Free(m)
      /\ \A x : getBlockAfter(r, x) = getBlockAfter(m, x)
  BY DEF Blocks, Free, getBlockAfter
<1>2. Layout(r, slabs)
  <2>1. Layout(m, slabs)
    BY DEF Well
  <2> QED BY <1>1, <2>1 DEF Layout
<1>3. Fixed(r, slabs)
  <2>1. Fixed(m, slabs)
    BY DEF Well
  <2> QED BY <1>1, <2>1 DEF Fixed
<1>4. Tags(r)
  <2>1. Tags(m)
    BY DEF Well
  <2> QED BY <1>1, <2>1 DEF Tags
<1>5. Circle(Free(r), r.next, r.prev)
  BY <1>1 DEF Well
<1> QED BY <1>1, <1>2, <1>3, <1>4, <1>5 DEF Well

\* FreeBlock, whichever neighbours of the block are free.
LEMMA FreeWell ==
  ASSUME NEW m, NEW slabs, Well(m, slabs),
         NEW b \in m.allocated \ SentinelsOf(slabs)
  PROVE  LET r == FreeBlock(m, b)
         IN /\ Well(r, slabs)
            /\ r.allocated = m.allocated \ {b}
            /\ \A x \in m.allocated \ {b} : r.size[x] = m.size[x]
<1> DEFINE a == getBlockAfter(m, b)
           n == IF a \in m.allocated THEN m ELSE MergeFollowing(m, b)
           c == [n EXCEPT !.ok = @ /\ b \in m.allocated /\ a \in m.prevAllocated
                                   /\ getBlockAfter(n, b) \in n.allocated]
           q == FreeBlockBefore(c, b)
           list(dflt) == IF a = m.head THEN dflt ELSE m.head
           r == FreeBlock(m, b)
<1>1. /\ Layout(m, slabs) /\ Tags(m) /\ Fixed(m, slabs) /\ m.head \in Free(m)
      /\ Circle(Free(m), m.next, m.prev)
  BY DEF Well
<1>2. b \in Blocks(m) /\ a \in Blocks(m) /\ a \in m.prevAllocated
  BY <1>1 DEF Layout, Tags
<1>3. r = IF b \notin m.prevAllocated
          THEN [GrowBlock(c, q, b) EXCEPT !.head = list(q)]
          ELSE [MarkFree(c, b) EXCEPT !.head = list(b)]
  BY DEF FreeBlock
<1>4. /\ Well(n, slabs)
      /\ n.allocated = m.allocated
      /\ getBlockAfter(n, b) \in n.allocated
      /\ b \in n.prevAllocated <=> b \in m.prevAllocated
      /\ \A x \in m.allocated \ {b} : n.size[x] = m.size[x]
      /\ a = m.head \/ m.head \in Free(n)
  <2>1. CASE a \in m.allocated
    BY <2>1, <1>1
  <2>2. CASE a \notin m.allocated
    <3>1. a \in Free(m)
      BY <1>2, <2>2 DEF Free
    <3> QED BY <1>1, <2>2, <3>1, MergeWell
  <2> QED BY <2>1, <2>2
<1> HIDE DEF n, a, r
<1>5. /\ Fields(c)
      /\ c.size = n.size /\ c.allocated = n.allocated
      /\ c.prevAllocated = n.prevAllocated /\ c.mark = n.mark
      /\ c.next = n.next /\ c.prev = n.prev /\ c.head = n.head
      /\ c.ok = TRUE
  <2>1. Fields(n) /\ n.ok = TRUE
    BY <1>4 DEF Well
  <2> QED BY <2>1, <1>2, <1>4 DEF Fields
<1> HIDE DEF c
<1>6. Well(c, slabs) /\ Free(c) = Free(n)
      /\ getBlockAfter(c, b) = getBlockAfter(n, b)
  <2>1. Free(c) = Free(n) /\ getBlockAfter(c, b) = getBlockAfter(n, b)
    BY <1>5 DEF Free, Blocks, getBlockAfter
  <2>2. n.head \in Free(n)
    BY <1>4 DEF Well
  <2> QED BY <2>1, <2>2, <1>4, <1>5, SameWell
<1>7. b \in c.allocated \ SentinelsOf(slabs) /\ getBlockAfter(c, b) \in c.allocated
  BY <1>4, <1>5, <1>6
<1>8. ASSUME NEW w, NEW h, Well(w, slabs), h \in Free(w),
             w.allocated = m.allocated \ {b},
             \A x \in m.allocated \ {b} : w.size[x] = m.size[x],
             r = [w EXCEPT !.head = h]
      PROVE  /\ Well(r, slabs)
             /\ r.allocated = m.allocated \ {b}
             /\ \A x \in m.allocated \ {b} : r.size[x] = m.size[x]
  <2>1. Fields(w) /\ w.ok = TRUE
    BY <1>8 DEF Well
  <2>2. /\ Fields(r)
        /\ r.size = w.size /\ r.allocated = w.allocated
        /\ r.prevAllocated = w.prevAllocated /\ r.mark = w.mark
        /\ r.next = w.next /\ r.prev = w.prev /\ r.head = h /\ r.ok = w.ok
    BY <2>1, <1>8 DEF Fields
  <2>3. Well(r, slabs)
    BY <1>8, <2>1, <2>2, SameWell
  <2> QED BY <2>2, <2>3, <1>8
<1>9. CASE b \notin m.prevAllocated
  <2> DEFINE w == GrowBlock(c, q, b)
  <2>1. /\ Well(w, slabs) /\ q \in Free(c)
        /\ w.allocated = c.allocated \ {b}
        /\ Free(w) = Free(c)
        /\ \A x \in c.allocated \ {b} : w.size[x] = c.size[x]
    BY <1>4, <1>5, <1>6, <1>7, <1>9, GrowWell
  <2> HIDE DEF w, q
  <2>2. list(q) \in Free(w)
    BY <2>1, <1>4, <1>6
  <2>3. r = [w EXCEPT !.head = list(q)]
    BY <1>3, <1>9 DEF w
  <2> HIDE DEF list
  <2> QED BY <2>1, <2>2, <2>3, <1>4, <1>5, <1>8 DEF r
<1>10. CASE b \in m.prevAllocated
  <2> DEFINE w == MarkFree(c, b)
  <2>1. /\ Well(w, slabs)
        /\ w.size = c.size
        /\ w.allocated = c.allocated \ {b}
        /\ Free(w) = Free(c) \cup {b}
    BY <1>4, <1>5, <1>6, <1>7, <1>10, MarkFreeWell
  <2> HIDE DEF w
  <2>2. list(b) \in Free(w)
    BY <2>1, <1>4, <1>6
  <2>3. r = [w EXCEPT !.head = list(b)]
    BY <1>3, <1>10 DEF w
  <2> HIDE DEF list
  <2> QED BY <2>1, <2>2, <2>3, <1>4, <1>5, <1>8 DEF r
<1> QED BY <1>9, <1>10 DEF r

\* Cutting the tail off an allocated block that is followed by another one.
LEMMA TrimWell ==
  ASSUME NEW m, NEW slabs, Well(m, slabs),
         NEW b \in m.allocated \ SentinelsOf(slabs),
         getBlockAfter(m, b) \in m.allocated,
         NEW k, k \in Nat, AtLeastMin(k) <= m.size[b]
  PROVE  LET r == TrimAllocationToSize(m, b, k)
         IN /\ Well(r, slabs)
            /\ r.allocated = m.allocated
            /\ r.size[b] \in Nat /\ r.size[b] <= m.size[b]
            /\ \A x \in m.allocated \ {b} : r.size[x] = m.size[x]
<1> DEFINE r == TrimAllocationToSize(m, b, k)
           n == AtLeastMin(k)
           a == getBlockAfter(m, b)
           t == b + n
<1>1. /\ Fields(m) /\ Layout(m, slabs) /\ Fixed(m, slabs) /\ Tags(m)
      /\ Circle(Free(m), m.next, m.prev)
      /\ m.head \in Free(m)
      /\ m.ok = TRUE
  BY DEF Well
<1>2. /\ b \in Blocks(m) /\ b \in m.allocated /\ a \in Blocks(m) /\ a \in m.allocated
      /\ b \in Nat /\ m.size[b] \in Nat \ {0} /\ a = b + m.size[b] /\ a # b
      /\ a \notin DOMAIN slabs
  BY <1>1 DEF Layout, getBlockAfter
<1>3. a \in m.prevAllocated
  BY <1>1, <1>2 DEF Tags
<1>4. n \in Nat /\ n >= MinBlockSize /\ n <= m.size[b]
  BY DEF AtLeastMin, MinBlockSize
<1>5. CASE TooSmallToSplit(m, b, n)
  <2>1. /\ Fields(r)
        /\ r.size = m.size /\ r.allocated = m.allocated
        /\ r.prevAllocated = m.prevAllocated /\ r.mark = m.mark
        /\ r.head = m.head /\ r.next = m.next /\ r.prev = m.prev
        /\ r.ok = TRUE
    BY <1>1, <1>3, <1>5, TrimWholeFields
  <2> HIDE DEF r
  <2>2. Well(r, slabs)
    BY <2>1, <1>1, SameWell
  <2> QED BY <2>1, <2>2, <1>2 DEF r
<1>6. CASE ~ TooSmallToSplit(m, b, n)
  <2>1. /\ Fields(r)
        /\ r.size = [x \in Blocks(m) \cup {t} |->
                       IF x = b THEN n ELSE IF x = t THEN a - t ELSE m.size[x]]
        /\ r.allocated = m.allocated
        /\ r.prevAllocated = (m.prevAllocated \ {a}) \cup {t}
        /\ r.mark = [x \in DOMAIN m.mark \cup {t + r.size[t]} |->
                       IF x = t + r.size[t] THEN r.size[t] ELSE m.mark[x]]
        /\ r.head = t
        /\ r.next = [x \in DOMAIN m.next \cup {t} |->
                       IF x = t THEN m.head
                       ELSE IF x = m.prev[m.head] THEN t ELSE m.next[x]]
        /\ r.prev = [x \in DOMAIN m.next \cup {t} |->
                       IF x = t THEN m.prev[m.head]
                       ELSE IF x = m.head THEN t ELSE m.prev[x]]
        /\ r.ok = TRUE
    BY <1>1, <1>3, <1>6, TrimSplitFields
  <2>2. t \in Nat /\ b < t /\ t + MinBlockSize < a /\ a - t \in Nat \ {0}
    BY <1>2, <1>4, <1>6 DEF MinBlockSize, TooSmallToSplit
  <2> HIDE DEF r
  <2>3. t \notin Blocks(m)
    BY <1>1, <1>2, <2>2 DEF Layout, MinBlockSize
  <2> HIDE DEF t
  <2>4. /\ Blocks(r) = Blocks(m) \cup {t}
        /\ Free(r) = Free(m) \cup {t}
        /\ r.size[t] = a - t /\ r.size[b] = n
        /\ t + r.size[t] = a
        /\ getBlockAfter(r, t) = a /\ getBlockAfter(r, b) = t
        /\ \A x \in Blocks(m) \ {b} :
             r.size[x] = m.size[x] /\ getBlockAfter(r, x) = getBlockAfter(m, x)
    <3>1. Blocks(r) = Blocks(m) \cup {t}
      BY <2>1 DEF Blocks
    <3>2. t \notin m.allocated
      BY <2>3, <1>1 DEF Layout
    <3>3. r.size[t] = a - t /\ r.size[b] = n
      BY <2>1, <2>3, <1>2
    <3>4. t + (a - t) = a /\ b + n = t
      BY <2>2, <1>2 DEF t
    <3>5. \A x \in Blocks(m) \ {b} : r.size[x] = m.size[x]
      BY <2>1, <2>3
    <3> QED BY <3>1, <3>2, <3>3, <3>4, <3>5, <2>1 DEF getBlockAfter, Free
  <2>5. \A c \in Blocks(m) : getBlockAfter(m, c) = a => c = b
    BY <1>1, <1>2, AfterFacts
  <2>6. \A c \in Blocks(m) \ {b} : (c < b /\ getBlockAfter(m, c) <= b) \/ c >= a
    BY <1>1, <1>2 DEF Layout
  <2>7. Layout(r, slabs)
    <3>1. \A x \in Blocks(r) : x \in Nat /\ r.size[x] \in Nat \ {0}
      BY <1>1, <1>4, <2>2, <2>4 DEF Layout, MinBlockSize
    <3>2. r.allocated \subseteq Blocks(r) /\ r.prevAllocated \subseteq Blocks(r)
      BY <1>1, <2>1, <2>4 DEF Layout
    <3>3. ASSUME NEW x \in Blocks(r), NEW y \in Blocks(r), x < y
          PROVE  getBlockAfter(r, x) <= y
      <4>1. x \in Nat /\ y \in Nat
        BY <3>1
      <4>2. CASE x = b
        <5>1. y = t \/ y >= a
          BY <4>1, <4>2, <3>3, <2>4, <2>6, <1>2
        <5> QED BY <4>1, <4>2, <5>1, <2>2, <2>4, <1>2 DEF MinBlockSize
      <4>3. CASE x = t
        <5>1. y # b /\ y # t
          BY <4>1, <4>3, <3>3, <2>2, <1>2
        <5>2. y >= a
          BY <5>1, <4>1, <4>3, <3>3, <2>2, <2>4, <2>6, <1>2
        <5> QED BY <5>2, <4>3, <2>4
      <4>4. CASE x # b /\ x # t /\ y = t
        <5>1. x < b /\ getBlockAfter(m, x) <= b
          BY <4>1, <4>4, <3>3, <2>2, <2>4, <2>6, <1>2 DEF MinBlockSize
        <5>2. getBlockAfter(m, x) \in Nat
          BY <1>1, <2>4, <4>4, AfterFacts
        <5> QED BY <5>1, <5>2, <4>4, <2>2, <2>4, <1>2
      <4>5. CASE x # b /\ x # t /\ y # t
        BY <4>5, <3>3, <2>4, <1>1 DEF Layout
      <4> QED BY <4>2, <4>3, <4>4, <4>5
    <3>4. \A x \in Blocks(r) \ SentinelsOf(slabs) :
            getBlockAfter(r, x) \in Blocks(r) \ DOMAIN slabs /\ r.size[x] >= MinBlockSize
      <4>1. \A x \in Blocks(m) \ (SentinelsOf(slabs) \cup {b}) :
              getBlockAfter(r, x) \in Blocks(r) \ DOMAIN slabs /\ r.size[x] >= MinBlockSize
        BY <1>1, <2>4 DEF Layout
      <4>2. t \notin DOMAIN slabs
        BY <1>1, <2>3 DEF Fixed
      <4>3. a - t >= MinBlockSize
        BY <2>2, <1>2 DEF MinBlockSize
      <4> QED BY <4>1, <4>2, <4>3, <1>2, <1>4, <2>4
    <3>5. \A x \in Blocks(r) : \E s \in DOMAIN slabs :
            s <= x /\ getBlockAfter(r, x) <= SlabEnd(slabs, s)
      <4>1. \A x \in Blocks(m) \ {b} : \E s \in DOMAIN slabs :
              s <= x /\ getBlockAfter(r, x) <= SlabEnd(slabs, s)
        BY <1>1, <2>4 DEF Layout
      <4>2. PICK s \in DOMAIN slabs : s <= b /\ a <= SlabEnd(slabs, s)
        BY <1>1, <1>2 DEF Layout
      <4>3. s \in Nat /\ SlabEnd(slabs, s) \in Int
        <5>1. s \in Nat /\ slabs[s] \in Nat
          BY <1>1 DEF Fixed, Layout
        <5> QED BY <5>1 DEF SlabEnd
      <4>4. s <= t /\ t <= SlabEnd(slabs, s)
        BY <4>2, <4>3, <2>2, <1>2 DEF MinBlockSize
      <4> QED BY <4>1, <4>2, <4>4, <2>4
    <3>6. \A c \in Blocks(r) \ DOMAIN slabs : \E x \in Blocks(r) : getBlockAfter(r, x) = c
      <4>1. ASSUME NEW c \in Blocks(m) \ DOMAIN slabs, c # a
            PROVE  \E x \in Blocks(r) : getBlockAfter(r, x) = c
        BY <4>1, <1>1, <2>4 DEF Layout
      <4> QED BY <4>1, <1>2, <2>4
    <3> QED BY <3>1, <3>2, <3>3, <3>4, <3>5, <3>6 DEF Layout
  <2>8. Fixed(r, slabs)
    <3>1. DOMAIN slabs \subseteq Blocks(r) \cap r.prevAllocated
      BY <1>1, <1>2, <2>1, <2>4 DEF Fixed
    <3>2. \A x \in SentinelsOf(slabs) : x \in m.allocated /\ x # b /\ x \in Blocks(m)
      BY <1>1 DEF Fixed, Layout
    <3>3. \A x \in SentinelsOf(slabs) : r.size[x] = HeaderSize
      BY <1>1, <2>4, <3>2 DEF Fixed
    <3>4. Mem2 \in Free(r) /\ r.size[Mem2] = MinBlockSize
      BY <1>1, <2>4 DEF Fixed, Free
    <3> QED BY <3>1, <3>2, <3>3, <3>4, <1>1, <2>1 DEF Fixed
  <2>9. Tags(r)
    <3>1. ASSUME NEW x \in Blocks(r), getBlockAfter(r, x) \in Blocks(r)
          PROVE  x \in r.allocated <=> getBlockAfter(r, x) \in r.prevAllocated
      <4>1. CASE x = b
        BY <4>1, <1>2, <2>1, <2>4
      <4>2. CASE x = t
        BY <4>2, <1>1, <2>1, <2>2, <2>3, <2>4 DEF Layout, MinBlockSize
      <4>3. CASE x # b /\ x # t
        <5> DEFINE y == getBlockAfter(m, x)
        <5>1. x \in Blocks(m) /\ getBlockAfter(r, x) = y /\ y # a
          BY <4>3, <2>4, <2>5
        <5>2. y # t
          <6>1. y \in Nat /\ y > x /\ x \in Nat
            BY <5>1, <1>1, AfterFacts DEF Layout
          <6>2. y <= b \/ x >= a
            BY <4>3, <5>1, <2>6
          <6> QED BY <6>1, <6>2, <2>2, <1>2 DEF MinBlockSize
        <5>3. y \in Blocks(m)
          BY <5>1, <5>2, <3>1, <2>4
        <5>4. x \in m.allocated <=> y \in m.prevAllocated
          BY <5>1, <5>3, <1>1 DEF Tags
        <5> HIDE DEF y
        <5> QED BY <5>1, <5>2, <5>4, <2>1
      <4> QED BY <4>1, <4>2, <4>3
    <3>2. ASSUME NEW x \in Free(m)
          PROVE  /\ getBlockAfter(r, x) \in r.allocated
                 /\ getBlockAfter(r, x) \in DOMAIN r.mark
                 /\ r.mark[getBlockAfter(r, x)] = r.size[x]
      <4> DEFINE y == getBlockAfter(m, x)
      <4>1. /\ y \in m.allocated /\ y \in DOMAIN m.mark /\ m.mark[y] = m.size[x]
            /\ x \in Blocks(m) /\ x # b
        BY <1>1, <1>2 DEF Tags, Free
      <4>2. getBlockAfter(r, x) = y /\ r.size[x] = m.size[x] /\ y # a
        BY <4>1, <2>4, <2>5
      <4> HIDE DEF y
      <4>3. y \in DOMAIN r.mark /\ r.mark[y] = m.mark[y]
        BY <4>1, <4>2, <2>1, <2>4
      <4> QED BY <4>1, <4>2, <4>3, <2>1
    <3>3. a \in r.allocated /\ a \in DOMAIN r.mark /\ r.mark[a] = r.size[t]
      BY <1>2, <2>1, <2>4
    <3> QED BY <3>1, <3>2, <3>3, <2>4 DEF Tags
  <2>10. Circle(Free(r), r.next, r.prev)
    <3>1. t \notin Free(m)
      BY <2>3 DEF Free
    <3>2. /\ r.next = [x \in DOMAIN m.next \cup {t} |->
                         IF x = t THEN m.head
                         ELSE IF x = m.prev[m.head] THEN t ELSE m.next[x]]
          /\ r.prev = [x \in DOMAIN m.next \cup {t} |->
                         IF x = t THEN m.prev[m.head]
                         ELSE IF x = m.head THEN t ELSE m.prev[x]]
      BY <2>1
    <3>3. Circle(Free(m) \cup {t}, r.next, r.prev)
      BY <1>1, <3>1, <3>2, CircleOfMemory
    <3> QED BY <2>4, <3>3
  <2>11. r.head \in Free(r)
    BY <2>1, <2>4
  <2>12. Well(r, slabs)
    BY <2>1, <2>7, <2>8, <2>9, <2>10, <2>11 DEF Well
  <2>13. \A x \in m.allocated \ {b} : r.size[x] = m.size[x]
    BY <1>1, <2>4 DEF Layout
  <2> QED BY <2>1, <2>4, <2>12, <2>13, <1>2, <1>4 DEF r
<1> QED BY <1>5, <1>6

\* The slab a request of k words makes the manager map behind all others.
LEMMA SlabWell ==
  ASSUME NEW m, NEW slabs, Well(m, slabs), NEW k \in Nat,
         NEW base \in Nat, NEW n \in Nat, n >= DefaultCodeSlabSize, n >= PaddedMin(k),
         \A s \in DOMAIN slabs : SlabEnd(slabs, s) <= base,
         NEW new, new = [s \in DOMAIN slabs \cup {base} |-> IF s = base THEN n ELSE slabs[s]]
  PROVE  LET r == WithSlab(m, base, n, k)
         IN /\ Well(r, new)
            /\ base \in Free(r) /\ base # Mem2
            /\ r.size[base] - HeaderSize >= k
            /\ base \notin Blocks(m)
            /\ SentinelsOf(new) = SentinelsOf(slabs) \cup {base + n - HeaderSize}
            /\ base + n - HeaderSize \notin Blocks(m)
            /\ r.allocated = m.allocated \cup {base + n - HeaderSize}
            /\ \A x \in m.allocated : r.size[x] = m.size[x]
<1> DEFINE r == WithSlab(m, base, n, k)
           e == base + n - HeaderSize
<1>1. /\ Fields(m) /\ Layout(m, slabs) /\ Fixed(m, slabs) /\ Tags(m)
      /\ Circle(Free(m), m.next, m.prev)
      /\ m.head \in Free(m)
      /\ m.ok = TRUE
  BY DEF Well
<1>2. /\ e \in Nat /\ base < e /\ e - base >= MinBlockSize /\ e - base \in Nat \ {0}
      /\ (e - base) - HeaderSize >= k /\ e + 1 = base + n
  BY JMMAssumption DEF HeaderSize, MinBlockSize, PaddedMin
<1>3. /\ Fields(r)
      /\ r.size = [x \in Blocks(m) \cup {base, e} |->
                     IF x = base THEN e - base
                     ELSE IF x = e THEN HeaderSize ELSE m.size[x]]
      /\ r.allocated = m.allocated \cup {e}
      /\ r.prevAllocated = m.prevAllocated \cup {base}
      /\ r.mark = [x \in DOMAIN m.mark \cup {base + r.size[base]} |->
                     IF x = base + r.size[base] THEN r.size[base] ELSE m.mark[x]]
      /\ r.head = m.head
      /\ r.next = [x \in DOMAIN m.next \cup {base} |->
                     IF x = base THEN m.head
                     ELSE IF x = m.prev[m.head] THEN base ELSE m.next[x]]
      /\ r.prev = [x \in DOMAIN m.next \cup {base} |->
                     IF x = base THEN m.prev[m.head]
                     ELSE IF x = m.head THEN base ELSE m.prev[x]]
      /\ m.ok = TRUE /\ (e - base) - HeaderSize >= k => r.ok = TRUE
  BY <1>1, SlabFields
<1> HIDE DEF r
<1>4. \A x \in Blocks(m) : getBlockAfter(m, x) <= base /\ x < base /\ x \in Nat
                           /\ getBlockAfter(m, x) \in Nat
  <2>1. ASSUME NEW x \in Blocks(m)
        PROVE  getBlockAfter(m, x) <= base
    <3>1. PICK s \in DOMAIN slabs : s <= x /\ getBlockAfter(m, x) <= SlabEnd(slabs, s)
      BY <1>1 DEF Layout
    <3>2. SlabEnd(slabs, s) \in Nat /\ SlabEnd(slabs, s) <= base
      BY <1>1 DEF Fixed, Layout, SlabEnd
    <3> QED BY <3>1, <3>2, <1>1, AfterFacts
  <2>2. \A x \in Blocks(m) : x \in Nat
    BY <1>1 DEF Layout
  <2> QED BY <2>1, <2>2, <1>1, AfterFacts
<1>5. base \notin Blocks(m) /\ e \notin Blocks(m) /\ base \notin DOMAIN slabs
  BY <1>1, <1>2, <1>4 DEF Fixed
<1> HIDE DEF e
<1>6. /\ Blocks(r) = Blocks(m) \cup {base, e}
      /\ Free(r) = Free(m) \cup {base}
      /\ r.size[base] = e - base /\ r.size[e] = 1
      /\ base + r.size[base] = e
      /\ getBlockAfter(r, base) = e /\ getBlockAfter(r, e) = base + n
      /\ \A x \in Blocks(m) :
           r.size[x] = m.size[x] /\ getBlockAfter(r, x) = getBlockAfter(m, x)
  <2>1. Blocks(r) = Blocks(m) \cup {base, e}
    BY <1>3 DEF Blocks
  <2>2. r.size[base] = e - base /\ r.size[e] = 1
    BY <1>2, <1>3 DEF HeaderSize
  <2>3. base \notin r.allocated
    BY <1>1, <1>2, <1>3, <1>5 DEF Layout
  <2>4. \A x \in Blocks(m) : r.size[x] = m.size[x]
    BY <1>3, <1>5
  <2>5. base + (e - base) = e
    BY <1>2
  <2>6. Free(r) = Free(m) \cup {base}
    BY <2>1, <2>3, <1>1, <1>3, <1>5 DEF Free, Layout
  <2>7. getBlockAfter(r, base) = e /\ getBlockAfter(r, e) = base + n
    BY <2>2, <2>5, <1>2 DEF getBlockAfter
  <2>8. \A x \in Blocks(m) : getBlockAfter(r, x) = getBlockAfter(m, x)
    BY <2>4 DEF getBlockAfter
  <2> QED BY <2>1, <2>2, <2>4, <2>5, <2>6, <2>7, <2>8
<1>7. /\ DOMAIN new = DOMAIN slabs \cup {base}
      /\ new[base] = n
      /\ \A s \in DOMAIN slabs : new[s] = slabs[s] /\ SlabEnd(new, s) = SlabEnd(slabs, s)
      /\ SlabEnd(new, base) = base + n
  <2>1. DOMAIN new = DOMAIN slabs \cup {base} /\ new[base] = n
    OBVIOUS
  <2>2. \A s \in DOMAIN slabs : new[s] = slabs[s]
    BY <1>5
  <2> QED BY <2>1, <2>2 DEF SlabEnd
<1>8. SentinelsOf(new) = SentinelsOf(slabs) \cup {e}
  <2>1. {SlabEnd(new, s) - HeaderSize : s \in DOMAIN new}
          = {SlabEnd(slabs, s) - HeaderSize : s \in DOMAIN slabs} \cup {e}
    <3>1. SlabEnd(new, base) - HeaderSize = e
      BY <1>7 DEF e, HeaderSize
    <3>2. \A s \in DOMAIN slabs : SlabEnd(new, s) - HeaderSize = SlabEnd(slabs, s) - HeaderSize
      BY <1>7
    <3>3. DOMAIN new = DOMAIN slabs \cup {base}
      BY <1>7
    <3> QED BY <3>1, <3>2, <3>3
  <2> QED BY <2>1 DEF SentinelsOf
<1>9. Layout(r, new)
  <2>1. \A x \in Blocks(r) : x \in Nat /\ r.size[x] \in Nat \ {0}
    BY <1>1, <1>2, <1>6 DEF Layout
  <2>2. r.allocated \subseteq Blocks(r) /\ r.prevAllocated \subseteq Blocks(r)
    BY <1>1, <1>3, <1>6 DEF Layout
  <2>3. ASSUME NEW x \in Blocks(r), NEW y \in Blocks(r), x < y
        PROVE  getBlockAfter(r, x) <= y
    <3>1. CASE x \in Blocks(m) /\ y \in Blocks(m)
      BY <3>1, <2>3, <1>1, <1>6 DEF Layout
    <3>2. CASE x \in Blocks(m) /\ y \in {base, e}
      BY <3>2, <1>2, <1>4, <1>6
    <3>3. CASE x \in {base, e} /\ y \in Blocks(m)
      BY <3>3, <2>3, <1>2, <1>4
    <3>4. CASE x \in {base, e} /\ y \in {base, e}
      BY <3>4, <2>3, <1>2, <1>6
    <3> QED BY <3>1, <3>2, <3>3, <3>4, <1>6
  <2>4. \A x \in Blocks(r) \ SentinelsOf(new) :
          getBlockAfter(r, x) \in Blocks(r) \ DOMAIN new /\ r.size[x] >= MinBlockSize
    <3>1. ASSUME NEW x \in Blocks(m) \ SentinelsOf(slabs)
          PROVE  getBlockAfter(r, x) \in Blocks(r) \ DOMAIN new /\ r.size[x] >= MinBlockSize
      BY <1>1, <1>5, <1>6, <1>7 DEF Layout
    <3>2. e \notin DOMAIN new
      BY <1>1, <1>2, <1>5, <1>7 DEF Fixed
    <3> QED BY <3>1, <3>2, <1>2, <1>6, <1>8
  <2>5. \A x \in Blocks(r) : \E s \in DOMAIN new :
          s <= x /\ getBlockAfter(r, x) <= SlabEnd(new, s)
    <3>1. \A x \in Blocks(m) : \E s \in DOMAIN new :
            s <= x /\ getBlockAfter(r, x) <= SlabEnd(new, s)
      BY <1>1, <1>6, <1>7 DEF Layout
    <3>2. \A x \in {base, e} : base <= x /\ getBlockAfter(r, x) <= SlabEnd(new, base)
      BY <1>2, <1>6, <1>7
    <3>3. base \in DOMAIN new
      BY <1>7
    <3> QED BY <3>1, <3>2, <3>3, <1>6
  <2>6. \A c \in Blocks(r) \ DOMAIN new : \E x \in Blocks(r) : getBlockAfter(r, x) = c
    BY <1>1, <1>6, <1>7 DEF Layout
  <2> QED BY <2>1, <2>2, <2>3, <2>4, <2>5, <2>6 DEF Layout
<1>10. Fixed(r, new)
  <2>1. \A s \in DOMAIN new : new[s] \in Nat
    BY <1>1, <1>7 DEF Fixed
  <2>2. DOMAIN new \subseteq Blocks(r) \cap r.prevAllocated
    BY <1>1, <1>3, <1>6, <1>7 DEF Fixed
  <2>3. SentinelsOf(new) \subseteq r.allocated
    BY <1>1, <1>3, <1>8 DEF Fixed
  <2>4. \A x \in SentinelsOf(new) : r.size[x] = HeaderSize
    BY <1>1, <1>6, <1>8 DEF Fixed, Layout, HeaderSize
  <2>5. Mem2 \in Free(r) /\ r.size[Mem2] = MinBlockSize
    BY <1>1, <1>6 DEF Fixed, Free
  <2> QED BY <2>1, <2>2, <2>3, <2>4, <2>5 DEF Fixed
<1>11. Tags(r)
  <2>1. ASSUME NEW x \in Blocks(m), getBlockAfter(m, x) \in Blocks(m) \cup {e}
        PROVE  x \in r.allocated <=> getBlockAfter(m, x) \in r.prevAllocated
    <3> DEFINE y == getBlockAfter(m, x)
    <3>1. y <= base /\ y \in Nat
      BY <1>4
    <3>2. y # e /\ y \in Blocks(m) /\ y # base
      BY <3>1, <2>1, <1>2, <1>5
    <3>3. x \in m.allocated <=> y \in m.prevAllocated
      BY <3>2, <1>1 DEF Tags
    <3> HIDE DEF y
    <3> QED BY <3>2, <3>3, <1>3, <1>5 DEF y
  <2>2. ASSUME NEW x \in Blocks(m), getBlockAfter(m, x) = base
        PROVE  x \in r.allocated <=> base \in r.prevAllocated
    <3>1. x \notin Free(m)
      BY <2>2, <1>1, <1>5 DEF Tags, Layout
    <3> QED BY <3>1, <1>3 DEF Free
  <2>3. base + n \notin Blocks(r)
    BY <1>2, <1>4, <1>6
  <2>4. e \notin r.prevAllocated /\ base \notin r.allocated
    BY <1>1, <1>2, <1>3, <1>5 DEF Layout
  <2>5. \A x \in Blocks(r) : getBlockAfter(r, x) \in Blocks(r) =>
          (x \in r.allocated <=> getBlockAfter(r, x) \in r.prevAllocated)
    BY <2>1, <2>2, <2>3, <2>4, <1>6
  <2>6. ASSUME NEW x \in Free(m)
        PROVE  /\ getBlockAfter(r, x) \in r.allocated
               /\ getBlockAfter(r, x) \in DOMAIN r.mark
               /\ r.mark[getBlockAfter(r, x)] = r.size[x]
    <3> DEFINE y == getBlockAfter(m, x)
    <3>1. /\ y \in m.allocated /\ y \in DOMAIN m.mark /\ m.mark[y] = m.size[x]
          /\ x \in Blocks(m) /\ y \in Blocks(m)
      BY <1>1 DEF Tags, Free, Layout
    <3>2. getBlockAfter(r, x) = y /\ r.size[x] = m.size[x] /\ y # e
      BY <3>1, <1>5, <1>6
    <3> HIDE DEF y
    <3>3. y \in DOMAIN r.mark /\ r.mark[y] = m.mark[y]
      BY <3>1, <3>2, <1>3, <1>6
    <3> QED BY <3>1, <3>2, <3>3, <1>3
  <2>7. e \in r.allocated /\ e \in DOMAIN r.mark /\ r.mark[e] = r.size[base]
    BY <1>3, <1>6
  <2> QED BY <2>5, <2>6, <2>7, <1>6 DEF Tags
<1>12. Circle(Free(r), r.next, r.prev)
  <2>1. base \notin Free(m)
    BY <1>5 DEF Free
  <2>2. Circle(Free(m) \cup {base}, r.next, r.prev)
    BY <1>1, <1>3, <2>1, CircleOfMemory
  <2> QED BY <2>2, <1>6
<1>13. r.head \in Free(r) /\ r.ok = TRUE
  BY <1>1, <1>2, <1>3, <1>6
<1>14. Well(r, new)
  BY <1>3, <1>9, <1>10, <1>11, <1>12, <1>13 DEF Well
<1>15. base # Mem2
  BY <1>1, <1>5 DEF Fixed, Free
<1>16. \A x \in m.allocated : r.size[x] = m.size[x]
  BY <1>1, <1>6 DEF Layout
<1> QED BY <1>2, <1>3, <1>5, <1>6, <1>8, <1>14, <1>15, <1>16 DEF r, e

-----------------------------------------------------------------------------
(* The invariant. *)

\* A walk along the free list meets every free block.
LEMMA ListedIsFree ==
  ASSUME NEW m, NEW slabs, Well(m, slabs)
  PROVE  Listed(m) = Free(m)
<1>1. /\ DOMAIN m.next = Free(m) /\ m.head \in Free(m)
      /\ \A S \in SUBSET Free(m) :
           S # {} /\ (\A x \in S : m.next[x] \in S) => S = Free(m)
  BY DEF Well, Circle
<1> QED BY <1>1 DEF Listed

\* The constructor establishes the invariant.
LEMMA InitIInv == Init => IInv
<1> SUFFICES ASSUME Init PROVE IInv
  OBVIOUS
<1> DEFINE D == DefaultCodeSlabSize
           m == InitialMem
           a == [b \in {Mem0} |-> DefaultCodeSlabSize]
<1>1. /\ D \in Nat /\ D >= 10
      /\ Mem0 = 0 /\ Mem1 = D - 6 /\ Mem2 = D - 5 /\ Mem3 = D - 1
  BY JMMAssumption DEF HeaderSize, MinBlockSize, Mem0, Mem1, Mem2, Mem3
<1>2. /\ Mem0 \in Nat /\ Mem1 \in Nat /\ Mem2 \in Nat /\ Mem3 \in Nat
      /\ Mem0 < Mem1 /\ Mem1 < Mem2 /\ Mem2 < Mem3
  BY <1>1
<1>3. /\ Fields(m)
      /\ m.size = [b \in {Mem0, Mem1, Mem2, Mem3} |->
                     CASE b = Mem0 -> Mem1 - Mem0
                       [] b = Mem2 -> MinBlockSize
                       [] OTHER    -> HeaderSize]
      /\ m.allocated = {Mem1, Mem3}
      /\ m.prevAllocated = {Mem0, Mem2}
      /\ m.next = [b \in {Mem0, Mem2} |-> IF b = Mem0 THEN Mem2 ELSE Mem0]
      /\ m.prev = [b \in {Mem0, Mem2} |-> IF b = Mem0 THEN Mem2 ELSE Mem0]
      /\ m.mark = [e \in {Mem1, Mem3} |->
                     IF e = Mem1 THEN Mem1 - Mem0 ELSE MinBlockSize]
      /\ m.head = Mem0
      /\ m.ok = TRUE
  BY DEF InitialMem, Fields
<1> HIDE DEF m
<1>4. /\ Blocks(m) = {Mem0, Mem1, Mem2, Mem3}
      /\ m.size[Mem0] = Mem1 /\ m.size[Mem1] = 1
      /\ m.size[Mem2] = 4 /\ m.size[Mem3] = 1
  BY <1>1, <1>2, <1>3 DEF Blocks, HeaderSize, MinBlockSize
<1>5. /\ getBlockAfter(m, Mem0) = Mem1 /\ getBlockAfter(m, Mem1) = Mem2
      /\ getBlockAfter(m, Mem2) = Mem3 /\ getBlockAfter(m, Mem3) = D
  BY <1>1, <1>4 DEF getBlockAfter
<1>6. Free(m) = {Mem0, Mem2}
  BY <1>2, <1>3, <1>4 DEF Free
<1>7. DOMAIN a = {Mem0} /\ a[Mem0] = D /\ SlabEnd(a, Mem0) = D
  BY <1>1 DEF SlabEnd
<1> HIDE DEF a, D
<1>8. SentinelsOf(a) = {Mem1, Mem3}
  BY <1>1, <1>7 DEF SentinelsOf, HeaderSize
<1>9. Layout(m, a)
  <2>1. \A b \in Blocks(m) : b \in Nat /\ m.size[b] \in Nat \ {0}
    BY <1>1, <1>2, <1>4
  <2>2. m.allocated \subseteq Blocks(m) /\ m.prevAllocated \subseteq Blocks(m)
    BY <1>3, <1>4
  <2>3. \A b, c \in Blocks(m) : b < c => getBlockAfter(m, b) <= c
    BY <1>1, <1>2, <1>4, <1>5
  <2>4. \A b \in Blocks(m) \ SentinelsOf(a) :
          getBlockAfter(m, b) \in Blocks(m) \ DOMAIN a /\ m.size[b] >= MinBlockSize
    BY <1>1, <1>2, <1>4, <1>5, <1>7, <1>8 DEF MinBlockSize
  <2>5. \A b \in Blocks(m) : \E s \in DOMAIN a :
          s <= b /\ getBlockAfter(m, b) <= SlabEnd(a, s)
    BY <1>1, <1>2, <1>4, <1>5, <1>7
  <2>6. \A c \in Blocks(m) \ DOMAIN a : \E b \in Blocks(m) : getBlockAfter(m, b) = c
    BY <1>4, <1>5, <1>7
  <2> QED BY <2>1, <2>2, <2>3, <2>4, <2>5, <2>6 DEF Layout
<1>10. Fixed(m, a)
  BY <1>1, <1>3, <1>4, <1>6, <1>7, <1>8 DEF Fixed, HeaderSize, MinBlockSize
<1>11. Tags(m)
  <2>1. D \notin Blocks(m)
    BY <1>1, <1>4
  <2>2. \A b \in Blocks(m) : getBlockAfter(m, b) \in Blocks(m) =>
          (b \in m.allocated <=> getBlockAfter(m, b) \in m.prevAllocated)
    BY <2>1, <1>2, <1>3, <1>4, <1>5
  <2>3. \A b \in Free(m) :
          /\ getBlockAfter(m, b) \in m.allocated
          /\ getBlockAfter(m, b) \in DOMAIN m.mark
          /\ m.mark[getBlockAfter(m, b)] = m.size[b]
    BY <1>1, <1>2, <1>3, <1>4, <1>5, <1>6 DEF MinBlockSize
  <2> QED BY <2>2, <2>3 DEF Tags
<1>12. Circle(Free(m), m.next, m.prev)
  <2>1. ASSUME NEW S \in SUBSET {Mem0, Mem2}, S # {}, \A x \in S : m.next[x] \in S
        PROVE  S = {Mem0, Mem2}
    <3>1. m.next[Mem0] = Mem2 /\ m.next[Mem2] = Mem0
      BY <1>2, <1>3
    <3>2. Mem0 \in S => Mem2 \in S
      BY <2>1, <3>1
    <3>3. Mem2 \in S => Mem0 \in S
      BY <2>1, <3>1
    <3> QED BY <2>1, <3>2, <3>3
  <2> QED BY <2>1, <1>2, <1>3, <1>6 DEF Circle
<1>13. Well(m, a)
  BY <1>3, <1>6, <1>9, <1>10, <1>11, <1>12 DEF Well
<1>14. mem = m /\ CodeSlabs = a
  BY DEF Init, m, a
<1>15. SlabsOK
  BY <1>1, <1>7, <1>14 DEF Init, SlabsOK, D
<1>16. \A f : BlocksOf(f) = {}
  BY DEF Init, NoBlocks, BlocksOf
<1>17. OneOwner
  <2>1. Owned = {} /\ BeingEmitted = {} /\ spaceBlocks = {} /\ leakedBlocks = {}
    BY <1>16 DEF Init, Owned, BeingEmitted
  <2>2. mem.allocated = Sentinels
    BY <1>3, <1>8, <1>14 DEF Sentinels
  <2>3. DOMAIN TableBlocks = {}
    BY DEF Init, NoBlocks
  <2> QED BY <2>1, <2>2, <2>3, <1>16 DEF OneOwner
<1>18. DOMAIN FunctionBlocks \subseteq Functions /\ DOMAIN TableBlocks \subseteq DOMAIN FunctionBlocks
  BY DEF Init, NoBlocks
<1> QED BY <1>13, <1>14, <1>15, <1>17, <1>18 DEF IInv, EmittingOK, Init


-----------------------------------------------------------------------------
(* The start calls. *)

\* What allocateNewSlab asks for covers the default and the padded request.
LEMMA SlabSizesFact ==
  ASSUME NEW req \in Requests, NEW s \in SlabSizes(req)
  PROVE  s \in Nat /\ s >= DefaultCodeSlabSize /\ s >= PaddedMin(req)
<1>1. /\ req \in Nat /\ DefaultCodeSlabSize \in Nat /\ PageSize \in Nat \ {0}
      /\ PaddedMin(req) \in Nat
  BY JMMAssumption DEF PaddedMin, HeaderSize
<1> HIDE DEF PaddedMin
<1> QED BY <1>1 DEF SlabSizes

\* A start call takes one block nobody has, of the size asked for, and what
\* else it allocates are sentinels of a new slab.
LEMMA StartBlockWell ==
  ASSUME NEW req \in Requests, Well(mem, CodeSlabs), SlabsOK, StartBlock(req)
  PROVE  /\ Well(mem', CodeSlabs') /\ SlabsOK'
         /\ CurBlock' \notin mem.allocated
         /\ \E N : /\ Sentinels' = Sentinels \cup N
                   /\ N \cap (mem.allocated \cup {CurBlock'}) = {}
                   /\ mem'.allocated = mem.allocated \cup N \cup {CurBlock'}
         /\ getBlockAfter(mem', CurBlock') \in mem'.allocated
         /\ mem'.size[CurBlock'] - HeaderSize >= req
         /\ \A x \in mem.allocated : mem'.size[x] = mem.size[x]
         /\ DOMAIN CodeSlabs \subseteq DOMAIN CodeSlabs'
         /\ \A s \in DOMAIN CodeSlabs : CodeSlabs'[s] = CodeSlabs[s]
<1>1. PICK c \in Candidates(mem) :
        \/ /\ BigEnough(mem.size[c], req)
           /\ TakeBlock(mem, c)
           /\ UNCHANGED <<CodeSlabs, LastSlab>>
        \/ /\ ~ BigEnough(mem.size[c], req)
           /\ \E gap \in SlabGaps, s \in SlabSizes(req) :
                LET base == LastSlab + CodeSlabs[LastSlab] + gap
                IN /\ LastSlab' = base
                   /\ CodeSlabs' = [b \in DOMAIN CodeSlabs \cup {base} |->
                                      IF b = base THEN s ELSE CodeSlabs[b]]
                   /\ TakeBlock(WithSlab(mem, base, s, req), base)
  BY DEF StartBlock
<1>2. c \in Free(mem)
  BY ListedIsFree DEF Candidates
<1>3. CASE BigEnough(mem.size[c], req) /\ TakeBlock(mem, c) /\ UNCHANGED <<CodeSlabs, LastSlab>>
  <2>1. c # Mem2
    BY <1>3 DEF BigEnough, Well, Fixed, HeaderSize, MinBlockSize
  <2>2. /\ Well(mem', CodeSlabs) /\ mem'.size = mem.size
        /\ mem'.allocated = mem.allocated \cup {c}
        /\ getBlockAfter(mem', c) \in mem.allocated
    BY <1>2, <1>3, <2>1, AllocateWell DEF TakeBlock
  <2>3. CurBlock' = c /\ CodeSlabs' = CodeSlabs /\ LastSlab' = LastSlab
    BY <1>3 DEF TakeBlock
  <2>4. Sentinels' = Sentinels
    BY <2>3 DEF Sentinels
  <2>5. c \notin mem.allocated
    BY <1>2 DEF Free
  <2>6. SlabsOK'
    BY <2>3 DEF SlabsOK
  <2>7. mem'.size[CurBlock'] - HeaderSize >= req
    BY <1>3, <2>2, <2>3 DEF BigEnough
  <2>8. \E N : /\ Sentinels' = Sentinels \cup N
               /\ N \cap (mem.allocated \cup {CurBlock'}) = {}
               /\ mem'.allocated = mem.allocated \cup N \cup {CurBlock'}
    <3> WITNESS {}
    <3> QED BY <2>2, <2>3, <2>4
  <2> QED BY <2>2, <2>3, <2>5, <2>6, <2>7, <2>8
<1>4. CASE \E gap \in SlabGaps, s \in SlabSizes(req) :
             LET base == LastSlab + CodeSlabs[LastSlab] + gap
             IN /\ LastSlab' = base
                /\ CodeSlabs' = [b \in DOMAIN CodeSlabs \cup {base} |->
                                   IF b = base THEN s ELSE CodeSlabs[b]]
                /\ TakeBlock(WithSlab(mem, base, s, req), base)
  <2>1. PICK gap \in SlabGaps, s \in SlabSizes(req) :
             LET base == LastSlab + CodeSlabs[LastSlab] + gap
             IN /\ LastSlab' = base
                /\ CodeSlabs' = [b \in DOMAIN CodeSlabs \cup {base} |->
                                   IF b = base THEN s ELSE CodeSlabs[b]]
                /\ TakeBlock(WithSlab(mem, base, s, req), base)
    BY <1>4
  <2> DEFINE base == LastSlab + CodeSlabs[LastSlab] + gap
             r == WithSlab(mem, base, s, req)
             e == base + s - HeaderSize
  <2>2. s \in Nat /\ s >= DefaultCodeSlabSize /\ s >= PaddedMin(req) /\ req \in Nat
    BY SlabSizesFact, JMMAssumption
  <2>3. /\ LastSlab \in DOMAIN CodeSlabs /\ gap \in Nat
        /\ DOMAIN CodeSlabs \subseteq Nat
        /\ \A b \in DOMAIN CodeSlabs : b \in Nat /\ CodeSlabs[b] \in Nat
    BY JMMAssumption DEF SlabsOK, Well, Fixed, Layout
  <2>4. /\ base \in Nat
        /\ \A b \in DOMAIN CodeSlabs : SlabEnd(CodeSlabs, b) <= base
    BY <2>3 DEF SlabsOK, SlabEnd
  <2>5. /\ LastSlab' = base
        /\ CodeSlabs' = [b \in DOMAIN CodeSlabs \cup {base} |->
                           IF b = base THEN s ELSE CodeSlabs[b]]
        /\ mem' = AllocateBlock(r, base) /\ CurBlock' = base
    BY <2>1 DEF TakeBlock
  <2> HIDE DEF base
  <2>6. /\ Well(r, CodeSlabs')
        /\ base \in Free(r) /\ base # Mem2
        /\ r.size[base] - HeaderSize >= req
        /\ base \notin Blocks(mem)
        /\ SentinelsOf(CodeSlabs') = SentinelsOf(CodeSlabs) \cup {e}
        /\ e \notin Blocks(mem)
        /\ r.allocated = mem.allocated \cup {e}
        /\ \A x \in mem.allocated : r.size[x] = mem.size[x]
    BY <2>2, <2>4, <2>5, SlabWell
  <2> HIDE DEF r, e
  <2>7. /\ Well(mem', CodeSlabs') /\ mem'.size = r.size
        /\ mem'.allocated = r.allocated \cup {base}
        /\ getBlockAfter(mem', base) \in r.allocated
    BY <2>5, <2>6, AllocateWell
  <2>8. mem.allocated \subseteq Blocks(mem) /\ DOMAIN CodeSlabs \subseteq Blocks(mem)
    BY DEF Well, Layout, Fixed
  <2>9. base # e
    BY <2>6 DEF Free
  <2>10. \E N : /\ Sentinels' = Sentinels \cup N
                /\ N \cap (mem.allocated \cup {CurBlock'}) = {}
                /\ mem'.allocated = mem.allocated \cup N \cup {CurBlock'}
    <3>1. Sentinels' = Sentinels \cup {e}
      BY <2>6 DEF Sentinels
    <3>2. {e} \cap (mem.allocated \cup {CurBlock'}) = {}
      BY <2>5, <2>6, <2>8, <2>9
    <3>3. mem'.allocated = mem.allocated \cup {e} \cup {CurBlock'}
      BY <2>5, <2>6, <2>7
    <3> QED BY <3>1, <3>2, <3>3
  <2>11. SlabsOK'
    <3>1. DOMAIN CodeSlabs' = DOMAIN CodeSlabs \cup {base} /\ CodeSlabs'[base] = s
      BY <2>5
    <3>2. \A b \in DOMAIN CodeSlabs : b # base /\ CodeSlabs'[b] = CodeSlabs[b]
      BY <2>5, <2>6, <2>8
    <3>3. \A b \in DOMAIN CodeSlabs' : SlabEnd(CodeSlabs', b) <= base + s
      BY <3>1, <3>2, <2>2, <2>3, <2>4 DEF SlabEnd
    <3>4. SlabEnd(CodeSlabs', base) = base + s
      BY <3>1 DEF SlabEnd
    <3>5. /\ Mem0 \in DOMAIN CodeSlabs' /\ CodeSlabs'[Mem0] = DefaultCodeSlabSize
          /\ \A b \in DOMAIN CodeSlabs' : CodeSlabs'[b] \in Nat \ {0}
      BY <3>1, <3>2, <2>2, JMMAssumption DEF SlabsOK, MinBlockSize, HeaderSize
    <3>6. ASSUME NEW b \in DOMAIN CodeSlabs', NEW d \in DOMAIN CodeSlabs', b < d
          PROVE  SlabEnd(CodeSlabs', b) <= d
      <4>1. CASE d = base /\ b # base
        BY <4>1, <3>1, <3>2, <2>4 DEF SlabEnd
      <4>2. CASE b = base /\ d # base
        <5>1. d \in DOMAIN CodeSlabs /\ d \in Nat /\ CodeSlabs[d] \in Nat
          BY <4>2, <3>1, <2>3
        <5> QED BY <5>1, <4>2, <3>6, <2>4 DEF SlabEnd
      <4>3. CASE b # base /\ d # base
        BY <4>3, <3>1, <3>2, <3>6 DEF SlabsOK, SlabEnd
      <4> QED BY <4>1, <4>2, <4>3, <3>6, <2>4
    <3> QED BY <2>5, <3>1, <3>3, <3>4, <3>5, <3>6 DEF SlabsOK
  <2>12. /\ DOMAIN CodeSlabs \subseteq DOMAIN CodeSlabs'
         /\ \A b \in DOMAIN CodeSlabs : CodeSlabs'[b] = CodeSlabs[b]
    BY <2>5, <2>6, <2>8
  <2> QED BY <2>5, <2>6, <2>7, <2>8, <2>10, <2>11, <2>12
<1> QED BY <1>1, <1>3, <1>4

-----------------------------------------------------------------------------
(* What each action does to the heap. *)

\* The block being emitted is allocated, is no sentinel and has room.
LEMMA EmittedBlock ==
  ASSUME IInv, emitting # NotEmitting
  PROVE  /\ CurBlock \in mem.allocated \ Sentinels
         /\ getBlockAfter(mem, CurBlock) \in mem.allocated
         /\ mem.size[CurBlock] \in Nat /\ mem.size[CurBlock] >= MinBlockSize
<1>1. CurBlock \in mem.allocated /\ getBlockAfter(mem, CurBlock) \in mem.allocated
  BY DEF IInv, EmittingOK
<1>2. CurBlock \notin Sentinels
  BY DEF IInv, OneOwner, BeingEmitted
<1>3. CurBlock \in Blocks(mem) \ SentinelsOf(CodeSlabs)
  BY <1>1, <1>2 DEF IInv, Well, Layout, Sentinels
<1>4. mem.size[CurBlock] \in Nat /\ mem.size[CurBlock] >= MinBlockSize
  BY <1>3 DEF IInv, Well, Layout
<1> QED BY <1>1, <1>2, <1>4

\* An end call gives back the end of the block and touches no other.
LEMMA EndWell ==
  ASSUME IInv, emitting # NotEmitting, NEW used \in Int, Written(used),
         mem' = TrimAllocationToSize(mem, CurBlock, used + HeaderSize)
  PROVE  /\ Well(mem', CodeSlabs)
         /\ mem'.allocated = mem.allocated
         /\ mem'.size[CurBlock] \in Nat /\ mem'.size[CurBlock] <= mem.size[CurBlock]
         /\ \A x \in mem.allocated \ {CurBlock} : mem'.size[x] = mem.size[x]
<1>1. /\ CurBlock \in mem.allocated \ SentinelsOf(CodeSlabs)
      /\ getBlockAfter(mem, CurBlock) \in mem.allocated
      /\ mem.size[CurBlock] \in Nat /\ mem.size[CurBlock] >= MinBlockSize
  BY EmittedBlock DEF Sentinels
<1>2. used + HeaderSize \in Nat /\ AtLeastMin(used + HeaderSize) <= mem.size[CurBlock]
  BY <1>1 DEF Written, HeaderSize, MinBlockSize, AtLeastMin
<1> QED BY <1>1, <1>2, TrimWell DEF IInv

\* allocateSpace of a request the head holds takes one block nobody has.
LEMMA SpaceWell ==
  ASSUME IInv, NEW n \in Requests, HeadHolds(n), AllocateSpace(n)
  PROVE  /\ Well(mem', CodeSlabs)
         /\ mem.head \notin mem.allocated
         /\ mem'.allocated = mem.allocated \cup {mem.head}
         /\ \A x \in mem.allocated : mem'.size[x] = mem.size[x]
<1> DEFINE r == AllocateBlock(mem, mem.head)
<1>1. Well(mem, CodeSlabs) /\ mem.head \in Free(mem) /\ mem.head # Mem2
  BY DEF IInv, Well, HeadHolds
<1>2. /\ Well(r, CodeSlabs) /\ r.size = mem.size
      /\ r.allocated = mem.allocated \cup {mem.head}
      /\ getBlockAfter(r, mem.head) \in mem.allocated
  BY <1>1, AllocateWell
<1>3. mem.head \in r.allocated \ SentinelsOf(CodeSlabs)
  BY <1>1, <1>2 DEF Well, Fixed, Free
<1>4. n + HeaderSize \in Nat /\ AtLeastMin(n + HeaderSize) <= r.size[mem.head]
  BY <1>2, JMMAssumption DEF HeadHolds, HeaderSize
<1>5. mem' = TrimAllocationToSize(r, mem.head, n + HeaderSize)
  BY DEF AllocateSpace
<1> HIDE DEF r
<1>6. /\ Well(mem', CodeSlabs) /\ mem'.allocated = r.allocated
      /\ \A x \in r.allocated \ {mem.head} : mem'.size[x] = r.size[x]
  BY <1>2, <1>3, <1>4, <1>5, TrimWell
<1> QED BY <1>1, <1>2, <1>6 DEF Free

\* The assert in front of FreeBlock holds and changes nothing.
LEMMA FreeCheckedWell ==
  ASSUME NEW m, NEW slabs, Well(m, slabs), NEW b \in m.allocated \ SentinelsOf(slabs)
  PROVE  LET r == FreeBlock(Checked(m, b), b)
         IN /\ Well(r, slabs)
            /\ r.allocated = m.allocated \ {b}
            /\ \A x \in m.allocated \ {b} : r.size[x] = m.size[x]
<1> DEFINE c == Checked(m, b)
<1>1. /\ Fields(c) /\ c.size = m.size /\ c.allocated = m.allocated
      /\ c.prevAllocated = m.prevAllocated /\ c.mark = m.mark
      /\ c.next = m.next /\ c.prev = m.prev /\ c.head = m.head /\ c.ok = TRUE
  BY DEF Well, Fields, Checked
<1> HIDE DEF c
<1>2. Well(c, slabs)
  BY <1>1, SameWell DEF Well
<1> QED BY <1>1, <1>2, FreeWell DEF c

\* The blocks a function's map entries name.
LEMMA EntriesFact ==
  ASSUME IInv, NEW f \in DOMAIN FunctionBlocks
  PROVE  /\ FunctionBlocks[f] \in mem.allocated \ Sentinels
         /\ f \in DOMAIN TableBlocks =>
              /\ TableBlocks[f] \in mem.allocated \ Sentinels
              /\ TableBlocks[f] # FunctionBlocks[f]
<1>1. f \in Functions
  BY DEF IInv
<1>2. BlocksOf(f) \subseteq Owned
  BY <1>1 DEF Owned
<1>3. /\ FunctionBlocks[f] \in BlocksOf(f)
      /\ f \in DOMAIN TableBlocks => TableBlocks[f] \in BlocksOf(f)
  BY DEF BlocksOf
<1>4. Owned \subseteq mem.allocated /\ Owned \cap Sentinels = {}
  BY DEF IInv, OneOwner
<1> QED BY <1>2, <1>3, <1>4 DEF IInv, OneOwner

\* Deallocation frees the blocks of the function and touches no other.
LEMMA DeallocateWell ==
  ASSUME IInv, NEW f \in Functions, DeallocateMemForFunction(f)
  PROVE  /\ Well(mem', CodeSlabs)
         /\ mem'.allocated = mem.allocated \ BlocksOf(f)
         /\ \A x \in mem.allocated \ BlocksOf(f) : mem'.size[x] = mem.size[x]
<1> DEFINE b == FunctionBlocks[f]
           body == FreeBlock(Checked(mem, b), b)
           t == TableBlocks[f]
<1>1. f \in DOMAIN FunctionBlocks
  BY DEF DeallocateMemForFunction
<1>2. Well(mem, CodeSlabs) /\ b \in mem.allocated \ SentinelsOf(CodeSlabs)
  BY <1>1, EntriesFact DEF IInv, Sentinels
<1>3. /\ Well(body, CodeSlabs) /\ body.allocated = mem.allocated \ {b}
      /\ \A x \in mem.allocated \ {b} : body.size[x] = mem.size[x]
  BY <1>2, FreeCheckedWell
<1>4. CASE f \in DOMAIN TableBlocks
  <2>1. t \in mem.allocated \ SentinelsOf(CodeSlabs) /\ t # b
    BY <1>1, <1>4, EntriesFact DEF Sentinels
  <2>2. mem' = FreeBlock(Checked(body, t), t)
    BY <1>4 DEF DeallocateMemForFunction
  <2> HIDE DEF body, b, t
  <2>3. t \in body.allocated \ SentinelsOf(CodeSlabs)
    BY <1>3, <2>1
  <2>4. /\ Well(mem', CodeSlabs) /\ mem'.allocated = body.allocated \ {t}
        /\ \A x \in body.allocated \ {t} : mem'.size[x] = body.size[x]
    BY <1>3, <2>2, <2>3, FreeCheckedWell
  <2>5. BlocksOf(f) = {b, t}
    BY <1>1, <1>4 DEF BlocksOf, b, t
  <2> QED BY <1>3, <2>4, <2>5
<1>5. CASE f \notin DOMAIN TableBlocks
  <2>1. mem' = body
    BY <1>5 DEF DeallocateMemForFunction
  <2>2. BlocksOf(f) = {b}
    BY <1>1, <1>5 DEF BlocksOf
  <2> HIDE DEF body, b
  <2> QED BY <1>3, <2>1, <2>2
<1> QED BY <1>4, <1>5

-----------------------------------------------------------------------------
(* Who owns the allocated blocks after each action. *)

\* A start call adds the block being emitted, whose owner it is.
LEMMA StartOwner ==
  ASSUME IInv, emitting = NotEmitting, emitting' # NotEmitting,
         UNCHANGED <<FunctionBlocks, TableBlocks, spaceBlocks, leakedBlocks>>,
         CurBlock' \notin mem.allocated,
         NEW N, Sentinels' = Sentinels \cup N,
         N \cap (mem.allocated \cup {CurBlock'}) = {},
         mem'.allocated = mem.allocated \cup N \cup {CurBlock'}
  PROVE  OneOwner'
<1>1. \A f : BlocksOf(f)' = BlocksOf(f)
  BY DEF BlocksOf
<1>2. Owned' = Owned
  BY <1>1 DEF Owned
<1>3. BeingEmitted = {} /\ BeingEmitted' = {CurBlock'}
  BY DEF BeingEmitted
<1>4. /\ mem.allocated = Sentinels \cup Owned \cup spaceBlocks \cup leakedBlocks
      /\ Owned \cap (Sentinels \cup spaceBlocks \cup leakedBlocks) = {}
      /\ spaceBlocks \cap (Sentinels \cup leakedBlocks) = {}
      /\ leakedBlocks \cap Sentinels = {}
  BY <1>3 DEF IInv, OneOwner
<1>5. /\ \A f, g \in Functions : f # g => BlocksOf(f)' \cap BlocksOf(g)' = {}
      /\ \A f \in DOMAIN TableBlocks' : FunctionBlocks'[f] # TableBlocks'[f]
  BY <1>1 DEF IInv, OneOwner
<1>6. mem'.allocated = Sentinels' \cup Owned' \cup BeingEmitted' \cup spaceBlocks' \cup leakedBlocks'
  BY <1>2, <1>3, <1>4
<1>7. /\ Owned' \cap (Sentinels' \cup BeingEmitted' \cup spaceBlocks' \cup leakedBlocks') = {}
      /\ BeingEmitted' \cap (Sentinels' \cup spaceBlocks' \cup leakedBlocks') = {}
      /\ spaceBlocks' \cap (Sentinels' \cup leakedBlocks') = {}
      /\ leakedBlocks' \cap Sentinels' = {}
  BY <1>2, <1>3, <1>4
<1> QED BY <1>5, <1>6, <1>7 DEF OneOwner

\* An end call moves the block being emitted to function f, and what the
\* map entry named before, K, to the leaked blocks.
LEMMA EndOwner ==
  ASSUME IInv, emitting # NotEmitting, emitting' = NotEmitting,
         mem'.allocated = mem.allocated,
         UNCHANGED <<CodeSlabs, CurBlock, spaceBlocks>>,
         NEW f \in Functions, NEW K, K \subseteq BlocksOf(f),
         leakedBlocks' = leakedBlocks \cup K,
         \A g \in Functions : BlocksOf(g)' = IF g = f THEN (BlocksOf(f) \ K) \cup {CurBlock}
                                             ELSE BlocksOf(g),
         \A g \in DOMAIN TableBlocks' : FunctionBlocks'[g] # TableBlocks'[g]
  PROVE  OneOwner'
<1>1. BeingEmitted = {CurBlock} /\ BeingEmitted' = {}
  BY DEF BeingEmitted
<1>2. /\ mem.allocated = Sentinels \cup Owned \cup {CurBlock} \cup spaceBlocks \cup leakedBlocks
      /\ Owned \cap (Sentinels \cup {CurBlock} \cup spaceBlocks \cup leakedBlocks) = {}
      /\ CurBlock \notin Sentinels \cup spaceBlocks \cup leakedBlocks
      /\ spaceBlocks \cap (Sentinels \cup leakedBlocks) = {}
      /\ leakedBlocks \cap Sentinels = {}
  BY <1>1 DEF IInv, OneOwner
<1>3. \A g, h \in Functions : g # h => BlocksOf(g) \cap BlocksOf(h) = {}
  BY DEF IInv, OneOwner
<1>4. Sentinels' = Sentinels
  BY DEF Sentinels
<1>5. \A g \in Functions : BlocksOf(g) \subseteq Owned
  BY DEF Owned
<1>6. Owned' = (Owned \ K) \cup {CurBlock}
  <2>1. ASSUME NEW x \in Owned' PROVE x \in (Owned \ K) \cup {CurBlock}
    <3>1. PICK g \in Functions : x \in BlocksOf(g)'
      BY DEF Owned
    <3>2. CASE g = f
      BY <3>1, <3>2, <1>5
    <3>3. CASE g # f
      BY <3>1, <3>3, <1>3, <1>5
    <3> QED BY <3>2, <3>3
  <2>2. ASSUME NEW x \in (Owned \ K) \cup {CurBlock} PROVE x \in Owned'
    <3>1. CASE x = CurBlock
      BY <3>1 DEF Owned
    <3>2. CASE x \in Owned \ K
      <4>1. PICK g \in Functions : x \in BlocksOf(g)
        BY <3>2 DEF Owned
      <4>2. x \in BlocksOf(g)'
        BY <3>2, <4>1
      <4> QED BY <4>2 DEF Owned
    <3> QED BY <3>1, <3>2
  <2> QED BY <2>1, <2>2
<1>7. K \subseteq Owned
  BY <1>5
<1>8. mem'.allocated = Sentinels' \cup Owned' \cup BeingEmitted' \cup spaceBlocks' \cup leakedBlocks'
  BY <1>1, <1>2, <1>4, <1>6, <1>7
<1>9. /\ Owned' \cap (Sentinels' \cup BeingEmitted' \cup spaceBlocks' \cup leakedBlocks') = {}
      /\ BeingEmitted' \cap (Sentinels' \cup spaceBlocks' \cup leakedBlocks') = {}
      /\ spaceBlocks' \cap (Sentinels' \cup leakedBlocks') = {}
      /\ leakedBlocks' \cap Sentinels' = {}
  BY <1>1, <1>2, <1>4, <1>6, <1>7
<1>10. \A g, h \in Functions : g # h => BlocksOf(g)' \cap BlocksOf(h)' = {}
  BY <1>2, <1>3, <1>5
<1> QED BY <1>8, <1>9, <1>10 DEF OneOwner

\* The two maps after an end call.
LEMMA EndMaps ==
  ASSUME IInv, emitting # NotEmitting, NEW f \in Functions
  PROVE  /\ /\ FunctionBlocks' = Assign(FunctionBlocks, f)
            /\ UNCHANGED TableBlocks
            => /\ \A g \in Functions :
                    BlocksOf(g)' = IF g = f
                      THEN (BlocksOf(f) \ Overwritten(FunctionBlocks, f)) \cup {CurBlock}
                      ELSE BlocksOf(g)
               /\ \A g \in DOMAIN TableBlocks' : FunctionBlocks'[g] # TableBlocks'[g]
         /\ /\ TableBlocks' = Assign(TableBlocks, f)
            /\ UNCHANGED FunctionBlocks
            /\ f \in DOMAIN FunctionBlocks
            => /\ \A g \in Functions :
                    BlocksOf(g)' = IF g = f
                      THEN (BlocksOf(f) \ Overwritten(TableBlocks, f)) \cup {CurBlock}
                      ELSE BlocksOf(g)
               /\ \A g \in DOMAIN TableBlocks' : FunctionBlocks'[g] # TableBlocks'[g]
<1>1. \A g \in DOMAIN TableBlocks : FunctionBlocks[g] # TableBlocks[g]
  BY DEF IInv, OneOwner
<1>2. \A g \in Functions : CurBlock \notin BlocksOf(g)
  BY DEF IInv, OneOwner, Owned, BeingEmitted
<1>3. ASSUME FunctionBlocks' = Assign(FunctionBlocks, f), UNCHANGED TableBlocks
      PROVE  /\ \A g \in Functions :
                  BlocksOf(g)' = IF g = f
                    THEN (BlocksOf(f) \ Overwritten(FunctionBlocks, f)) \cup {CurBlock}
                    ELSE BlocksOf(g)
             /\ \A g \in DOMAIN TableBlocks' : FunctionBlocks'[g] # TableBlocks'[g]
  <2>1. /\ DOMAIN FunctionBlocks' = DOMAIN FunctionBlocks \cup {f}
        /\ FunctionBlocks'[f] = CurBlock
        /\ \A g \in DOMAIN FunctionBlocks \ {f} : FunctionBlocks'[g] = FunctionBlocks[g]
    BY <1>3 DEF Assign
  <2>2. ASSUME NEW g \in Functions, g # f PROVE BlocksOf(g)' = BlocksOf(g)
    BY <2>1, <2>2, <1>3 DEF BlocksOf
  <2>3. BlocksOf(f)' = (BlocksOf(f) \ Overwritten(FunctionBlocks, f)) \cup {CurBlock}
    BY <2>1, <1>1, <1>3 DEF BlocksOf, Overwritten
  <2>4. \A g \in DOMAIN TableBlocks' : FunctionBlocks'[g] # TableBlocks'[g]
    <3>1. \A g \in DOMAIN TableBlocks : TableBlocks[g] \in BlocksOf(g) /\ g \in Functions /\ g \in DOMAIN FunctionBlocks
      BY DEF BlocksOf, IInv
    <3> QED BY <3>1, <2>1, <1>1, <1>2, <1>3
  <2> QED BY <2>2, <2>3, <2>4
<1>4. ASSUME TableBlocks' = Assign(TableBlocks, f), UNCHANGED FunctionBlocks,
             f \in DOMAIN FunctionBlocks
      PROVE  /\ \A g \in Functions :
                  BlocksOf(g)' = IF g = f
                    THEN (BlocksOf(f) \ Overwritten(TableBlocks, f)) \cup {CurBlock}
                    ELSE BlocksOf(g)
             /\ \A g \in DOMAIN TableBlocks' : FunctionBlocks'[g] # TableBlocks'[g]
  <2>1. /\ DOMAIN TableBlocks' = DOMAIN TableBlocks \cup {f}
        /\ TableBlocks'[f] = CurBlock
        /\ \A g \in DOMAIN TableBlocks \ {f} : TableBlocks'[g] = TableBlocks[g]
    BY <1>4 DEF Assign
  <2>2. ASSUME NEW g \in Functions, g # f PROVE BlocksOf(g)' = BlocksOf(g)
    BY <2>1, <2>2, <1>4 DEF BlocksOf
  <2>3. BlocksOf(f)' = (BlocksOf(f) \ Overwritten(TableBlocks, f)) \cup {CurBlock}
    BY <2>1, <1>1, <1>4 DEF BlocksOf, Overwritten
  <2>4. \A g \in DOMAIN TableBlocks' : FunctionBlocks'[g] # TableBlocks'[g]
    <3>1. FunctionBlocks[f] \in BlocksOf(f)
      BY <1>4 DEF BlocksOf
    <3> QED BY <3>1, <2>1, <1>1, <1>2, <1>4
  <2> QED BY <2>2, <2>3, <2>4
<1> QED BY <1>3, <1>4

\* Deallocation takes the blocks of one function from the owned ones.
LEMMA DeallocateOwner ==
  ASSUME IInv, NEW f \in Functions, DeallocateMemForFunction(f),
         mem'.allocated = mem.allocated \ BlocksOf(f)
  PROVE  OneOwner'
<1>1. \A g \in Functions : BlocksOf(g)' = IF g = f THEN {} ELSE BlocksOf(g)
  BY DEF DeallocateMemForFunction, Erase, BlocksOf
<1>2. BeingEmitted = {} /\ BeingEmitted' = {} /\ Sentinels' = Sentinels
  BY DEF DeallocateMemForFunction, BeingEmitted, Sentinels
<1>3. \A g, h \in Functions : g # h => BlocksOf(g) \cap BlocksOf(h) = {}
  BY DEF IInv, OneOwner
<1>4. Owned' = Owned \ BlocksOf(f)
  BY <1>1, <1>3 DEF Owned
<1>5. /\ mem.allocated = Sentinels \cup Owned \cup spaceBlocks \cup leakedBlocks
      /\ Owned \cap (Sentinels \cup spaceBlocks \cup leakedBlocks) = {}
      /\ spaceBlocks \cap (Sentinels \cup leakedBlocks) = {}
      /\ leakedBlocks \cap Sentinels = {}
  BY <1>2 DEF IInv, OneOwner
<1>6. BlocksOf(f) \subseteq Owned
  BY DEF Owned
<1>7. spaceBlocks' = spaceBlocks /\ leakedBlocks' = leakedBlocks
  BY DEF DeallocateMemForFunction
<1>8. /\ mem'.allocated = Sentinels' \cup Owned' \cup BeingEmitted' \cup spaceBlocks' \cup leakedBlocks'
      /\ Owned' \cap (Sentinels' \cup BeingEmitted' \cup spaceBlocks' \cup leakedBlocks') = {}
      /\ BeingEmitted' \cap (Sentinels' \cup spaceBlocks' \cup leakedBlocks') = {}
      /\ spaceBlocks' \cap (Sentinels' \cup leakedBlocks') = {}
      /\ leakedBlocks' \cap Sentinels' = {}
  BY <1>2, <1>4, <1>5, <1>6, <1>7
<1>9. \A g, h \in Functions : g # h => BlocksOf(g)' \cap BlocksOf(h)' = {}
  BY <1>1, <1>3
<1>10. \A g \in DOMAIN TableBlocks' : FunctionBlocks'[g] # TableBlocks'[g]
  BY DEF DeallocateMemForFunction, Erase, IInv, OneOwner
<1> QED BY <1>8, <1>9, <1>10 DEF OneOwner

\* allocateSpace adds one block that no function owns.
LEMMA SpaceOwner ==
  ASSUME IInv, NEW n, AllocateSpace(n),
         mem.head \notin mem.allocated,
         mem'.allocated = mem.allocated \cup {mem.head}
  PROVE  OneOwner'
<1>1. \A f : BlocksOf(f)' = BlocksOf(f)
  BY DEF AllocateSpace, BlocksOf
<1>2. Owned' = Owned
  BY <1>1 DEF Owned
<1>3. /\ BeingEmitted = {} /\ BeingEmitted' = {} /\ Sentinels' = Sentinels
      /\ spaceBlocks' = spaceBlocks \cup {mem.head} /\ leakedBlocks' = leakedBlocks
  BY DEF AllocateSpace, BeingEmitted, Sentinels
<1>4. /\ mem.allocated = Sentinels \cup Owned \cup spaceBlocks \cup leakedBlocks
      /\ Owned \cap (Sentinels \cup spaceBlocks \cup leakedBlocks) = {}
      /\ spaceBlocks \cap (Sentinels \cup leakedBlocks) = {}
      /\ leakedBlocks \cap Sentinels = {}
  BY <1>3 DEF IInv, OneOwner
<1>5. /\ \A f, g \in Functions : f # g => BlocksOf(f)' \cap BlocksOf(g)' = {}
      /\ \A f \in DOMAIN TableBlocks' : FunctionBlocks'[f] # TableBlocks'[f]
  BY <1>1 DEF IInv, OneOwner, AllocateSpace
<1>6. /\ mem'.allocated = Sentinels' \cup Owned' \cup BeingEmitted' \cup spaceBlocks' \cup leakedBlocks'
      /\ Owned' \cap (Sentinels' \cup BeingEmitted' \cup spaceBlocks' \cup leakedBlocks') = {}
      /\ BeingEmitted' \cap (Sentinels' \cup spaceBlocks' \cup leakedBlocks') = {}
      /\ spaceBlocks' \cap (Sentinels' \cup leakedBlocks') = {}
      /\ leakedBlocks' \cap Sentinels' = {}
  BY <1>2, <1>3, <1>4
<1> QED BY <1>5, <1>6 DEF OneOwner

-----------------------------------------------------------------------------
(* IInv is inductive. *)

\* A size an end call may be given is an integer.
LEMMA UsedSizesFact ==
  ASSUME IInv, NEW used \in UsedSizes
  PROVE  used \in Int /\ emitting # NotEmitting
<1>1. emitting # NotEmitting
  BY DEF UsedSizes
<1>2. mem.size[CurBlock] - HeaderSize \in Int
  BY <1>1, EmittedBlock DEF HeaderSize
<1>3. used \in CodeSizes \cup {mem.size[CurBlock] - HeaderSize}
  BY <1>1 DEF UsedSizes
<1>4. CodeSizes \subseteq Int
  BY JMMAssumption
<1> QED BY <1>1, <1>2, <1>3, <1>4

LEMMA StartFunctionBodyIInv ==
  ASSUME IInv, NEW f \in Functions, NEW req \in Requests, StartFunctionBody(f, req)
  PROVE  IInv'
<1>1. StartBlock(req) /\ emitting = NotEmitting /\ Well(mem, CodeSlabs) /\ SlabsOK
  BY DEF StartFunctionBody, IInv
<1>2. /\ Well(mem', CodeSlabs') /\ SlabsOK' /\ CurBlock' \notin mem.allocated
      /\ getBlockAfter(mem', CurBlock') \in mem'.allocated
  BY <1>1, StartBlockWell
<1>3. PICK N : /\ Sentinels' = Sentinels \cup N
               /\ N \cap (mem.allocated \cup {CurBlock'}) = {}
               /\ mem'.allocated = mem.allocated \cup N \cup {CurBlock'}
  BY <1>1, StartBlockWell
<1>4. /\ emitting' = [stage |-> "body", fn |-> f]
      /\ UNCHANGED <<FunctionBlocks, TableBlocks, spaceBlocks, leakedBlocks>>
  BY DEF StartFunctionBody
<1>5. emitting'.stage = "body" /\ emitting'.fn = f /\ emitting' # NotEmitting
  BY <1>4 DEF NotEmitting
<1>6. OneOwner'
  BY <1>1, <1>2, <1>3, <1>4, <1>5, StartOwner
<1>7. EmittingOK'
  BY <1>2, <1>3, <1>4, <1>5 DEF EmittingOK
<1>8. CurBlock' \in Nat
  BY <1>2, <1>3 DEF Well, Layout
<1> QED BY <1>2, <1>4, <1>6, <1>7, <1>8 DEF IInv

LEMMA StartExceptionTableIInv ==
  ASSUME IInv, NEW f \in Functions, NEW req \in Requests, StartExceptionTable(f, req)
  PROVE  IInv'
<1>1. StartBlock(req) /\ emitting = NotEmitting /\ Well(mem, CodeSlabs) /\ SlabsOK
  BY DEF StartExceptionTable, IInv
<1>2. /\ Well(mem', CodeSlabs') /\ SlabsOK' /\ CurBlock' \notin mem.allocated
      /\ getBlockAfter(mem', CurBlock') \in mem'.allocated
  BY <1>1, StartBlockWell
<1>3. PICK N : /\ Sentinels' = Sentinels \cup N
               /\ N \cap (mem.allocated \cup {CurBlock'}) = {}
               /\ mem'.allocated = mem.allocated \cup N \cup {CurBlock'}
  BY <1>1, StartBlockWell
<1>4. /\ emitting' = [stage |-> "table", fn |-> f] /\ f \in DOMAIN FunctionBlocks
      /\ UNCHANGED <<FunctionBlocks, TableBlocks, spaceBlocks, leakedBlocks>>
  BY DEF StartExceptionTable
<1>5. emitting'.stage = "table" /\ emitting'.fn = f /\ emitting' # NotEmitting
  BY <1>4 DEF NotEmitting
<1>6. OneOwner'
  BY <1>1, <1>2, <1>3, <1>4, <1>5, StartOwner
<1>7. EmittingOK'
  BY <1>2, <1>3, <1>4, <1>5 DEF EmittingOK
<1>8. CurBlock' \in Nat
  BY <1>2, <1>3 DEF Well, Layout
<1> QED BY <1>2, <1>4, <1>6, <1>7, <1>8 DEF IInv

LEMMA EndFunctionBodyIInv ==
  ASSUME IInv, NEW used \in UsedSizes, EndFunctionBody(used)
  PROVE  IInv'
<1> DEFINE f == emitting.fn
           K == Overwritten(FunctionBlocks, f)
<1>1. used \in Int /\ emitting # NotEmitting /\ f \in Functions
  BY UsedSizesFact DEF IInv, EmittingOK
<1>2. /\ Written(used) /\ emitting' = NotEmitting
      /\ mem' = TrimAllocationToSize(mem, CurBlock, used + HeaderSize)
      /\ FunctionBlocks' = Assign(FunctionBlocks, f)
      /\ leakedBlocks' = leakedBlocks \cup K
      /\ UNCHANGED <<CodeSlabs, LastSlab, CurBlock, TableBlocks, spaceBlocks>>
  BY DEF EndFunctionBody
<1>3. Well(mem', CodeSlabs) /\ mem'.allocated = mem.allocated
  BY <1>1, <1>2, EndWell
<1>4. K \subseteq BlocksOf(f)
  BY DEF Overwritten, BlocksOf
<1> HIDE DEF K
<1>5. /\ \A g \in Functions : BlocksOf(g)' = IF g = f THEN (BlocksOf(f) \ K) \cup {CurBlock}
                                             ELSE BlocksOf(g)
      /\ \A g \in DOMAIN TableBlocks' : FunctionBlocks'[g] # TableBlocks'[g]
  BY <1>1, <1>2, EndMaps DEF K
<1> HIDE DEF f
<1>6. OneOwner'
  BY <1>1, <1>2, <1>3, <1>4, <1>5, EndOwner
<1>7. /\ DOMAIN FunctionBlocks' \subseteq Functions
      /\ DOMAIN TableBlocks' \subseteq DOMAIN FunctionBlocks'
  BY <1>1, <1>2 DEF Assign, IInv
<1>8. SlabsOK' /\ EmittingOK'
  BY <1>2 DEF SlabsOK, EmittingOK, IInv, NotEmitting
<1> QED BY <1>2, <1>3, <1>6, <1>7, <1>8 DEF IInv

LEMMA EndExceptionTableIInv ==
  ASSUME IInv, NEW used \in UsedSizes, EndExceptionTable(used)
  PROVE  IInv'
<1> DEFINE f == emitting.fn
           K == Overwritten(TableBlocks, f)
<1>1. used \in Int /\ emitting # NotEmitting /\ f \in Functions
  BY UsedSizesFact DEF IInv, EmittingOK
<1>2. /\ Written(used) /\ emitting' = NotEmitting
      /\ mem' = TrimAllocationToSize(mem, CurBlock, used + HeaderSize)
      /\ TableBlocks' = Assign(TableBlocks, f)
      /\ leakedBlocks' = leakedBlocks \cup K
      /\ UNCHANGED <<CodeSlabs, LastSlab, CurBlock, FunctionBlocks, spaceBlocks>>
      /\ f \in DOMAIN FunctionBlocks
  BY <1>1 DEF EndExceptionTable, IInv, EmittingOK
<1>3. Well(mem', CodeSlabs) /\ mem'.allocated = mem.allocated
  BY <1>1, <1>2, EndWell
<1>4. K \subseteq BlocksOf(f)
  BY DEF Overwritten, BlocksOf
<1> HIDE DEF K
<1>5. /\ \A g \in Functions : BlocksOf(g)' = IF g = f THEN (BlocksOf(f) \ K) \cup {CurBlock}
                                             ELSE BlocksOf(g)
      /\ \A g \in DOMAIN TableBlocks' : FunctionBlocks'[g] # TableBlocks'[g]
  BY <1>1, <1>2, EndMaps DEF K
<1> HIDE DEF f
<1>6. OneOwner'
  BY <1>1, <1>2, <1>3, <1>4, <1>5, EndOwner
<1>7. /\ DOMAIN FunctionBlocks' \subseteq Functions
      /\ DOMAIN TableBlocks' \subseteq DOMAIN FunctionBlocks'
  BY <1>1, <1>2 DEF Assign, IInv
<1>8. SlabsOK' /\ EmittingOK'
  BY <1>2 DEF SlabsOK, EmittingOK, IInv, NotEmitting
<1> QED BY <1>2, <1>3, <1>6, <1>7, <1>8 DEF IInv

LEMMA DeallocateIInv ==
  ASSUME IInv, NEW f \in Functions, DeallocateMemForFunction(f)
  PROVE  IInv'
<1>1. Well(mem', CodeSlabs) /\ OneOwner'
  BY DeallocateWell, DeallocateOwner
<1>2. /\ UNCHANGED <<CodeSlabs, LastSlab, CurBlock, emitting>> /\ emitting = NotEmitting
      /\ DOMAIN FunctionBlocks' = DOMAIN FunctionBlocks \ {f}
      /\ DOMAIN TableBlocks' = DOMAIN TableBlocks \ {f}
  BY DEF DeallocateMemForFunction, Erase
<1>3. SlabsOK' /\ EmittingOK'
  BY <1>2 DEF SlabsOK, EmittingOK, IInv, NotEmitting
<1> QED BY <1>1, <1>2, <1>3 DEF IInv

LEMMA AllocateSpaceIInv ==
  ASSUME IInv, NEW n \in Requests, HeadHolds(n), AllocateSpace(n)
  PROVE  IInv'
<1>1. Well(mem', CodeSlabs) /\ OneOwner'
  BY SpaceWell, SpaceOwner
<1>2. /\ UNCHANGED <<CodeSlabs, LastSlab, FunctionBlocks, TableBlocks, emitting>>
      /\ emitting = NotEmitting /\ CurBlock' = mem.head /\ mem.head \in Nat
  BY DEF AllocateSpace, IInv, Well, Layout, Free
<1>3. SlabsOK' /\ EmittingOK'
  BY <1>2 DEF SlabsOK, EmittingOK, IInv, NotEmitting
<1> QED BY <1>1, <1>2, <1>3 DEF IInv

LEMMA NextIInv == IInv /\ [Next]_vars => IInv'
<1> SUFFICES ASSUME IInv, [Next]_vars PROVE IInv'
  OBVIOUS
<1>1. CASE \E f \in Functions, req \in Requests : StartFunctionBody(f, req)
  BY <1>1, StartFunctionBodyIInv
<1>2. CASE \E f \in Functions, req \in Requests : StartExceptionTable(f, req)
  BY <1>2, StartExceptionTableIInv
<1>3. CASE \E used \in UsedSizes : EndFunctionBody(used)
  BY <1>3, EndFunctionBodyIInv
<1>4. CASE \E used \in UsedSizes : EndExceptionTable(used)
  BY <1>4, EndExceptionTableIInv
<1>5. CASE \E f \in Functions : DeallocateMemForFunction(f)
  BY <1>5, DeallocateIInv
<1>6. CASE \E n \in Requests : HeadHolds(n) /\ AllocateSpace(n)
  BY <1>6, AllocateSpaceIInv
<1>7. CASE UNCHANGED vars
  BY <1>7 DEF vars, IInv, SlabsOK, EmittingOK, OneOwner, Sentinels, Owned, BlocksOf,
              BeingEmitted
<1> QED BY <1>1, <1>2, <1>3, <1>4, <1>5, <1>6, <1>7 DEF Next, EmitStep

\* The heap invariant holds in every reachable state.
THEOREM Invariance == Spec => []IInv
<1>1. Init => IInv
  BY InitIInv
<1>2. IInv /\ [Next]_vars => IInv'
  BY NextIInv
<1> QED BY <1>1, <1>2, PTL DEF Spec

-----------------------------------------------------------------------------
(* What follows from the invariant. *)

\* Every variable has its type.
THEOREM TypeCorrect == Spec => []TypeOK
<1>1. IInv => TypeOK
  <2> SUFFICES ASSUME IInv PROVE TypeOK
    OBVIOUS
  <2>1. /\ Fields(mem) /\ Layout(mem, CodeSlabs) /\ Fixed(mem, CodeSlabs)
        /\ Circle(Free(mem), mem.next, mem.prev)
        /\ mem.head \in Free(mem) /\ mem.ok = TRUE
    BY DEF IInv, Well
  <2>2. /\ Blocks(mem) \subseteq Nat
        /\ \A b \in Blocks(mem) : mem.size[b] \in Nat
        /\ mem.allocated \subseteq Blocks(mem)
        /\ mem.prevAllocated \subseteq Blocks(mem)
        /\ Free(mem) \subseteq Blocks(mem)
    BY <2>1 DEF Layout, Free
  <2>3. /\ DOMAIN mem.prev = DOMAIN mem.next
        /\ DOMAIN mem.next \subseteq Blocks(mem)
        /\ \A b \in DOMAIN mem.next : mem.next[b] \in Blocks(mem) /\ mem.prev[b] \in Blocks(mem)
    BY <2>1, <2>2 DEF Circle
  <2>4. \A b \in DOMAIN CodeSlabs : b \in Nat /\ CodeSlabs[b] \in Nat
    BY <2>1, <2>2 DEF Fixed
  <2>5. LastSlab \in DOMAIN CodeSlabs /\ CurBlock \in Nat \cup {NoBlock}
    BY DEF IInv, SlabsOK
  <2>6. emitting \in [stage : {"none", "body", "table"}, fn : Functions \cup {NoFunction}]
    <3>1. NotEmitting \in [stage : {"none", "body", "table"}, fn : Functions \cup {NoFunction}]
      BY DEF NotEmitting
    <3>2. ASSUME emitting \in [stage : {"body", "table"}, fn : Functions]
          PROVE  emitting \in [stage : {"none", "body", "table"}, fn : Functions \cup {NoFunction}]
      BY <3>2
    <3> QED BY <3>1, <3>2 DEF IInv, EmittingOK
  <2>7. spaceBlocks \cup leakedBlocks \subseteq Nat
    BY <2>2 DEF IInv, OneOwner
  <2>8. /\ DOMAIN FunctionBlocks \subseteq Functions
        /\ DOMAIN TableBlocks \subseteq DOMAIN FunctionBlocks
    BY DEF IInv
  <2>9. mem.head \in Blocks(mem) /\ mem.ok \in BOOLEAN
    BY <2>1, <2>2
  <2> QED BY <2>2, <2>3, <2>4, <2>5, <2>6, <2>7, <2>8, <2>9 DEF TypeOK
<1> QED BY <1>1, Invariance, PTL

\* No assert of the memory manager fails.
THEOREM NoAssertFailsEver == Spec => []NoAssertFails
<1>1. IInv => NoAssertFails
  BY DEF IInv, Well, NoAssertFails
<1> QED BY <1>1, Invariance, PTL

\* Free blocks never touch, and the free list holds free blocks only.
THEOREM AlwaysCoalesced == Spec => []Coalesced
<1>1. IInv => Coalesced
  <2> SUFFICES ASSUME IInv PROVE Coalesced
    OBVIOUS
  <2>1. Listed(mem) = Free(mem)
    BY ListedIsFree DEF IInv
  <2>2. \A b \in Free(mem) : getBlockAfter(mem, b) \notin Free(mem)
    BY DEF IInv, Well, Tags, Free
  <2> QED BY <2>1, <2>2 DEF Coalesced
<1> QED BY <1>1, Invariance, PTL

\* The last three blocks of the first slab are never touched, as long as
\* allocateSpace is not asked for more than the head of the free list holds.
THEOREM LastBlocksStay == Spec => []LastBlocksUntouched
<1>1. IInv => LastBlocksUntouched
  <2> SUFFICES ASSUME IInv PROVE LastBlocksUntouched
    OBVIOUS
  <2>1. /\ SentinelsOf(CodeSlabs) \subseteq mem.allocated
        /\ \A k \in SentinelsOf(CodeSlabs) : mem.size[k] = HeaderSize
        /\ Mem2 \in Free(mem) /\ mem.size[Mem2] = MinBlockSize
        /\ mem.allocated \subseteq Blocks(mem)
    BY DEF IInv, Well, Fixed, Layout
  <2>2. Mem1 \in SentinelsOf(CodeSlabs) /\ Mem3 \in SentinelsOf(CodeSlabs)
    BY DEF SentinelsOf
  <2> QED BY <2>1, <2>2 DEF LastBlocksUntouched, Free
<1> QED BY <1>1, Invariance, PTL

\* Every allocated block has exactly one owner.
THEOREM OneOwnerEver == Spec => []OneOwner
<1>1. IInv => OneOwner
  BY DEF IInv
<1> QED BY <1>1, Invariance, PTL

\* A block that begins in a slab ends in it.
LEMMA BlockInSlab ==
  ASSUME IInv, NEW s \in DOMAIN CodeSlabs, NEW b \in InSlab(s)
  PROVE  /\ b \in Blocks(mem) /\ b \in Nat /\ getBlockAfter(mem, b) \in Nat
         /\ s \in Nat /\ SlabEnd(CodeSlabs, s) \in Nat /\ s <= b
         /\ b < getBlockAfter(mem, b)
         /\ getBlockAfter(mem, b) <= SlabEnd(CodeSlabs, s)
<1>1. /\ b \in Blocks(mem) /\ s <= b /\ b < SlabEnd(CodeSlabs, s)
      /\ Layout(mem, CodeSlabs)
  BY DEF InSlab, IInv, Well
<1>2. /\ \A t \in DOMAIN CodeSlabs : t \in Nat /\ CodeSlabs[t] \in Nat \ {0}
      /\ \A t, u \in DOMAIN CodeSlabs : t < u => SlabEnd(CodeSlabs, t) <= u
  BY DEF IInv, SlabsOK, Well, Fixed, Layout
<1>3. b \in Nat /\ getBlockAfter(mem, b) \in Nat /\ b < getBlockAfter(mem, b)
  BY <1>1, AfterFacts DEF Layout
<1>4. PICK t \in DOMAIN CodeSlabs :
        t <= b /\ getBlockAfter(mem, b) <= SlabEnd(CodeSlabs, t)
  BY <1>1 DEF Layout
<1>5. SlabEnd(CodeSlabs, s) \in Nat /\ SlabEnd(CodeSlabs, t) \in Nat
  BY <1>2 DEF SlabEnd
<1>6. s \in Nat /\ t \in Nat /\ (t < s => SlabEnd(CodeSlabs, t) <= s)
                            /\ (s < t => SlabEnd(CodeSlabs, s) <= t)
  BY <1>2
<1>7. t = s
  BY <1>1, <1>3, <1>4, <1>5, <1>6
<1> QED BY <1>1, <1>3, <1>4, <1>5, <1>6, <1>7

\* A slab is cut into blocks without a gap.
LEMMA SlabTiled ==
  ASSUME IInv, NEW s \in DOMAIN CodeSlabs
  PROVE  Tiled(s)
<1>1. Well(mem, CodeSlabs) /\ Layout(mem, CodeSlabs) /\ Fixed(mem, CodeSlabs)
  BY DEF IInv, Well
<1>2. /\ \A t \in DOMAIN CodeSlabs : t \in Nat /\ CodeSlabs[t] \in Nat \ {0}
      /\ \A t, u \in DOMAIN CodeSlabs : t < u => SlabEnd(CodeSlabs, t) <= u
      /\ Mem0 \in DOMAIN CodeSlabs /\ SlabEnd(CodeSlabs, Mem0) = DefaultCodeSlabSize
  BY <1>1, JMMAssumption DEF IInv, SlabsOK, Fixed, Layout, Mem0, SlabEnd
<1>3. s \in Blocks(mem)
  BY <1>1 DEF Fixed
<1>4. ASSUME NEW b \in InSlab(s)
      PROVE  getBlockAfter(mem, b) \in (InSlab(s) \ {b}) \cup {SlabEnd(CodeSlabs, s)}
  <2> DEFINE a == getBlockAfter(mem, b)
             z == SlabEnd(CodeSlabs, s)
  <2>1. /\ b \in Blocks(mem) /\ b \in Nat /\ a \in Nat /\ s \in Nat /\ z \in Nat
        /\ s <= b /\ b < a /\ a <= z
    BY BlockInSlab
  <2>2. a \in Blocks(mem) \/ a = z
    <3>1. CASE b \notin SentinelsOf(CodeSlabs)
      BY <3>1, <2>1, <1>1 DEF Layout
    <3>2. CASE b = Mem1
      <4>1. mem.size[Mem1] = HeaderSize /\ Mem2 \in Blocks(mem)
        BY <1>1 DEF Fixed, SentinelsOf, Free
      <4>2. Mem1 + HeaderSize = Mem2
        BY JMMAssumption DEF Mem1, Mem2, Mem3, HeaderSize, MinBlockSize
      <4> QED BY <3>2, <4>1, <4>2 DEF getBlockAfter
    <3>3. ASSUME NEW t \in DOMAIN CodeSlabs, b = SlabEnd(CodeSlabs, t) - HeaderSize
          PROVE  a = z
      <4>1. mem.size[b] = HeaderSize
        BY <3>3, <1>1 DEF Fixed, SentinelsOf
      <4>2. SlabEnd(CodeSlabs, t) \in Nat /\ SlabEnd(CodeSlabs, t) > t /\ t \in Nat
        BY <1>2 DEF SlabEnd
      <4>3. a = SlabEnd(CodeSlabs, t) /\ t <= b
        BY <3>3, <4>1, <4>2, <2>1 DEF getBlockAfter, HeaderSize
      <4>4. (t < s => SlabEnd(CodeSlabs, t) <= s) /\ (s < t => z <= t)
        BY <1>2
      <4>5. t = s
        BY <2>1, <4>2, <4>3, <4>4
      <4> QED BY <4>3, <4>5
    <3>4. CASE b = Mem3
      BY <3>3, <3>4, <1>2 DEF Mem3
    <3> QED BY <3>1, <3>2, <3>3, <3>4 DEF SentinelsOf
  <2>3. a = z \/ a \in InSlab(s) \ {b}
    BY <2>1, <2>2 DEF InSlab
  <2> QED BY <2>3
<1>5. ASSUME NEW b \in InSlab(s) \ {s}
      PROVE  \E c \in InSlab(s) : getBlockAfter(mem, c) = b
  <2>1. /\ b \in Blocks(mem) /\ b \in Nat /\ s \in Nat /\ s < b
        /\ b < SlabEnd(CodeSlabs, s) /\ SlabEnd(CodeSlabs, s) \in Nat
    BY BlockInSlab DEF InSlab
  <2>2. b \notin DOMAIN CodeSlabs
    BY <2>1, <1>2
  <2>3. PICK c \in Blocks(mem) : getBlockAfter(mem, c) = b
    BY <2>1, <2>2, <1>1 DEF Layout
  <2>4. c \in Nat /\ c < b /\ (c < s => b <= s)
    BY <2>3, <1>1, <1>3, AfterFacts DEF Layout
  <2>5. c \in InSlab(s)
    BY <2>1, <2>3, <2>4 DEF InSlab
  <2> QED BY <2>3, <2>5
<1> QED BY <1>3, <1>4, <1>5 DEF Tiled

\* What DefaultJITMemoryManager::CheckInvariants looks at always holds.
THEOREM CheckInvariantsHold == Spec => []CheckInvariants
<1>1. IInv => CheckInvariants
  <2> SUFFICES ASSUME IInv PROVE CheckInvariants
    OBVIOUS
  <2>1. /\ Layout(mem, CodeSlabs) /\ Fixed(mem, CodeSlabs) /\ Tags(mem)
        /\ Circle(Free(mem), mem.next, mem.prev) /\ Listed(mem) = Free(mem)
    BY ListedIsFree DEF IInv, Well
  <2>2. \A b \in Listed(mem) : mem.prev[mem.next[b]] = b
    BY <2>1 DEF Circle
  <2>3. ASSUME NEW b \in Listed(mem)
        PROVE  \E s \in DOMAIN CodeSlabs : b \in InSlab(s)
    <3>1. b \in Blocks(mem) /\ b \in Nat
      BY <2>1 DEF Free, Layout
    <3>2. PICK s \in DOMAIN CodeSlabs :
            s <= b /\ getBlockAfter(mem, b) <= SlabEnd(CodeSlabs, s)
      BY <2>1, <3>1 DEF Layout
    <3>3. getBlockAfter(mem, b) \in Nat /\ b < getBlockAfter(mem, b)
      BY <2>1, <3>1, AfterFacts
    <3>4. SlabEnd(CodeSlabs, s) \in Nat
      BY DEF SlabEnd, IInv, SlabsOK, Well, Fixed, Layout
    <3> QED BY <3>1, <3>2, <3>3, <3>4 DEF InSlab
  <2>4. ASSUME NEW s \in DOMAIN CodeSlabs
        PROVE  /\ Tiled(s)
               /\ s \in mem.prevAllocated
               /\ \A b \in InSlab(s) :
                    /\ FlagsAgree(b)
                    /\ b \in Free(mem) => b \in Listed(mem) /\ MarkerRight(b)
    <3>1. s \in mem.prevAllocated
      BY <2>1 DEF Fixed
    <3>2. ASSUME NEW b \in InSlab(s)
          PROVE  /\ FlagsAgree(b)
                 /\ b \in Free(mem) => b \in Listed(mem) /\ MarkerRight(b)
      BY <2>1 DEF Tags, FlagsAgree, MarkerRight, InSlab
    <3> QED BY <3>1, <3>2, SlabTiled
  <2> QED BY <2>2, <2>3, <2>4 DEF CheckInvariants
<1> QED BY <1>1, Invariance, PTL

\* A start call offers at least as many words as it was asked for.
THEOREM RequestsMet == Spec => OffersRequested
<1> DEFINE Offers == \A f \in Functions, req \in Requests :
                       StartFunctionBody(f, req) \/ StartExceptionTable(f, req)
                         => mem'.size[CurBlock'] - HeaderSize >= req
<1>1. IInv => Offers
  <2> SUFFICES ASSUME IInv, NEW f \in Functions, NEW req \in Requests,
                      StartFunctionBody(f, req) \/ StartExceptionTable(f, req)
               PROVE  mem'.size[CurBlock'] - HeaderSize >= req
    OBVIOUS
  <2>1. StartBlock(req) /\ Well(mem, CodeSlabs) /\ SlabsOK
    BY DEF StartFunctionBody, StartExceptionTable, IInv
  <2> QED BY <2>1, StartBlockWell
<1> HIDE DEF Offers
<1>2. []IInv => [][Offers]_vars
  BY <1>1, PTL
<1>3. Spec => [][Offers]_vars
  BY <1>2, Invariance, PTL
<1> QED BY <1>3 DEF OffersRequested, Offers

-----------------------------------------------------------------------------
(* The memory manager implements the code heap the JIT relies on. *)

\* Blocks in use are apart and lie in slabs.
LEMMA BlocksApart ==
  ASSUME NEW m, NEW slabs, Well(m, slabs), NEW b \in Blocks(m)
  PROVE  /\ b \in Nat /\ m.size[b] \in Nat
         /\ \A c \in Blocks(m) : c # b => Heap!Apart(b, m.size[b], c, m.size[c])
         /\ Heap!Within(slabs, b, m.size[b])
<1>1. Layout(m, slabs)
  BY DEF Well
<1>2. b \in Nat /\ m.size[b] \in Nat
  BY <1>1 DEF Layout
<1>3. ASSUME NEW c \in Blocks(m), c # b
      PROVE  Heap!Apart(b, m.size[b], c, m.size[c])
  <2>1. c \in Nat
    BY <1>1 DEF Layout
  <2>2. (b < c => b + m.size[b] <= c) /\ (c < b => c + m.size[c] <= b)
    BY <1>1 DEF Layout, getBlockAfter
  <2> QED BY <1>2, <1>3, <2>1, <2>2 DEF Heap!Apart
<1>4. Heap!Within(slabs, b, m.size[b])
  BY <1>1 DEF Layout, getBlockAfter, SlabEnd, Heap!Within
<1> QED BY <1>2, <1>3, <1>4

\* The regions in use.
LEMMA RegionsFact ==
  /\ DOMAIN Regions = mem.allocated \ Sentinels
  /\ \A b \in DOMAIN Regions : Regions[b] = mem.size[b]
  /\ DOMAIN Regions' = mem'.allocated \ Sentinels'
  /\ \A b \in DOMAIN Regions' : Regions'[b] = mem'.size[b]
BY DEF Regions

\* One block nobody had is in use now: a region is reserved.
LEMMA ReserveStep ==
  ASSUME IInv, Well(mem', CodeSlabs'), NEW s, s \notin mem.allocated,
         NEW N, Sentinels' = Sentinels \cup N, N \cap (mem.allocated \cup {s}) = {},
         mem'.allocated = mem.allocated \cup N \cup {s},
         \A x \in mem.allocated : mem'.size[x] = mem.size[x],
         DOMAIN CodeSlabs \subseteq DOMAIN CodeSlabs',
         \A b \in DOMAIN CodeSlabs : CodeSlabs'[b] = CodeSlabs[b],
         UNCHANGED <<FunctionBlocks, TableBlocks>>
  PROVE  Heap!Reserve
<1>1. Sentinels \subseteq mem.allocated /\ mem'.allocated \subseteq Blocks(mem')
  BY DEF IInv, Well, Fixed, Layout, Sentinels
<1>2. /\ s \in DOMAIN Regions' \ DOMAIN Regions
      /\ DOMAIN Regions' = DOMAIN Regions \cup {s}
  BY <1>1, RegionsFact
<1>3. Heap!Keeps(Regions, Regions', DOMAIN Regions)
  BY <1>2, RegionsFact DEF Heap!Keeps
<1>4. \A t \in DOMAIN Regions : Heap!Apart(s, Regions'[s], t, Regions[t])
  <2> SUFFICES ASSUME NEW t \in DOMAIN Regions
               PROVE  Heap!Apart(s, Regions'[s], t, Regions[t])
    OBVIOUS
  <2>1. t \in Blocks(mem') /\ s \in Blocks(mem') /\ t # s
    BY <1>1, <1>2, RegionsFact
  <2>2. Heap!Apart(s, mem'.size[s], t, mem'.size[t])
    BY <2>1, BlocksApart
  <2>3. Regions'[s] = mem'.size[s] /\ Regions[t] = mem'.size[t]
    BY <1>2, RegionsFact
  <2> QED BY <2>2, <2>3
<1>5. Heap!Within(CodeSlabs', s, Regions'[s])
  <2>1. s \in Blocks(mem') /\ Regions'[s] = mem'.size[s]
    BY <1>1, <1>2, RegionsFact
  <2> QED BY <2>1, BlocksApart
<1>6. Heap!Sized(CodeSlabs')
  BY DEF Heap!Sized, Well, Fixed, Layout
<1>7. Heap!Sized(Regions')
  <2> SUFFICES ASSUME NEW x \in DOMAIN Regions'
               PROVE  x \in Nat /\ Regions'[x] \in Nat
    BY DEF Heap!Sized
  <2>1. x \in Blocks(mem') /\ Regions'[x] = mem'.size[x]
    BY <1>1, RegionsFact
  <2> QED BY <2>1, BlocksApart
<1>8. [f \in DOMAIN FunctionBlocks |-> BlocksOf(f)]' = [f \in DOMAIN FunctionBlocks |-> BlocksOf(f)]
  BY DEF BlocksOf
<1>9. Heap!Keeps(CodeSlabs, CodeSlabs', DOMAIN CodeSlabs)
  BY DEF Heap!Keeps
<1> QED BY <1>2, <1>3, <1>4, <1>5, <1>6, <1>7, <1>8, <1>9 DEF Heap!Reserve

\* The block being emitted becomes code of f.
LEMMA CommitStep ==
  ASSUME IInv, emitting # NotEmitting, NEW f \in Functions,
         mem'.allocated = mem.allocated, UNCHANGED CodeSlabs,
         mem'.size[CurBlock] \in Nat, mem'.size[CurBlock] <= mem.size[CurBlock],
         \A x \in mem.allocated \ {CurBlock} : mem'.size[x] = mem.size[x],
         DOMAIN FunctionBlocks' = DOMAIN FunctionBlocks \cup {f},
         NEW K,
         \A g \in Functions : BlocksOf(g)' = IF g = f THEN (BlocksOf(f) \ K) \cup {CurBlock}
                                             ELSE BlocksOf(g)
  PROVE  Heap!Commit(f)
<1> DEFINE code == [g \in DOMAIN FunctionBlocks |-> BlocksOf(g)]
<1>1. CurBlock \in mem.allocated \ Sentinels
  BY EmittedBlock
<1>2. Sentinels' = Sentinels
  BY DEF Sentinels
<1>3. /\ CurBlock \in DOMAIN Regions /\ DOMAIN Regions' = DOMAIN Regions
      /\ Heap!Keeps(Regions, Regions', DOMAIN Regions \ {CurBlock})
      /\ Regions'[CurBlock] \in Nat
      /\ Regions'[CurBlock] <= Regions[CurBlock]
  BY <1>1, <1>2, RegionsFact DEF Heap!Keeps
<1>4. DOMAIN FunctionBlocks \subseteq Functions
  BY DEF IInv
<1>5. \A g \in DOMAIN code : CurBlock \notin code[g]
  BY <1>4 DEF IInv, OneOwner, Owned, BeingEmitted
<1>6. DOMAIN code' = DOMAIN code \cup {f} /\ Heap!Keeps(code, code', DOMAIN code \ {f})
  BY <1>4 DEF Heap!Keeps
<1>7. code'[f] = (BlocksOf(f) \ K) \cup {CurBlock}
  BY <1>6
<1>8. code'[f] \ {CurBlock} \subseteq UNION {code[g] : g \in DOMAIN code \cap {f}}
  <2>1. CASE f \in DOMAIN FunctionBlocks
    <3>1. code[f] = BlocksOf(f) /\ f \in DOMAIN code \cap {f}
      BY <2>1
    <3> QED BY <3>1, <1>7
  <2>2. CASE f \notin DOMAIN FunctionBlocks
    <3>1. BlocksOf(f) = {}
      BY <2>2 DEF BlocksOf, IInv
    <3> QED BY <3>1, <1>7
  <2> QED BY <2>1, <2>2
<1>9. CurBlock \in code'[f]
  BY <1>7
<1> HIDE DEF code
<1>10. \E s \in DOMAIN Regions :
         /\ \A g \in DOMAIN code : s \notin code[g]
         /\ DOMAIN Regions' = DOMAIN Regions
         /\ Heap!Keeps(Regions, Regions', DOMAIN Regions \ {s})
         /\ Regions'[s] \in Nat /\ Regions'[s] <= Regions[s]
         /\ DOMAIN code' = DOMAIN code \cup {f}
         /\ Heap!Keeps(code, code', DOMAIN code \ {f})
         /\ s \in code'[f]
         /\ code'[f] \ {s} \subseteq UNION {code[g] : g \in DOMAIN code \cap {f}}
         /\ UNCHANGED CodeSlabs
  BY <1>3, <1>5, <1>6, <1>8, <1>9
<1> QED BY <1>10 DEF Heap!Commit, code

\* Every step of the memory manager is a step of the code heap or none.
LEMMA HeapStep ==
  ASSUME IInv, IInv', [Next]_vars
  PROVE  \/ Heap!Next
         \/ UNCHANGED <<CodeSlabs, Regions, [f \in DOMAIN FunctionBlocks |-> BlocksOf(f)]>>
<1>1. CASE \E f \in Functions, req \in Requests :
             StartFunctionBody(f, req) \/ StartExceptionTable(f, req)
  <2>1. PICK f \in Functions, req \in Requests :
          StartFunctionBody(f, req) \/ StartExceptionTable(f, req)
    BY <1>1
  <2>2. /\ StartBlock(req) /\ Well(mem, CodeSlabs) /\ SlabsOK
        /\ UNCHANGED <<FunctionBlocks, TableBlocks>>
    BY <2>1 DEF StartFunctionBody, StartExceptionTable, IInv
  <2>3. /\ Well(mem', CodeSlabs') /\ CurBlock' \notin mem.allocated
        /\ \A x \in mem.allocated : mem'.size[x] = mem.size[x]
        /\ DOMAIN CodeSlabs \subseteq DOMAIN CodeSlabs'
        /\ \A s \in DOMAIN CodeSlabs : CodeSlabs'[s] = CodeSlabs[s]
    BY <2>2, StartBlockWell
  <2>4. PICK N : /\ Sentinels' = Sentinels \cup N
                 /\ N \cap (mem.allocated \cup {CurBlock'}) = {}
                 /\ mem'.allocated = mem.allocated \cup N \cup {CurBlock'}
    BY <2>2, StartBlockWell
  <2>5. Heap!Reserve
    BY <2>2, <2>3, <2>4, ReserveStep
  <2> QED BY <2>5 DEF Heap!Next
<1>2. CASE \E used \in UsedSizes : EndFunctionBody(used)
  <2>1. PICK used \in UsedSizes : EndFunctionBody(used)
    BY <1>2
  <2> DEFINE f == emitting.fn
             K == Overwritten(FunctionBlocks, f)
  <2>2. used \in Int /\ emitting # NotEmitting /\ f \in Functions
    BY UsedSizesFact DEF IInv, EmittingOK
  <2>3. /\ Written(used) /\ FunctionBlocks' = Assign(FunctionBlocks, f)
        /\ UNCHANGED <<CodeSlabs, TableBlocks>>
        /\ mem' = TrimAllocationToSize(mem, CurBlock, used + HeaderSize)
    BY <2>1 DEF EndFunctionBody
  <2>4. /\ mem'.allocated = mem.allocated
        /\ mem'.size[CurBlock] \in Nat /\ mem'.size[CurBlock] <= mem.size[CurBlock]
        /\ \A x \in mem.allocated \ {CurBlock} : mem'.size[x] = mem.size[x]
    BY <2>2, <2>3, EndWell
  <2>5. \A g \in Functions : BlocksOf(g)' = IF g = f THEN (BlocksOf(f) \ K) \cup {CurBlock}
                                            ELSE BlocksOf(g)
    BY <2>2, <2>3, EndMaps
  <2>6. DOMAIN FunctionBlocks' = DOMAIN FunctionBlocks \cup {f}
    BY <2>3 DEF Assign
  <2> HIDE DEF f, K
  <2>7. Heap!Commit(f)
    BY <2>2, <2>3, <2>4, <2>5, <2>6, CommitStep
  <2> QED BY <2>2, <2>7 DEF Heap!Next
<1>3. CASE \E used \in UsedSizes : EndExceptionTable(used)
  <2>1. PICK used \in UsedSizes : EndExceptionTable(used)
    BY <1>3
  <2> DEFINE f == emitting.fn
             K == Overwritten(TableBlocks, f)
  <2>2. used \in Int /\ emitting # NotEmitting /\ f \in Functions
    BY UsedSizesFact DEF IInv, EmittingOK
  <2>3. /\ Written(used) /\ TableBlocks' = Assign(TableBlocks, f)
        /\ UNCHANGED <<CodeSlabs, FunctionBlocks>>
        /\ mem' = TrimAllocationToSize(mem, CurBlock, used + HeaderSize)
        /\ f \in DOMAIN FunctionBlocks
    BY <2>1, <2>2 DEF EndExceptionTable, IInv, EmittingOK
  <2>4. /\ mem'.allocated = mem.allocated
        /\ mem'.size[CurBlock] \in Nat /\ mem'.size[CurBlock] <= mem.size[CurBlock]
        /\ \A x \in mem.allocated \ {CurBlock} : mem'.size[x] = mem.size[x]
    BY <2>2, <2>3, EndWell
  <2>5. \A g \in Functions : BlocksOf(g)' = IF g = f THEN (BlocksOf(f) \ K) \cup {CurBlock}
                                            ELSE BlocksOf(g)
    BY <2>2, <2>3, EndMaps
  <2>6. DOMAIN FunctionBlocks' = DOMAIN FunctionBlocks \cup {f}
    BY <2>3
  <2> HIDE DEF f, K
  <2>7. Heap!Commit(f)
    BY <2>2, <2>3, <2>4, <2>5, <2>6, CommitStep
  <2> QED BY <2>2, <2>7 DEF Heap!Next
<1>4. CASE \E f \in Functions : DeallocateMemForFunction(f)
  <2>1. PICK f \in Functions : DeallocateMemForFunction(f)
    BY <1>4
  <2> DEFINE code == [g \in DOMAIN FunctionBlocks |-> BlocksOf(g)]
  <2>2. /\ mem'.allocated = mem.allocated \ BlocksOf(f)
        /\ \A x \in mem.allocated \ BlocksOf(f) : mem'.size[x] = mem.size[x]
    BY <2>1, DeallocateWell
  <2>3. /\ f \in DOMAIN FunctionBlocks /\ UNCHANGED CodeSlabs
        /\ FunctionBlocks' = Erase(FunctionBlocks, f)
        /\ TableBlocks' = Erase(TableBlocks, f)
    BY <2>1 DEF DeallocateMemForFunction
  <2>4. Sentinels' = Sentinels
    BY <2>3 DEF Sentinels
  <2>5. /\ DOMAIN Regions' = DOMAIN Regions \ BlocksOf(f)
        /\ Heap!Keeps(Regions, Regions', DOMAIN Regions')
    BY <2>2, <2>4, RegionsFact DEF Heap!Keeps
  <2>6. \A g \in Functions \ {f} : BlocksOf(g)' = BlocksOf(g)
    BY <2>3 DEF Erase, BlocksOf
  <2>7. DOMAIN code' = DOMAIN code \ {f} /\ Heap!Keeps(code, code', DOMAIN code')
    BY <2>3, <2>6 DEF Erase, Heap!Keeps, IInv
  <2>8. f \in DOMAIN code /\ code[f] = BlocksOf(f)
    BY <2>3
  <2>9. Heap!Discard(f)
    BY <2>3, <2>5, <2>7, <2>8 DEF Heap!Discard
  <2> QED BY <2>9 DEF Heap!Next
<1>5. CASE \E n \in Requests : HeadHolds(n) /\ AllocateSpace(n)
  <2>1. PICK n \in Requests : HeadHolds(n) /\ AllocateSpace(n)
    BY <1>5
  <2>2. UNCHANGED <<CodeSlabs, FunctionBlocks, TableBlocks>>
    BY <2>1 DEF AllocateSpace
  <2>3. /\ Well(mem', CodeSlabs') /\ mem.head \notin mem.allocated
        /\ mem'.allocated = mem.allocated \cup {} \cup {mem.head}
        /\ \A x \in mem.allocated : mem'.size[x] = mem.size[x]
    BY <2>1, <2>2, SpaceWell
  <2>4. Sentinels' = Sentinels \cup {}
    BY <2>2 DEF Sentinels
  <2>5. {} \cap (mem.allocated \cup {mem.head}) = {}
    OBVIOUS
  <2>6. Heap!Reserve
    BY <2>2, <2>3, <2>4, <2>5, ReserveStep
  <2> QED BY <2>6 DEF Heap!Next
<1>6. CASE UNCHANGED vars
  BY <1>6 DEF vars, Regions, Sentinels, BlocksOf
<1> QED BY <1>1, <1>2, <1>3, <1>4, <1>5, <1>6 DEF Next, EmitStep

\* The memory manager implements the code heap: regions in use never overlap
\* one another or move, and code stays until its function is deallocated.
THEOREM ImplementsCodeHeap == Spec => HeapSpec
<1>1. Init => Heap!Init
  <2> SUFFICES ASSUME Init PROVE Heap!Init
    OBVIOUS
  <2>1. IInv
    BY InitIInv
  <2>2. Heap!Sized(CodeSlabs)
    BY <2>1 DEF Heap!Sized, IInv, Well, Fixed, Layout
  <2>3. DOMAIN FunctionBlocks = {} /\ Owned = {}
    BY DEF Init, NoBlocks, Owned, BlocksOf
  <2>4. mem.allocated = Sentinels
    BY <2>1, <2>3 DEF IInv, OneOwner, Init, BeingEmitted
  <2>5. DOMAIN Regions = {}
    BY <2>4, RegionsFact
  <2> QED BY <2>2, <2>3, <2>5 DEF Heap!Init
<1>2. IInv /\ IInv' /\ [Next]_vars => [Heap!Next]_(Heap!heapVars)
  BY HeapStep DEF Heap!heapVars
<1> QED BY <1>1, <1>2, Invariance, PTL DEF Spec, HeapSpec, Heap!Spec

\* Blocks in use never share a word.
THEOREM HeapExclusiveEver == Spec => []HeapExclusive
<1>1. IInv => HeapExclusive
  <2> SUFFICES ASSUME IInv PROVE HeapExclusive
    OBVIOUS
  <2>1. Well(mem, CodeSlabs) /\ mem.allocated \subseteq Blocks(mem)
    BY DEF IInv, Well, Layout
  <2>2. \A s \in DOMAIN Regions : s \in Blocks(mem) /\ Regions[s] = mem.size[s]
    BY <2>1, RegionsFact
  <2>3. ASSUME NEW s \in DOMAIN Regions, NEW t \in DOMAIN Regions, s # t
        PROVE  Heap!Apart(s, Regions[s], t, Regions[t])
    BY <2>1, <2>2, <2>3, BlocksApart
  <2>4. \A s \in DOMAIN Regions : Heap!Within(CodeSlabs, s, Regions[s])
    BY <2>1, <2>2, BlocksApart
  <2> QED BY <2>3, <2>4 DEF HeapExclusive, Heap!Exclusive
<1> QED BY <1>1, Invariance, PTL

=============================================================================
