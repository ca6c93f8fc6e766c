------------------------- MODULE ValueHandlesProofs -------------------------
(***************************************************************************)
(* Theorems about ValueHandles, for any handles, values, users and kinds:  *)
(* the lists stay intact whatever callbacks do and however often the table *)
(* moves; a walk leaves the list of its value only when somebody moved the *)
(* handle it kept to go on with; and any other walk misses nobody.         *)
(***************************************************************************)
EXTENDS ValueHandles, TLAPS

Place ==
  [in : {"handle"}, handle : Handles \cup {Null}] \cup [in : {"bucket"}, table : Nat, value : Values]
Mem ==
  [VP : [Handles -> Values \cup {Null}], Next : [Handles -> Handles \cup {Null}],
   Prev : [Handles -> Place], bucket : [Values -> Handles \cup {Null}],
   has : [Values -> BOOLEAN], table : Nat]

\* Handle h comes at or after e, stated by the sets that are closed under Next.
Follows(m, e, h) ==
  /\ e \in Handles
  /\ \A S \in SUBSET Handles :
       e \in S /\ (\A x \in S : m.Next[x] \in S \cup {Null}) => h \in S

\* What it is for the lists to be right for all handles but those in H, which
\* are on none: each handle is where its pointer back says, the links and the
\* buckets lead to handles of the same value, and to all of them.
Listed(m, H, h) == h \in Handles \ H /\ m.VP[h] # Null
PrevRight(m, H) ==
  \A h \in Handles : Listed(m, H, h) =>
    \/ \E g \in Handles : m.Prev[h] = InHandle(g) /\ m.Next[g] = h
    \/ m.Prev[h] = InBucket(m.table, m.VP[h]) /\ m.bucket[m.VP[h]] = h
NextRight(m, H) ==
  \A h \in Handles : m.Next[h] # Null =>
    /\ Listed(m, H, h) /\ Listed(m, H, m.Next[h])
    /\ m.VP[m.Next[h]] = m.VP[h] /\ m.Prev[m.Next[h]] = InHandle(h)
BucketRight(m, H) ==
  \A v \in Values :
    /\ m.has[v] <=> m.bucket[v] # Null
    /\ m.bucket[v] # Null => /\ Listed(m, H, m.bucket[v]) /\ m.VP[m.bucket[v]] = v
                             /\ m.Prev[m.bucket[v]] = InBucket(m.table, v)
AllReached(m, H) ==
  \A h \in Handles : Listed(m, H, h) => Follows(m, m.bucket[m.VP[h]], h)

WellBut(m, H) == m \in Mem /\ PrevRight(m, H) /\ NextRight(m, H) /\ BucketRight(m, H) /\ AllReached(m, H)

Well(m) == WellBut(m, {})

\* What of the order of the lists m survives in n when h leaves or enters.
KeepsOrder(m, n, h) ==
  \A e, x \in Handles \ {h} : Follows(m, e, x) => Follows(n, e, x)
PassesOver(m, n, h) ==
  \A x \in Handles \ {h} : Follows(m, h, x) => Follows(n, m.Next[h], x)

\* The lists n are the lists m with h cut out.
CutOut(m, n, h) ==
  /\ n \in Mem /\ n.VP = m.VP /\ n.table = m.table
  /\ \A y \in Handles : n.Next[y] = IF y = h THEN Null
                                    ELSE IF m.Next[y] = h THEN m.Next[h] ELSE m.Next[y]
  /\ \A y \in Handles \ {h} : n.Prev[y] = IF y = m.Next[h] THEN m.Prev[h] ELSE m.Prev[y]
  /\ \A v \in Values : n.bucket[v] = IF m.bucket[v] = h THEN m.Next[h] ELSE m.bucket[v]
  /\ \A v \in Values : n.has[v] <=> n.bucket[v] # Null

\* The lists n are the lists m with h put before x.
PutBefore(m, n, h, x) ==
  /\ n \in Mem /\ n.VP = m.VP /\ n.table = m.table /\ n.has = m.has
  /\ \A y \in Handles : n.Next[y] = IF y = h THEN x ELSE IF m.Next[y] = x THEN h ELSE m.Next[y]
  /\ \A y \in Handles : n.Prev[y] = IF y = h THEN m.Prev[x]
                                    ELSE IF y = x THEN InHandle(h) ELSE m.Prev[y]
  /\ \A v \in Values : n.bucket[v] = IF m.bucket[v] = x THEN h ELSE m.bucket[v]

\* The lists n are the lists m with h the first and only handle of its value,
\* the buckets perhaps in another table.
PutFirst(m, n, h) ==
  LET v == m.VP[h]
  IN  /\ n \in Mem /\ n.VP = m.VP /\ n.Next = m.Next
      /\ \A y \in Handles \ {h} : n.Prev[y] =
           IF n.table # m.table /\ m.VP[y] # Null /\ m.bucket[m.VP[y]] = y
           THEN InBucket(n.table, m.VP[y]) ELSE m.Prev[y]
      /\ n.Prev[h] = InBucket(n.table, v)
      /\ n.bucket = [m.bucket EXCEPT ![v] = h]
      /\ n.has = [m.has EXCEPT ![v] = TRUE]

-----------------------------------------------------------------------------
\* Places and what they hold.
LEMMA Places ==
  /\ \A g, h : InHandle(g) = InHandle(h) => g = h
  /\ \A t, u, v, w : InBucket(t, v) = InBucket(u, w) => t = u /\ v = w
  /\ \A g, t, v : InHandle(g) # InBucket(t, v)
  /\ \A h \in Handles \cup {Null} : InHandle(h) \in Place
  /\ \A t \in Nat, v \in Values : InBucket(t, v) \in Place
  /\ \A h : InHandle(h).in = "handle" /\ InHandle(h).handle = h
  /\ \A t, v : InBucket(t, v).in = "bucket" /\ InBucket(t, v).table = t /\ InBucket(t, v).value = v
<1>1. \A g, h : InHandle(g) = InHandle(h) => g = h
  BY DEF InHandle
<1>2. \A t, u, v, w : InBucket(t, v) = InBucket(u, w) => t = u /\ v = w
  BY DEF InBucket
<1>3. \A h : InHandle(h).in = "handle" /\ InHandle(h).handle = h
  BY DEF InHandle
<1>4. \A t, v : InBucket(t, v).in = "bucket" /\ InBucket(t, v).table = t /\ InBucket(t, v).value = v
  BY DEF InBucket
<1>5. \A g, t, v : InHandle(g) # InBucket(t, v)
  BY <1>3, <1>4
<1>6. /\ \A h \in Handles \cup {Null} : InHandle(h) \in Place
      /\ \A t \in Nat, v \in Values : InBucket(t, v) \in Place
  BY DEF InHandle, InBucket, Place
<1>. QED BY <1>1, <1>2, <1>3, <1>4, <1>5, <1>6

\* Storing changes one word.
LEMMA StoreInHandle ==
  ASSUME NEW m \in Mem, NEW g \in Handles, NEW h \in Handles \cup {Null},
         NEW p, p = InHandle(g), NEW n, n = Store(m, p, h)
  PROVE  /\ n \in Mem /\ n.Next = [m.Next EXCEPT ![g] = h]
         /\ n.VP = m.VP /\ n.Prev = m.Prev /\ n.bucket = m.bucket
         /\ n.has = m.has /\ n.table = m.table
BY DEF Store, InHandle, Mem

LEMMA StoreInBucket ==
  ASSUME NEW m \in Mem, NEW v \in Values, NEW h \in Handles \cup {Null},
         NEW p, p = InBucket(m.table, v), NEW n, n = Store(m, p, h)
  PROVE  /\ n \in Mem /\ n.bucket = [m.bucket EXCEPT ![v] = h]
         /\ n.VP = m.VP /\ n.Prev = m.Prev /\ n.Next = m.Next
         /\ n.has = m.has /\ n.table = m.table
BY DEF Store, InBucket, Mem

LEMMA SetPrev ==
  ASSUME NEW m \in Mem, NEW h \in Handles \cup {Null}, NEW p \in Place, NEW n, n = SetPrevPtr(m, h, p)
  PROVE  /\ n \in Mem /\ n.VP = m.VP /\ n.Next = m.Next /\ n.bucket = m.bucket
         /\ n.has = m.has /\ n.table = m.table
         /\ \A y \in Handles : n.Prev[y] = IF y = h THEN p ELSE m.Prev[y]
BY ValueHandlesAssumption DEF SetPrevPtr, Mem

-----------------------------------------------------------------------------
\* What it is for all lists to be right.
LEMMA WellFacts ==
  ASSUME NEW m, Well(m)
  PROVE  /\ m \in Mem /\ Null \notin Handles /\ Null \notin Values
         /\ \A h \in Handles : m.VP[h] \in Values \cup {Null} /\ m.Next[h] \in Handles \cup {Null}
                               /\ m.Prev[h] \in Place
         /\ \A v \in Values : m.bucket[v] \in Handles \cup {Null}
         /\ \A h \in Handles : m.VP[h] # Null =>
              \/ \E g \in Handles : m.Prev[h] = InHandle(g) /\ m.Next[g] = h
              \/ m.Prev[h] = InBucket(m.table, m.VP[h]) /\ m.bucket[m.VP[h]] = h
         /\ \A h \in Handles : m.Next[h] # Null =>
              /\ m.VP[h] # Null /\ m.VP[m.Next[h]] = m.VP[h] /\ m.Prev[m.Next[h]] = InHandle(h)
         /\ \A v \in Values : m.bucket[v] # Null =>
              /\ m.VP[m.bucket[v]] = v /\ m.Prev[m.bucket[v]] = InBucket(m.table, v)
         /\ \A v \in Values : m.has[v] <=> m.bucket[v] # Null
         /\ \A h \in Handles : m.VP[h] # Null => Follows(m, m.bucket[m.VP[h]], h)
BY ValueHandlesAssumption DEF Well, WellBut, Listed, PrevRight, NextRight, BucketRight, AllReached, Mem

\* No handle follows itself.
LEMMA NextOther ==
  ASSUME NEW m, Well(m), NEW h \in Handles
  PROVE  m.Next[h] # h
<1>. SUFFICES ASSUME m.Next[h] = h PROVE FALSE
  OBVIOUS
<1>1. m.VP[h] # Null /\ m.Prev[h] = InHandle(h)
  BY WellFacts
<1>2. Follows(m, m.bucket[m.VP[h]], h) /\ m.bucket[m.VP[h]] # h
  BY <1>1, WellFacts, Places
<1>3. \A y \in Handles \ {h} : m.Next[y] \in (Handles \ {h}) \cup {Null}
  BY <1>1, WellFacts, Places
<1>. QED BY <1>2, <1>3 DEF Follows

\* RemoveFromUseList cuts a handle out.
LEMMA UnlinkCuts ==
  ASSUME NEW m, Well(m), NEW h \in Handles, m.VP[h] # Null
  PROVE  CutOut(m, Unlinked(m, h), h)
<1>. DEFINE p == m.Prev[h]
            x == m.Next[h]
            v == m.VP[h]
            k == Store(m, p, x)
            n == SetPrevPtr(k, x, p)
            r == RemoveFromUseList(m, h)
            u == Unlinked(m, h)
<1>0. p = m.Prev[h] /\ x = m.Next[h] /\ v = m.VP[h] /\ u = Unlinked(m, h)
  OBVIOUS
<1>6. k = Store(m, p, x) /\ n = SetPrevPtr(k, x, p)
  OBVIOUS
<1>1. m \in Mem /\ v \in Values /\ x \in Handles \cup {Null} /\ p \in Place
  BY DEF Well, WellBut, Mem
<1>2. /\ r = IF x = Null /\ p.in = "bucket" /\ p.table = m.table
             THEN [n EXCEPT !.has[v] = FALSE] ELSE n
      /\ u = [r EXCEPT !.Next[h] = Null, !.Prev[h] = InHandle(Null)]
  BY DEF RemoveFromUseList, Unlinked
<1>. HIDE DEF p, x, v, k, n, r, u
<1>3. /\ x # h
      /\ \A y \in Handles : m.Next[y] = h => p = InHandle(y)
      /\ \A w \in Values : m.bucket[w] = h => w = v /\ p = InBucket(m.table, w)
      /\ x # Null => /\ m.Prev[x] = InHandle(h)
                     /\ \A w \in Values : m.bucket[w] # x
  <2>1. /\ \A y \in Handles : m.Next[y] = h => p = InHandle(y)
        /\ \A w \in Values : m.bucket[w] = h => w = v /\ p = InBucket(m.table, w)
        /\ x # Null => m.Prev[x] = InHandle(h)
    BY <1>0, <1>1, WellFacts
  <2>2. x # Null => \A w \in Values : m.bucket[w] # x
    BY <1>0, <1>1, <2>1, Places, WellFacts
  <2>3. x # h
    BY <1>0, NextOther
  <2>. QED BY <2>1, <2>2, <2>3
<1>4. CASE \E g \in Handles : p = InHandle(g) /\ m.Next[g] = h
  <2>1. PICK g \in Handles : p = InHandle(g) /\ m.Next[g] = h
    BY <1>4
  <2>2. /\ k \in Mem /\ k.Next = [m.Next EXCEPT ![g] = x]
        /\ k.VP = m.VP /\ k.Prev = m.Prev /\ k.bucket = m.bucket /\ k.has = m.has /\ k.table = m.table
    BY <2>1, <1>1, <1>6, StoreInHandle
  <2>3. /\ n \in Mem /\ n.VP = m.VP /\ n.Next = [m.Next EXCEPT ![g] = x]
        /\ n.bucket = m.bucket /\ n.has = m.has /\ n.table = m.table
        /\ \A y \in Handles : n.Prev[y] = IF y = x THEN p ELSE m.Prev[y]
    <3>0. k \in Mem /\ p \in Place /\ x \in Handles \cup {Null} /\ n = SetPrevPtr(k, x, p)
      BY <2>2, <1>1, <1>6
    <3>1. /\ n \in Mem /\ n.VP = k.VP /\ n.Next = k.Next
          /\ n.bucket = k.bucket /\ n.has = k.has /\ n.table = k.table
          /\ \A y \in Handles : n.Prev[y] = IF y = x THEN p ELSE k.Prev[y]
      <4>1. CASE x \in Handles
        BY <3>0, <4>1, SetPrev
      <4>2. CASE x = Null
        BY <3>0, <4>2, ValueHandlesAssumption DEF SetPrevPtr
      <4>. QED BY <3>0, <4>1, <4>2
    <3>. QED BY <3>1, <2>2
  <2>4. r = n
    BY <1>2, <2>1, Places
  <2>5. /\ u \in Mem /\ u.VP = m.VP /\ u.bucket = m.bucket /\ u.has = m.has /\ u.table = m.table
        /\ u.Next = [n.Next EXCEPT ![h] = Null]
        /\ u.Prev = [n.Prev EXCEPT ![h] = InHandle(Null)]
    BY <2>3, <2>4, <1>2, Places DEF Mem
  <2>6. \A y \in Handles : u.Next[y] = IF y = h THEN Null ELSE IF m.Next[y] = h THEN x ELSE m.Next[y]
    BY <2>1, <2>3, <2>5, <1>1, <1>3, Places DEF Mem
  <2>7. \A y \in Handles \ {h} : u.Prev[y] = IF y = x THEN p ELSE m.Prev[y]
    BY <2>3, <2>5 DEF Mem
  <2>8. \A w \in Values : m.bucket[w] # h
    BY <2>1, <1>3, Places
  <2>9. \A w \in Values : u.has[w] <=> u.bucket[w] # Null
    BY <2>5, WellFacts
  <2>10. CutOut(m, u, h)
    BY <2>5, <2>6, <2>7, <2>8, <2>9, <1>0 DEF CutOut
  <2>. QED BY <2>10, <1>0
<1>5. CASE p = InBucket(m.table, v) /\ m.bucket[v] = h
  <2>1. /\ k \in Mem /\ k.bucket = [m.bucket EXCEPT ![v] = x]
        /\ k.VP = m.VP /\ k.Prev = m.Prev /\ k.Next = m.Next /\ k.has = m.has /\ k.table = m.table
    BY <1>5, <1>1, <1>6, StoreInBucket
  <2>2. /\ n \in Mem /\ n.VP = m.VP /\ n.Next = m.Next
        /\ n.bucket = [m.bucket EXCEPT ![v] = x] /\ n.has = m.has /\ n.table = m.table
        /\ \A y \in Handles : n.Prev[y] = IF y = x THEN p ELSE m.Prev[y]
    BY <2>1, <1>1, <1>6, SetPrev, SMTT(30)
  <2>3. r = IF x = Null THEN [n EXCEPT !.has[v] = FALSE] ELSE n
    BY <1>2, <1>5, Places
  <2>4. /\ r \in Mem /\ r.VP = m.VP /\ r.Next = m.Next /\ r.Prev = n.Prev
        /\ r.bucket = [m.bucket EXCEPT ![v] = x] /\ r.table = m.table
        /\ \A w \in Values : r.has[w] <=> IF w = v /\ x = Null THEN FALSE ELSE m.has[w]
    BY <2>2, <2>3, <1>1 DEF Mem
  <2>5. /\ u \in Mem /\ u.VP = m.VP /\ u.bucket = r.bucket /\ u.has = r.has /\ u.table = m.table
        /\ u.Next = [m.Next EXCEPT ![h] = Null]
        /\ u.Prev = [n.Prev EXCEPT ![h] = InHandle(Null)]
    BY <2>4, <1>2, Places DEF Mem
  <2>6. \A y \in Handles : u.Next[y] = IF y = h THEN Null ELSE IF m.Next[y] = h THEN x ELSE m.Next[y]
    BY <2>5, <1>1, <1>3, <1>5, Places DEF Mem
  <2>7. \A y \in Handles \ {h} : u.Prev[y] = IF y = x THEN p ELSE m.Prev[y]
    BY <2>2, <2>5 DEF Mem
  <2>8. \A w \in Values : u.bucket[w] = IF m.bucket[w] = h THEN x ELSE m.bucket[w]
    BY <2>4, <2>5, <1>1, <1>3, <1>5 DEF Mem
  <2>9. \A w \in Values : u.has[w] <=> u.bucket[w] # Null
    <3>1. \A w \in Values : m.has[w] <=> m.bucket[w] # Null
      BY WellFacts
    <3>2. h # Null
      BY ValueHandlesAssumption
    <3>. QED BY <3>1, <3>2, <2>4, <2>5, <2>8, <1>5, <1>3
  <2>10. CutOut(m, u, h)
    BY <2>5, <2>6, <2>7, <2>8, <2>9, <1>0 DEF CutOut
  <2>. QED BY <2>10, <1>0
<1>. QED BY <1>0, <1>4, <1>5, WellFacts

\* What is cut out is on no list, the others stay on theirs, in their order.
LEMMA CutOutWell ==
  ASSUME NEW m, Well(m), NEW h \in Handles, m.VP[h] # Null, NEW n, CutOut(m, n, h)
  PROVE  WellBut(n, {h}) /\ KeepsOrder(m, n, h) /\ PassesOver(m, n, h)
<1>. DEFINE x == m.Next[h]
            v == m.VP[h]
<1>1. /\ n \in Mem /\ n.VP = m.VP /\ n.table = m.table /\ x \in Handles \cup {Null} /\ x # h
      /\ v \in Values /\ Null \notin Handles
      /\ \A y \in Handles : n.Next[y] = IF y = h THEN Null ELSE IF m.Next[y] = h THEN x ELSE m.Next[y]
  <2>1. x # h
    BY NextOther
  <2>. QED BY <2>1, WellFacts DEF CutOut
<1>2. ASSUME NEW S \in SUBSET Handles, \A y \in S : n.Next[y] \in S \cup {Null}, x \in S \cup {Null}
      PROVE  \A y \in S \cup {h} : m.Next[y] \in S \cup {h} \cup {Null}
  BY <1>1, <1>2, WellFacts
<1>3. KeepsOrder(m, n, h)
  <2>. SUFFICES ASSUME NEW e \in Handles \ {h}, NEW y \in Handles \ {h}, Follows(m, e, y),
                       NEW S \in SUBSET Handles, e \in S, \A z \in S : n.Next[z] \in S \cup {Null}
                PROVE  y \in S
    BY DEF KeepsOrder, Follows
  <2>1. CASE x \in S \cup {Null}
    <3>1. \A z \in S \cup {h} : m.Next[z] \in S \cup {h} \cup {Null}
      BY <1>2, <2>1
    <3>. QED BY <3>1 DEF Follows
  <2>2. CASE x \notin S \cup {Null}
    <3>1. \A z \in S \ {h} : m.Next[z] \in (S \ {h}) \cup {Null}
      BY <2>2, <1>1, WellFacts
    <3>. QED BY <3>1 DEF Follows
  <2>. QED BY <2>1, <2>2
<1>4. PassesOver(m, n, h)
  <2>. SUFFICES ASSUME NEW y \in Handles \ {h}, Follows(m, h, y)
                PROVE  Follows(n, x, y)
    BY DEF PassesOver
  <2>1. x \in Handles
    <3>1. ASSUME x = Null PROVE FALSE
      <4>1. \A z \in {h} : m.Next[z] \in {h} \cup {Null}
        BY <3>1
      <4>. QED BY <4>1 DEF Follows
    <3>. QED BY <3>1, <1>1
  <2>. SUFFICES ASSUME NEW S \in SUBSET Handles, x \in S, \A z \in S : n.Next[z] \in S \cup {Null}
                PROVE  y \in S
    BY <2>1 DEF Follows
  <2>. DEFINE T == S \cup {h}
  <2>2. T \in SUBSET Handles /\ h \in T /\ \A z \in T : m.Next[z] \in T \cup {Null}
    BY <1>2
  <2>3. y \in T
    BY <2>2 DEF Follows
  <2>. QED BY <2>3
<1>5. \A y \in Handles \ {h} : m.VP[y] # Null =>
        \/ \E g \in Handles : n.Prev[y] = InHandle(g) /\ n.Next[g] = y
        \/ n.Prev[y] = InBucket(n.table, n.VP[y]) /\ n.bucket[n.VP[y]] = y
  <2>. SUFFICES ASSUME NEW y \in Handles \ {h}, m.VP[y] # Null
                PROVE  \/ \E g \in Handles : n.Prev[y] = InHandle(g) /\ n.Next[g] = y
                       \/ n.Prev[y] = InBucket(n.table, n.VP[y]) /\ n.bucket[n.VP[y]] = y
    OBVIOUS
  <2>1. CASE y = x
    BY <2>1, <1>1, WellFacts DEF CutOut
  <2>2. CASE y # x
    BY <2>2, <1>1, WellFacts, Places DEF CutOut
  <2>. QED BY <2>1, <2>2
<1>6. \A y \in Handles : n.Next[y] # Null =>
        /\ y # h /\ m.VP[y] # Null /\ n.Next[y] \in Handles \ {h}
        /\ m.VP[n.Next[y]] = m.VP[y] /\ n.Prev[n.Next[y]] = InHandle(y)
  BY <1>1, WellFacts, Places DEF CutOut
<1>7. \A w \in Values : n.bucket[w] # Null =>
        /\ n.bucket[w] \in Handles \ {h} /\ m.VP[n.bucket[w]] = w
        /\ n.Prev[n.bucket[w]] = InBucket(m.table, w)
  BY <1>1, WellFacts, Places DEF CutOut
<1>8. \A y \in Handles \ {h} : m.VP[y] # Null => Follows(n, n.bucket[m.VP[y]], y)
  <2>. SUFFICES ASSUME NEW y \in Handles \ {h}, m.VP[y] # Null
                PROVE  Follows(n, n.bucket[m.VP[y]], y)
    OBVIOUS
  <2>1. Follows(m, m.bucket[m.VP[y]], y) /\ m.bucket[m.VP[y]] \in Handles /\ m.VP[y] \in Values
    BY WellFacts DEF Follows
  <2>2. CASE m.bucket[m.VP[y]] = h
    BY <2>1, <2>2, <1>4 DEF PassesOver, CutOut
  <2>3. CASE m.bucket[m.VP[y]] # h
    BY <2>1, <2>3, <1>3 DEF KeepsOrder, CutOut
  <2>. QED BY <2>2, <2>3
<1>9. \A w \in Values : n.has[w] <=> n.bucket[w] # Null
  BY DEF CutOut
<1>10. WellBut(n, {h})
  <2>1. PrevRight(n, {h})
    BY <1>1, <1>5 DEF PrevRight, Listed
  <2>2. NextRight(n, {h})
    BY <1>1, <1>6 DEF NextRight, Listed
  <2>3. BucketRight(n, {h})
    BY <1>1, <1>7, <1>9, WellFacts DEF BucketRight, Listed
  <2>4. AllReached(n, {h})
    BY <1>1, <1>8 DEF AllReached, Listed
  <2>. QED BY <1>1, <2>1, <2>2, <2>3, <2>4 DEF WellBut
<1>. QED BY <1>3, <1>4, <1>10

\* A handle without a value is on no list.
LEMMA LooseWell ==
  ASSUME NEW m, Well(m), NEW h \in Handles, m.VP[h] = Null
  PROVE  WellBut(m, {h}) /\ KeepsOrder(m, m, h) /\ PassesOver(m, m, h)
<1>1. WellBut(m, {h})
  BY DEF Well, WellBut, Listed, PrevRight, NextRight, BucketRight, AllReached
<1>2. \A x \in Handles \ {h} : ~ Follows(m, h, x)
  <2>1. \A z \in {h} : m.Next[z] \in {h} \cup {Null}
    BY WellFacts
  <2>. QED BY <2>1 DEF Follows
<1>. QED BY <1>1, <1>2 DEF KeepsOrder, PassesOver

\* Unlinked takes a handle off its list.
LEMMA UnlinkedWell ==
  ASSUME NEW m, Well(m), NEW h \in Handles, NEW n, n = Unlinked(m, h)
  PROVE  /\ WellBut(n, {h}) /\ KeepsOrder(m, n, h) /\ PassesOver(m, n, h)
         /\ n.VP = m.VP
<1>1. CASE m.VP[h] = Null
  BY <1>1, LooseWell DEF Unlinked
<1>2. CASE m.VP[h] # Null
  BY <1>2, UnlinkCuts, CutOutWell DEF CutOut
<1>. QED BY <1>1, <1>2

\* What is known of a handle that is on no list.
LEMMA ButFacts ==
  ASSUME NEW m, NEW h \in Handles, WellBut(m, {h})
  PROVE  /\ m \in Mem /\ Null \notin Handles /\ Null \notin Values
         /\ \A y \in Handles : m.VP[y] \in Values \cup {Null} /\ m.Next[y] \in Handles \cup {Null}
                               /\ m.Prev[y] \in Place
         /\ \A v \in Values : m.bucket[v] \in Handles \cup {Null}
         /\ \A y \in Handles \ {h} : m.VP[y] # Null =>
              \/ \E g \in Handles : m.Prev[y] = InHandle(g) /\ m.Next[g] = y
              \/ m.Prev[y] = InBucket(m.table, m.VP[y]) /\ m.bucket[m.VP[y]] = y
         /\ \A y \in Handles : m.Next[y] # Null =>
              /\ y # h /\ m.Next[y] # h
              /\ m.VP[y] # Null /\ m.VP[m.Next[y]] = m.VP[y] /\ m.Prev[m.Next[y]] = InHandle(y)
         /\ \A v \in Values : m.bucket[v] # Null =>
              /\ m.bucket[v] # h
              /\ m.VP[m.bucket[v]] = v /\ m.Prev[m.bucket[v]] = InBucket(m.table, v)
         /\ \A v \in Values : m.has[v] <=> m.bucket[v] # Null
         /\ \A y \in Handles \ {h} : m.VP[y] # Null => Follows(m, m.bucket[m.VP[y]], y)
BY ValueHandlesAssumption DEF WellBut, Listed, PrevRight, NextRight, BucketRight, AllReached, Mem

\* Its value can be changed.
Loose(m, h, v) == [m EXCEPT !.VP[h] = v]

LEMMA LooseValue ==
  ASSUME NEW m, NEW h \in Handles, WellBut(m, {h}), NEW v \in Values \cup {Null},
         NEW n, n = Loose(m, h, v)
  PROVE  /\ WellBut(n, {h}) /\ n.VP = [m.VP EXCEPT ![h] = v] /\ n.Next = m.Next
         /\ n.Prev = m.Prev /\ n.bucket = m.bucket /\ n.has = m.has /\ n.table = m.table
<1>1. /\ n \in Mem /\ n.VP = [m.VP EXCEPT ![h] = v] /\ n.Next = m.Next
      /\ n.Prev = m.Prev /\ n.bucket = m.bucket /\ n.has = m.has /\ n.table = m.table
  BY DEF WellBut, Mem, Loose
<1>2. \A y \in Handles \ {h} : n.VP[y] = m.VP[y]
  BY <1>1, ButFacts DEF Mem
<1>3. \A e, y : Follows(m, e, y) => Follows(n, e, y)
  BY <1>1 DEF Follows
<1>4. PrevRight(n, {h})
  BY <1>1, <1>2, ButFacts DEF PrevRight, Listed
<1>5. NextRight(n, {h})
  BY <1>1, <1>2, ButFacts DEF NextRight, Listed
<1>6. BucketRight(n, {h})
  BY <1>1, <1>2, ButFacts DEF BucketRight, Listed
<1>7. AllReached(n, {h})
  BY <1>1, <1>2, <1>3, ButFacts DEF AllReached, Listed
<1>. QED BY <1>1, <1>4, <1>5, <1>6, <1>7 DEF WellBut

\* AddToExistingUseList puts a handle before another.
LEMMA AddPutsBefore ==
  ASSUME NEW m, NEW h \in Handles, WellBut(m, {h}), NEW x \in Handles, Listed(m, {h}, x),
         NEW p, p = m.Prev[x], NEW n, n = AddToExistingUseList(m, h, p)
  PROVE  PutBefore(m, n, h, x)
<1>. DEFINE a == [m EXCEPT !.Next[h] = x]
            k == Store(a, p, h)
            b == SetPrevPtr(k, h, p)
<1>1. /\ x # h /\ m \in Mem /\ Null \notin Handles /\ p \in Place
      /\ \/ \E g \in Handles : p = InHandle(g) /\ m.Next[g] = x
         \/ p = InBucket(m.table, m.VP[x]) /\ m.bucket[m.VP[x]] = x
      /\ m.VP[x] \in Values
  BY ButFacts DEF Listed
<1>2. At(m, p) = x
  BY <1>1, Places DEF At
<1>3. n = SetPrevPtr(b, x, InHandle(h))
  BY <1>2 DEF AddToExistingUseList
<1>4. /\ a \in Mem /\ a.VP = m.VP /\ a.Next = [m.Next EXCEPT ![h] = x]
      /\ a.Prev = m.Prev /\ a.bucket = m.bucket /\ a.has = m.has /\ a.table = m.table
  BY <1>1 DEF Mem
<1>5. k = Store(a, p, h) /\ b = SetPrevPtr(k, h, p)
  OBVIOUS
<1>. HIDE DEF a, k, b
<1>6. k \in Mem => /\ n \in Mem /\ n.VP = k.VP /\ n.Next = k.Next
                   /\ n.bucket = k.bucket /\ n.has = k.has /\ n.table = k.table
                   /\ \A y \in Handles : n.Prev[y] = IF y = x THEN InHandle(h)
                                                    ELSE IF y = h THEN p ELSE k.Prev[y]
  <2>. SUFFICES ASSUME k \in Mem
                PROVE  /\ n \in Mem /\ n.VP = k.VP /\ n.Next = k.Next
                       /\ n.bucket = k.bucket /\ n.has = k.has /\ n.table = k.table
                       /\ \A y \in Handles : n.Prev[y] = IF y = x THEN InHandle(h)
                                                        ELSE IF y = h THEN p ELSE k.Prev[y]
    OBVIOUS
  <2>1. /\ b \in Mem /\ b.VP = k.VP /\ b.Next = k.Next
        /\ b.bucket = k.bucket /\ b.has = k.has /\ b.table = k.table
        /\ \A y \in Handles : b.Prev[y] = IF y = h THEN p ELSE k.Prev[y]
    <3>1. p \in Place /\ b = SetPrevPtr(k, h, p)
      BY <1>1, <1>5
    <3>. QED BY <3>1, SetPrev
  <2>2. InHandle(h) \in Place
    BY Places
  <2>3. /\ n \in Mem /\ n.VP = b.VP /\ n.Next = b.Next
        /\ n.bucket = b.bucket /\ n.has = b.has /\ n.table = b.table
        /\ \A y \in Handles : n.Prev[y] = IF y = x THEN InHandle(h) ELSE b.Prev[y]
    BY <2>1, <2>2, <1>3, SetPrev
  <2>. QED BY <2>1, <2>3
<1>7. ASSUME NEW g \in Handles, p = InHandle(g), m.Next[g] = x
      PROVE  PutBefore(m, n, h, x)
  <2>1. /\ k \in Mem /\ k.Next = [a.Next EXCEPT ![g] = h]
        /\ k.VP = a.VP /\ k.Prev = a.Prev /\ k.bucket = a.bucket /\ k.has = a.has /\ k.table = a.table
    BY <1>4, <1>5, <1>7, StoreInHandle
  <2>2. g # h /\ \A y \in Handles : m.Next[y] = x => y = g
    BY <1>1, <1>7, ButFacts, Places
  <2>3. \A y \in Handles : n.Next[y] = IF y = h THEN x ELSE IF m.Next[y] = x THEN h ELSE m.Next[y]
    BY <2>1, <2>2, <1>1, <1>4, <1>6, <1>7 DEF Mem
  <2>4. \A v \in Values : m.bucket[v] # x
    BY <1>1, <1>7, ButFacts, Places
  <2>5. \A y \in Handles : n.Prev[y] = IF y = h THEN p ELSE IF y = x THEN InHandle(h) ELSE m.Prev[y]
    BY <2>1, <1>1, <1>4, <1>6
  <2>6. n \in Mem /\ n.VP = m.VP /\ n.table = m.table /\ n.has = m.has /\ n.bucket = m.bucket
    BY <2>1, <1>4, <1>6
  <2>. QED BY <2>3, <2>4, <2>5, <2>6 DEF PutBefore
<1>8. ASSUME p = InBucket(m.table, m.VP[x]), m.bucket[m.VP[x]] = x
      PROVE  PutBefore(m, n, h, x)
  <2>1. /\ k \in Mem /\ k.bucket = [a.bucket EXCEPT ![m.VP[x]] = h]
        /\ k.VP = a.VP /\ k.Prev = a.Prev /\ k.Next = a.Next /\ k.has = a.has /\ k.table = a.table
    BY <1>1, <1>4, <1>5, <1>8, StoreInBucket
  <2>2. \A y \in Handles : m.Next[y] # x
    BY <1>1, <1>8, ButFacts, Places
  <2>3. \A y \in Handles : n.Next[y] = IF y = h THEN x ELSE IF m.Next[y] = x THEN h ELSE m.Next[y]
    BY <2>1, <2>2, <1>1, <1>4, <1>6 DEF Mem
  <2>4. \A v \in Values : n.bucket[v] = IF m.bucket[v] = x THEN h ELSE m.bucket[v]
    BY <2>1, <1>1, <1>4, <1>6, <1>8, ButFacts DEF Mem
  <2>5. \A y \in Handles : n.Prev[y] = IF y = h THEN p ELSE IF y = x THEN InHandle(h) ELSE m.Prev[y]
    BY <2>1, <1>1, <1>4, <1>6
  <2>6. n \in Mem /\ n.VP = m.VP /\ n.table = m.table /\ n.has = m.has
    BY <2>1, <1>4, <1>6
  <2>. QED BY <2>3, <2>4, <2>5, <2>6 DEF PutBefore
<1>. QED BY <1>1, <1>7, <1>8

\* Then all lists are right again.
LEMMA PutBeforeWell ==
  ASSUME NEW m, NEW h \in Handles, WellBut(m, {h}), NEW x \in Handles, Listed(m, {h}, x),
         m.VP[h] = m.VP[x], NEW n, PutBefore(m, n, h, x)
  PROVE  Well(n) /\ KeepsOrder(m, n, h)
<1>. DEFINE v == m.VP[x]
<1>1. /\ x # h /\ n \in Mem /\ n.VP = m.VP /\ n.table = m.table /\ n.has = m.has
      /\ Null \notin Handles /\ v \in Values
      /\ \A y \in Handles : n.Next[y] = IF y = h THEN x ELSE IF m.Next[y] = x THEN h ELSE m.Next[y]
  BY ButFacts DEF PutBefore, Listed
<1>2. ASSUME NEW S \in SUBSET Handles, \A y \in S : n.Next[y] \in S \cup {Null}
      PROVE  \A y \in S \ {h} : m.Next[y] \in (S \ {h}) \cup {Null}
  <2>. SUFFICES ASSUME NEW y \in S \ {h} PROVE m.Next[y] \in (S \ {h}) \cup {Null}
    OBVIOUS
  <2>1. CASE m.Next[y] = x
    <3>1. n.Next[y] = h /\ n.Next[h] = x
      BY <2>1, <1>1
    <3>2. h \in S
      BY <3>1, <1>2, <1>1
    <3>. QED BY <3>1, <3>2, <2>1, <1>2, <1>1
  <2>2. CASE m.Next[y] # x
    BY <2>2, <1>2, <1>1, ButFacts
  <2>. QED BY <2>1, <2>2
<1>3. KeepsOrder(m, n, h)
  <2>. SUFFICES ASSUME NEW e \in Handles \ {h}, NEW y \in Handles \ {h}, Follows(m, e, y),
                       NEW S \in SUBSET Handles, e \in S, \A z \in S : n.Next[z] \in S \cup {Null}
                PROVE  y \in S
    BY DEF KeepsOrder, Follows
  <2>. DEFINE T == S \ {h}
  <2>1. T \in SUBSET Handles /\ e \in T /\ \A z \in T : m.Next[z] \in T \cup {Null}
    BY <1>2
  <2>2. y \in T
    BY <2>1 DEF Follows
  <2>. QED BY <2>2
<1>4. PrevRight(n, {})
  <2>. SUFFICES ASSUME NEW y \in Handles, m.VP[y] # Null
                PROVE  \/ \E g \in Handles : n.Prev[y] = InHandle(g) /\ n.Next[g] = y
                       \/ n.Prev[y] = InBucket(n.table, n.VP[y]) /\ n.bucket[n.VP[y]] = y
    BY <1>1 DEF PrevRight, Listed
  <2>1. CASE y = h
    <3>1. /\ n.Prev[h] = m.Prev[x]
          /\ \/ \E g \in Handles \ {h} : m.Prev[x] = InHandle(g) /\ m.Next[g] = x
             \/ m.Prev[x] = InBucket(m.table, v) /\ m.bucket[v] = x
      BY <1>1, ButFacts DEF PutBefore, Listed
    <3>2. CASE \E g \in Handles \ {h} : m.Prev[x] = InHandle(g) /\ m.Next[g] = x
      BY <3>1, <3>2, <2>1, <1>1
    <3>3. CASE m.Prev[x] = InBucket(m.table, v) /\ m.bucket[v] = x
      BY <3>1, <3>3, <2>1, <1>1 DEF PutBefore
    <3>. QED BY <3>1, <3>2, <3>3
  <2>2. CASE y = x
    BY <2>2, <1>1 DEF PutBefore
  <2>3. CASE y # h /\ y # x
    <3>1. n.Prev[y] = m.Prev[y]
      BY <2>3 DEF PutBefore
    <3>2. CASE \E g \in Handles : m.Prev[y] = InHandle(g) /\ m.Next[g] = y
      <4>1. PICK g \in Handles : m.Prev[y] = InHandle(g) /\ m.Next[g] = y
        BY <3>2
      <4>2. g # h /\ n.Next[g] = y
        BY <4>1, <2>3, <1>1, ButFacts
      <4>. QED BY <3>1, <4>1, <4>2
    <3>3. CASE m.Prev[y] = InBucket(m.table, m.VP[y]) /\ m.bucket[m.VP[y]] = y
      BY <3>1, <3>3, <2>3, <1>1, ButFacts DEF PutBefore
    <3>. QED BY <2>3, <3>2, <3>3, ButFacts
  <2>. QED BY <2>1, <2>2, <2>3
<1>5. NextRight(n, {})
  <2>. SUFFICES ASSUME NEW y \in Handles, n.Next[y] # Null
                PROVE  /\ m.VP[y] # Null /\ n.Next[y] \in Handles
                       /\ m.VP[n.Next[y]] = m.VP[y] /\ n.Prev[n.Next[y]] = InHandle(y)
    BY <1>1 DEF NextRight, Listed
  <2>1. CASE y = h
    BY <2>1, <1>1 DEF PutBefore, Listed
  <2>2. CASE y # h /\ m.Next[y] = x
    BY <2>2, <1>1, ButFacts DEF PutBefore, Listed
  <2>3. CASE y # h /\ m.Next[y] # x
    BY <2>3, <1>1, ButFacts DEF PutBefore, Listed
  <2>. QED BY <2>1, <2>2, <2>3
<1>6. BucketRight(n, {})
  <2>. SUFFICES ASSUME NEW w \in Values
                PROVE  /\ m.has[w] <=> n.bucket[w] # Null
                       /\ n.bucket[w] # Null =>
                            /\ n.bucket[w] \in Handles /\ m.VP[n.bucket[w]] = w
                            /\ n.Prev[n.bucket[w]] = InBucket(m.table, w)
    BY <1>1, ButFacts DEF BucketRight, Listed
  <2>1. CASE m.bucket[w] = x
    BY <2>1, <1>1, ButFacts DEF PutBefore
  <2>2. CASE m.bucket[w] # x
    BY <2>2, <1>1, ButFacts DEF PutBefore
  <2>. QED BY <2>1, <2>2
<1>7. AllReached(n, {})
  <2>. SUFFICES ASSUME NEW y \in Handles, m.VP[y] # Null
                PROVE  Follows(n, n.bucket[m.VP[y]], y)
    BY <1>1 DEF AllReached, Listed
  <2>1. ASSUME NEW z \in Handles \ {h}, m.VP[z] # Null
        PROVE  Follows(n, n.bucket[m.VP[z]], z)
    <3>. DEFINE b == m.bucket[m.VP[z]]
    <3>1. Follows(m, b, z) /\ b \in Handles \ {h} /\ m.VP[z] \in Values
      BY <2>1, ButFacts DEF Follows
    <3>2. Follows(n, b, z)
      BY <3>1, <1>3, <2>1 DEF KeepsOrder
    <3>3. CASE b = x
      <4>1. n.bucket[m.VP[z]] = h
        BY <3>1, <3>3 DEF PutBefore
      <4>2. ASSUME NEW S \in SUBSET Handles, h \in S, \A u \in S : n.Next[u] \in S \cup {Null}
            PROVE  z \in S
        <5>1. x \in S
          BY <4>2, <1>1
        <5>. QED BY <5>1, <3>2, <3>3, <4>2 DEF Follows
      <4>. QED BY <4>1, <4>2 DEF Follows
    <3>4. CASE b # x
      BY <3>1, <3>2, <3>4 DEF PutBefore
    <3>. QED BY <3>3, <3>4
  <2>2. Follows(n, n.bucket[v], h)
    <3>1. Follows(m, m.bucket[v], x) /\ m.bucket[v] \in Handles \ {h}
      BY <1>1, ButFacts DEF Listed, Follows
    <3>2. CASE m.bucket[v] = x
      BY <3>2, <1>1 DEF PutBefore, Follows
    <3>3. CASE m.bucket[v] # x
      <4>. DEFINE b == m.bucket[v]
      <4>1. n.bucket[v] = b
        BY <3>3, <1>1 DEF PutBefore
      <4>. SUFFICES ASSUME NEW S \in SUBSET Handles, b \in S, \A u \in S : n.Next[u] \in S \cup {Null}
                    PROVE  h \in S
        BY <4>1, <3>1 DEF Follows
      <4>. SUFFICES ASSUME h \notin S PROVE FALSE
        OBVIOUS
      <4>2. \A u \in S \ {x} : m.Next[u] \in (S \ {x}) \cup {Null}
        BY <1>1, <1>2
      <4>3. b \in S \ {x}
        BY <3>3
      <4>. QED BY <4>2, <4>3, <3>1 DEF Follows
    <3>. QED BY <3>2, <3>3
  <2>3. m.VP[h] = v
    OBVIOUS
  <2>. QED BY <2>1, <2>2, <2>3
<1>8. Well(n)
  BY <1>1, <1>4, <1>5, <1>6, <1>7 DEF Well, WellBut
<1>. QED BY <1>3, <1>8

\* AddToUseList makes a handle the first of its value, and may move the table.
LEMMA AddPutsFirst ==
  ASSUME NEW m, NEW h \in Handles, WellBut(m, {h}), m.VP[h] # Null, ~ m.has[m.VP[h]],
         NEW n \in AddToUseList(m, h)
  PROVE  PutFirst(m, n, h)
<1>. DEFINE v == m.VP[h]
            Moved(t) == [m EXCEPT !.has[v] = TRUE, !.table = t]
            First(t) == AddToExistingUseList(Moved(t), h, InBucket(t, v))
<1>1. /\ m \in Mem /\ v \in Values /\ Null \notin Handles /\ m.bucket[v] = Null /\ m.Next[h] = Null
      /\ m.table \in Nat /\ h # Null
  BY ButFacts, ValueHandlesAssumption DEF Mem
<1>2. \/ n = First(m.table)
      \/ n = FixPrevPointers(First(m.table + 1))
  BY DEF AddToUseList
<1>3. ASSUME NEW t \in Nat
      PROVE  /\ First(t) \in Mem /\ First(t).VP = m.VP /\ First(t).Next = m.Next
             /\ First(t).Prev = [m.Prev EXCEPT ![h] = InBucket(t, v)]
             /\ First(t).bucket = [m.bucket EXCEPT ![v] = h]
             /\ First(t).has = [m.has EXCEPT ![v] = TRUE] /\ First(t).table = t
  <2>. DEFINE p == InBucket(t, v)
              a == Moved(t)
              c == [a EXCEPT !.Next[h] = Null]
              k == Store(c, p, h)
              b == SetPrevPtr(k, h, p)
  <2>1. /\ a \in Mem /\ a.VP = m.VP /\ a.Next = m.Next /\ a.Prev = m.Prev /\ a.bucket = m.bucket
        /\ a.has = [m.has EXCEPT ![v] = TRUE] /\ a.table = t
    BY <1>1 DEF Mem
  <2>2. p \in Place /\ p.in = "bucket" /\ p.table = t /\ p.value = v
    BY <1>1, Places
  <2>3. At(a, p) = Null
    BY <1>1, <2>1, <2>2 DEF At
  <2>4. First(t) = SetPrevPtr(b, Null, InHandle(h))
    BY <2>3 DEF AddToExistingUseList
  <2>5. First(t) = b
    BY <2>4 DEF SetPrevPtr
  <2>6. /\ c \in Mem /\ c.VP = m.VP /\ c.Next = m.Next /\ c.Prev = m.Prev /\ c.bucket = m.bucket
        /\ c.has = a.has /\ c.table = t
    <3>1. [m.Next EXCEPT ![h] = Null] = m.Next
      BY <1>1 DEF Mem
    <3>2. a.Next = m.Next
      BY <2>1
    <3>. HIDE DEF a
    <3>. QED BY <2>1, <3>1, <1>1 DEF Mem
  <2>7. k = Store(c, p, h) /\ b = SetPrevPtr(k, h, p) /\ p = InBucket(c.table, v)
    BY <2>6
  <2>. HIDE DEF a, c, k, b
  <2>8. /\ k \in Mem /\ k.bucket = [c.bucket EXCEPT ![v] = h]
        /\ k.VP = c.VP /\ k.Prev = c.Prev /\ k.Next = c.Next /\ k.has = c.has /\ k.table = c.table
    BY <1>1, <2>6, <2>7, StoreInBucket
  <2>9. /\ b \in Mem /\ b.VP = k.VP /\ b.Next = k.Next /\ b.bucket = k.bucket
        /\ b.has = k.has /\ b.table = k.table
        /\ \A y \in Handles : b.Prev[y] = IF y = h THEN p ELSE k.Prev[y]
    BY <2>2, <2>7, <2>8, SetPrev
  <2>10. b.Prev = [k.Prev EXCEPT ![h] = p]
    BY <2>8, <2>9, <2>2 DEF Mem
  <2>. QED BY <2>1, <2>5, <2>6, <2>8, <2>9, <2>10
<1>. HIDE DEF First
<1>4. CASE n = First(m.table)
  <2>1. /\ n \in Mem /\ n.VP = m.VP /\ n.Next = m.Next
        /\ n.Prev = [m.Prev EXCEPT ![h] = InBucket(m.table, v)]
        /\ n.bucket = [m.bucket EXCEPT ![v] = h]
        /\ n.has = [m.has EXCEPT ![v] = TRUE] /\ n.table = m.table
    BY <1>1, <1>3, <1>4
  <2>2. \A y \in Handles : n.Prev[y] = IF y = h THEN InBucket(m.table, v) ELSE m.Prev[y]
    BY <2>1, <1>1 DEF Mem
  <2>. QED BY <2>1, <2>2 DEF PutFirst
<1>5. CASE n = FixPrevPointers(First(m.table + 1))
  <2>. DEFINE t == m.table + 1
              k == First(t)
              q == [y \in Handles |->
                      IF k.VP[y] # Null /\ k.bucket[k.VP[y]] = y THEN InBucket(k.table, k.VP[y]) ELSE k.Prev[y]]
  <2>1. t \in Nat /\ t # m.table
    BY <1>1
  <2>2. /\ k \in Mem /\ k.VP = m.VP /\ k.Next = m.Next
        /\ k.Prev = [m.Prev EXCEPT ![h] = InBucket(t, v)]
        /\ k.bucket = [m.bucket EXCEPT ![v] = h]
        /\ k.has = [m.has EXCEPT ![v] = TRUE] /\ k.table = t
    BY <1>3, <2>1
  <2>3. n = [k EXCEPT !.Prev = q]
    BY <1>5 DEF FixPrevPointers
  <2>. HIDE DEF k, t
  <2>4. q \in [Handles -> Place]
    BY <2>1, <2>2, Places DEF Mem
  <2>5. /\ n \in Mem /\ n.VP = m.VP /\ n.Next = m.Next /\ n.Prev = q
        /\ n.bucket = k.bucket /\ n.has = k.has /\ n.table = t
    <3>. HIDE DEF q
    <3>. QED BY <2>2, <2>3, <2>4 DEF Mem
  <2>6. n.Prev[h] = InBucket(t, v)
    BY <1>1, <2>2, <2>5 DEF Mem
  <2>7. ASSUME NEW y \in Handles \ {h}
        PROVE  n.Prev[y] = IF m.VP[y] # Null /\ m.bucket[m.VP[y]] = y THEN InBucket(t, m.VP[y]) ELSE m.Prev[y]
    <3>1. m.VP[y] # Null => (k.bucket[m.VP[y]] = y <=> m.bucket[m.VP[y]] = y)
      BY <1>1, <2>2 DEF Mem
    <3>2. k.Prev[y] = m.Prev[y]
      BY <1>1, <2>2 DEF Mem
    <3>3. n.Prev[y] = IF m.VP[y] # Null /\ k.bucket[m.VP[y]] = y THEN InBucket(t, m.VP[y]) ELSE k.Prev[y]
      BY <2>2, <2>5
    <3>. QED BY <3>1, <3>2, <3>3
  <2>. QED BY <2>1, <2>2, <2>5, <2>6, <2>7 DEF PutFirst
<1>. QED BY <1>2, <1>4, <1>5

\* Then all lists are right again, wherever the table is.
LEMMA PutFirstWell ==
  ASSUME NEW m, NEW h \in Handles, WellBut(m, {h}), m.VP[h] # Null, ~ m.has[m.VP[h]],
         NEW n, PutFirst(m, n, h)
  PROVE  Well(n) /\ KeepsOrder(m, n, h)
<1>. DEFINE v == m.VP[h]
<1>1. /\ m \in Mem /\ n \in Mem /\ n.VP = m.VP /\ n.Next = m.Next /\ v \in Values
      /\ m.bucket[v] = Null /\ m.Next[h] = Null /\ Null \notin Handles
  BY ButFacts DEF PutFirst
<1>2. \A y \in Handles \ {h} : m.VP[y] # v
  BY <1>1, ButFacts DEF Follows
<1>3. \A w \in Values : n.bucket[w] = IF w = v THEN h ELSE m.bucket[w]
  BY <1>1 DEF PutFirst, Mem
<1>4. \A e, y : Follows(m, e, y) => Follows(n, e, y)
  BY <1>1 DEF Follows
<1>5. \A y \in Handles \ {h} : m.VP[y] # Null => m.VP[y] \in Values /\ n.bucket[m.VP[y]] = m.bucket[m.VP[y]]
  BY <1>2, <1>3, ButFacts
<1>6. \A y \in Handles \ {h}, z \in Handles : m.Prev[y] = InHandle(z) /\ m.Next[z] = y => n.Prev[y] = InHandle(z)
  BY <1>1, ButFacts, Places DEF PutFirst
<1>7. \A w \in Values : m.bucket[w] # Null /\ w # v => n.Prev[m.bucket[w]] = InBucket(n.table, w)
  BY <1>1, ButFacts DEF PutFirst
<1>8. PrevRight(n, {})
  <2>. SUFFICES ASSUME NEW y \in Handles, m.VP[y] # Null
                PROVE  \/ \E g \in Handles : n.Prev[y] = InHandle(g) /\ n.Next[g] = y
                       \/ n.Prev[y] = InBucket(n.table, n.VP[y]) /\ n.bucket[n.VP[y]] = y
    BY <1>1 DEF PrevRight, Listed
  <2>1. CASE y = h
    BY <2>1, <1>1, <1>3 DEF PutFirst
  <2>2. CASE y # h /\ \E g \in Handles : m.Prev[y] = InHandle(g) /\ m.Next[g] = y
    BY <2>2, <1>1, <1>6
  <2>3. CASE y # h /\ m.Prev[y] = InBucket(m.table, m.VP[y]) /\ m.bucket[m.VP[y]] = y
    BY <2>3, <1>1, <1>2, <1>5, <1>7
  <2>. QED BY <2>1, <2>2, <2>3, ButFacts
<1>9. NextRight(n, {})
  BY <1>1, <1>6, ButFacts DEF NextRight, Listed
<1>10. BucketRight(n, {})
  <2>. SUFFICES ASSUME NEW w \in Values
                PROVE  /\ n.has[w] <=> n.bucket[w] # Null
                       /\ n.bucket[w] # Null =>
                            /\ n.bucket[w] \in Handles /\ m.VP[n.bucket[w]] = w
                            /\ n.Prev[n.bucket[w]] = InBucket(n.table, w)
    BY <1>1, ButFacts DEF BucketRight, Listed
  <2>1. CASE w = v
    BY <2>1, <1>1, <1>3 DEF PutFirst, Mem
  <2>2. CASE w # v
    <3>1. n.has[w] = m.has[w]
      BY <2>2, <1>1 DEF PutFirst, Mem
    <3>. QED BY <2>2, <3>1, <1>3, <1>7, ButFacts
  <2>. QED BY <2>1, <2>2
<1>11. AllReached(n, {})
  <2>. SUFFICES ASSUME NEW y \in Handles, m.VP[y] # Null
                PROVE  Follows(n, n.bucket[m.VP[y]], y)
    BY <1>1 DEF AllReached, Listed
  <2>1. CASE y = h
    BY <2>1, <1>1, <1>3 DEF Follows
  <2>2. CASE y # h
    BY <2>2, <1>4, <1>5, ButFacts
  <2>. QED BY <2>1, <2>2
<1>. QED BY <1>1, <1>4, <1>8, <1>9, <1>10, <1>11 DEF Well, WellBut, KeepsOrder

\* The handle h goes to v, and the lists stay right and in their order.
Moves(m, n, h, v) ==
  Well(n) /\ n.VP = [m.VP EXCEPT ![h] = v] /\ KeepsOrder(m, n, h) /\ PassesOver(m, n, h)

\* Order is kept through a change of the value of the handle that is off.
LEMMA OrderComposes ==
  ASSUME NEW m, Well(m), NEW h \in Handles, NEW u, NEW w, NEW n,
         KeepsOrder(m, u, h), PassesOver(m, u, h), w.Next = u.Next, KeepsOrder(w, n, h)
  PROVE  KeepsOrder(m, n, h) /\ PassesOver(m, n, h)
<1>1. \A e, y : Follows(u, e, y) => Follows(w, e, y)
  BY DEF Follows
<1>2. KeepsOrder(m, n, h)
  BY <1>1 DEF KeepsOrder
<1>3. PassesOver(m, n, h)
  <2>. SUFFICES ASSUME NEW x \in Handles \ {h}, Follows(m, h, x)
                PROVE  Follows(n, m.Next[h], x)
    BY DEF PassesOver
  <2>1. Follows(w, m.Next[h], x)
    BY <1>1 DEF PassesOver
  <2>2. m.Next[h] \in Handles \ {h}
    BY <2>1, NextOther DEF Follows
  <2>. QED BY <2>1, <2>2 DEF KeepsOrder
<1>. QED BY <1>2, <1>3

\* Assignment of a value, also of null.
LEMMA AssignedMoves ==
  ASSUME NEW m, Well(m), NEW h \in Handles, NEW v \in Values \cup {Null}, m.VP[h] # v,
         NEW n \in Assigned(m, h, v)
  PROVE  Moves(m, n, h, v)
<1>. DEFINE u == Unlinked(m, h)
            w == Loose(u, h, v)
<1>1. WellBut(u, {h}) /\ KeepsOrder(m, u, h) /\ PassesOver(m, u, h) /\ u.VP = m.VP
  BY UnlinkedWell
<1>2. n \in (IF v = Null THEN {w} ELSE AddToUseList(w, h))
  BY DEF Assigned, Loose
<1>. HIDE DEF u
<1>3. WellBut(w, {h}) /\ w.VP = [u.VP EXCEPT ![h] = v] /\ w.Next = u.Next
  <2>1. w = Loose(u, h, v)
    OBVIOUS
  <2>. HIDE DEF w
  <2>. QED BY <1>1, <2>1, LooseValue
<1>4. w.VP = [m.VP EXCEPT ![h] = v] /\ w.VP[h] = v
  BY <1>1, <1>3, WellFacts DEF Mem
<1>. HIDE DEF w
<1>9. Well(n) /\ KeepsOrder(w, n, h) /\ n.VP = w.VP => Moves(m, n, h, v)
  <2>1. ASSUME KeepsOrder(w, n, h)
        PROVE  KeepsOrder(m, n, h) /\ PassesOver(m, n, h)
    BY <1>1, <1>3, <2>1, OrderComposes
  <2>. QED BY <1>4, <2>1 DEF Moves
<1>5. CASE v = Null
  <2>1. n = w
    BY <1>2, <1>5
  <2>2. Well(w)
    BY <1>3, <1>4, <1>5, ButFacts
       DEF Well, WellBut, Listed, PrevRight, NextRight, BucketRight, AllReached
  <2>3. KeepsOrder(w, w, h)
    BY DEF KeepsOrder
  <2>. QED BY <1>4, <2>1, <2>2, <2>3, <1>9
<1>6. CASE v # Null /\ ~ w.has[v]
  <2>1. PutFirst(w, n, h)
    BY <1>2, <1>3, <1>4, <1>6, AddPutsFirst
  <2>2. Well(n) /\ KeepsOrder(w, n, h) /\ n.VP = w.VP
    <3>1. n.VP = w.VP
      BY <2>1 DEF PutFirst
    <3>2. w.VP[h] # Null /\ ~ w.has[w.VP[h]]
      BY <1>4, <1>6
    <3>. QED BY <1>3, <2>1, <3>1, <3>2, PutFirstWell
  <2>. QED BY <1>9, <2>2
<1>7. CASE v # Null /\ w.has[v]
  <2>. DEFINE x == w.bucket[v]
  <2>1. /\ v \in Values /\ x \in Handles /\ x # h /\ w.VP[x] = v /\ w.Prev[x] = InBucket(w.table, v)
        /\ Listed(w, {h}, x)
    <3>1. v \in Values /\ x # Null
      BY <1>3, <1>7, ButFacts
    <3>2. /\ x \in Handles /\ x # h /\ w.VP[x] = v /\ w.Prev[x] = InBucket(w.table, v)
          /\ Null \notin Values
      <4>1. /\ Null \notin Values
            /\ \A y \in Values : w.bucket[y] \in Handles \cup {Null}
            /\ \A y \in Values : w.bucket[y] # Null =>
                 /\ w.bucket[y] # h
                 /\ w.VP[w.bucket[y]] = y /\ w.Prev[w.bucket[y]] = InBucket(w.table, y)
        <5>1. WellBut(w, {h})
          BY <1>3
        <5>. QED BY <5>1, ButFacts
      <4>. HIDE DEF x
      <4>2. x = w.bucket[v]
        BY DEF x
      <4>. QED BY <4>1, <4>2, <3>1
    <3>3. Listed(w, {h}, x)
      BY <3>1, <3>2 DEF Listed
    <3>. QED BY <3>1, <3>2, <3>3
  <2>2. n = AddToExistingUseList(w, h, w.Prev[x])
    <3>1. n \in AddToUseList(w, h)
      BY <1>2, <1>7
    <3>2. w.has[w.VP[h]] /\ InBucket(w.table, w.VP[h]) = w.Prev[x]
      BY <1>4, <1>7, <2>1
    <3>. HIDE DEF x
    <3>. QED BY <3>1, <3>2 DEF AddToUseList
  <2>. HIDE DEF x
  <2>3. PutBefore(w, n, h, x)
    BY <1>3, <2>1, <2>2, AddPutsBefore
  <2>4. Well(n) /\ KeepsOrder(w, n, h) /\ n.VP = w.VP
    <3>1. n.VP = w.VP
      BY <2>3 DEF PutBefore
    <3>2. w.VP[h] = w.VP[x]
      BY <1>4, <2>1
    <3>. QED BY <1>3, <2>1, <2>3, <3>1, <3>2, PutBeforeWell
  <2>. QED BY <1>9, <2>4
<1>. QED BY <1>5, <1>6, <1>7

\* Assignment of a handle, whose list the other one joins.
LEMMA CopiedMoves ==
  ASSUME NEW m, Well(m), NEW h \in Handles, NEW g \in Handles, m.VP[h] # m.VP[g],
         NEW n, n = Copied(m, h, g)
  PROVE  Moves(m, n, h, m.VP[g])
<1>. DEFINE v == m.VP[g]
            u == Unlinked(m, h)
            w == Loose(u, h, v)
<1>1. WellBut(u, {h}) /\ KeepsOrder(m, u, h) /\ PassesOver(m, u, h) /\ u.VP = m.VP
  BY UnlinkedWell
<1>2. n = IF v = Null THEN w ELSE AddToExistingUseList(w, h, w.Prev[g])
  BY DEF Copied, Loose
<1>8. v \in Values \cup {Null} /\ v = m.VP[g]
  BY WellFacts
<1>. HIDE DEF u, v
<1>3. WellBut(w, {h}) /\ w.VP = [u.VP EXCEPT ![h] = v] /\ w.Next = u.Next
  <2>1. w = Loose(u, h, v)
    OBVIOUS
  <2>. HIDE DEF w
  <2>. QED BY <1>1, <1>8, <2>1, LooseValue
<1>4. w.VP = [m.VP EXCEPT ![h] = v] /\ w.VP[h] = v /\ g # h /\ w.VP[g] = v
  BY <1>1, <1>3, <1>8, WellFacts DEF Mem
<1>. HIDE DEF w
<1>9. Well(n) /\ KeepsOrder(w, n, h) /\ n.VP = w.VP => Moves(m, n, h, v)
  <2>1. ASSUME KeepsOrder(w, n, h)
        PROVE  KeepsOrder(m, n, h) /\ PassesOver(m, n, h)
    BY <1>1, <1>3, <2>1, OrderComposes
  <2>. QED BY <1>4, <2>1 DEF Moves
<1>5. ASSUME v = Null PROVE Moves(m, n, h, v)
  <2>1. n = w
    BY <1>2, <1>5
  <2>2. Well(w)
    BY <1>3, <1>4, <1>5, ButFacts
       DEF Well, WellBut, Listed, PrevRight, NextRight, BucketRight, AllReached
  <2>3. KeepsOrder(w, w, h)
    BY DEF KeepsOrder
  <2>. QED BY <1>4, <2>1, <2>2, <2>3, <1>9
<1>6. ASSUME v # Null PROVE Moves(m, n, h, v)
  <2>1. Listed(w, {h}, g) /\ n = AddToExistingUseList(w, h, w.Prev[g])
    BY <1>2, <1>4, <1>6 DEF Listed
  <2>2. PutBefore(w, n, h, g)
    BY <1>3, <2>1, AddPutsBefore
  <2>3. Well(n) /\ KeepsOrder(w, n, h) /\ n.VP = w.VP
    <3>1. n.VP = w.VP
      BY <2>2 DEF PutBefore
    <3>2. w.VP[h] = w.VP[g]
      BY <1>4
    <3>. QED BY <1>3, <2>1, <2>2, <3>1, <3>2, PutBeforeWell
  <2>. QED BY <1>9, <2>3
<1>10. Moves(m, n, h, v)
  BY <1>5, <1>6
<1>. QED BY <1>10 DEF v

-----------------------------------------------------------------------------
(***************************************************************************)
(* The lists, whatever happens.                                            *)
(***************************************************************************)WalkRecords ==
  [op : {"delete", "rauw"}, value : Values, new : Values \cup {Null},
   entry : Handles \cup {Null}, calling : Handles \cup {Null},
   seen : SUBSET Handles, strayed : BOOLEAN]

Lists ==
  /\ Well(mem) /\ left \in [Handles -> Handles \cup {Null}]
  /\ walks \in Seq(WalkRecords) /\ destroyed \subseteq Values

\* What the list of walks becomes when one begins, goes on or ends.
LEMMA Pushed ==
  ASSUME NEW T, NEW s \in Seq(T), NEW w \in T
  PROVE  /\ <<w>> \o s \in Seq(T) /\ Len(<<w>> \o s) = Len(s) + 1
         /\ (<<w>> \o s)[1] = w
         /\ \A i \in 2 .. Len(s) + 1 : (<<w>> \o s)[i] = s[i - 1] /\ i - 1 \in 1 .. Len(s)
<1>1. <<w>> \in Seq(T) /\ Len(<<w>>) = 1 /\ <<w>>[1] = w /\ Len(s) \in Nat
  OBVIOUS
<1>. QED BY <1>1

LEMMA Popped ==
  ASSUME NEW T, NEW s \in Seq(T), s # <<>>
  PROVE  /\ Tail(s) \in Seq(T) /\ Len(Tail(s)) = Len(s) - 1 /\ Len(s) \in Nat /\ Len(s) >= 1
         /\ \A i \in 1 .. Len(s) - 1 : Tail(s)[i] = s[i + 1] /\ i + 1 \in 1 .. Len(s)
         /\ Head(s) = s[1] /\ Head(s) \in T
OBVIOUS

LEMMA Changed ==
  ASSUME NEW T, NEW s \in Seq(T), s # <<>>, NEW w \in T
  PROVE  /\ <<w>> \o Tail(s) \in Seq(T) /\ Len(<<w>> \o Tail(s)) = Len(s)
         /\ (<<w>> \o Tail(s))[1] = w
         /\ \A i \in 2 .. Len(s) : (<<w>> \o Tail(s))[i] = s[i]
<1>. DEFINE t == Tail(s)
<1>1. t \in Seq(T) /\ Len(t) = Len(s) - 1 /\ Len(s) \in Nat /\ Len(s) >= 1
  BY Popped
<1>2. \A i \in 1 .. Len(s) - 1 : t[i] = s[i + 1]
  BY Popped
<1>. HIDE DEF t
<1>3. /\ <<w>> \o t \in Seq(T) /\ Len(<<w>> \o t) = Len(t) + 1
      /\ (<<w>> \o t)[1] = w
      /\ \A i \in 2 .. Len(t) + 1 : (<<w>> \o t)[i] = t[i - 1] /\ i - 1 \in 1 .. Len(t)
  BY <1>1, Pushed
<1>4. \A i \in 2 .. Len(s) : (<<w>> \o t)[i] = s[i]
  BY <1>1, <1>2, <1>3
<1>. QED BY <1>1, <1>3, <1>4 DEF t

\* The walk that a handle is visited in.
LEMMA TopWalk ==
  ASSUME Lists, walks # <<>>
  PROVE  /\ Top \in WalkRecords /\ Top = walks[1]
         /\ Top.op \in {"delete", "rauw"} /\ Top.value \in Values /\ Top.new \in Values \cup {Null}
         /\ Top.entry \in Handles \cup {Null} /\ Top.calling \in Handles \cup {Null}
<1>1. Top \in WalkRecords /\ Top = walks[1]
  BY Popped DEF Top, Lists
<1>. QED BY <1>1 DEF WalkRecords

\* What is read and left in handles that are on no list.
LEMMA NextOfType ==
  ASSUME Lists, NEW h \in Handles
  PROVE  /\ NextOf(mem, left, h) \in Handles \cup {Null}
         /\ mem.VP[h] # Null => NextOf(mem, left, h) = mem.Next[h]
BY WellFacts DEF Lists, NextOf

LEMMA LeavingType ==
  ASSUME Lists, NEW m
  PROVE  Leaving(m) \in [Handles -> Handles \cup {Null}]
BY NextOfType DEF Leaving

\* A walk that goes on to its next handle.
LEMMA OnwardFields ==
  ASSUME Lists, NEW w \in WalkRecords, w.entry # Null, NEW m, NEW c \in Handles \cup {Null},
         NEW k, k = Onward(w, m, c)
  PROVE  /\ k \in WalkRecords /\ w.entry \in Handles
         /\ k.op = w.op /\ k.value = w.value /\ k.new = w.new /\ k.calling = c
         /\ k.entry = NextOf(mem, left, w.entry)
         /\ k.seen = w.seen \cup {w.entry} /\ k.strayed = w.strayed
<1>1. w.entry \in Handles
  BY DEF WalkRecords
<1>2. PICK f \in Handles \cup {Null} : f = NextOf(mem, left, w.entry)
  BY <1>1, NextOfType
<1>3. PICK S \in SUBSET Handles : S = w.seen \cup {w.entry}
  BY <1>1 DEF WalkRecords
<1>4. k = [w EXCEPT !.entry = f, !.calling = c, !.seen = S]
  BY <1>2, <1>3 DEF Onward, Advance
<1>5. /\ k \in WalkRecords
      /\ k.op = w.op /\ k.value = w.value /\ k.new = w.new /\ k.calling = c
      /\ k.entry = f /\ k.seen = S /\ k.strayed = w.strayed
  BY <1>4 DEF WalkRecords
<1>. QED BY <1>1, <1>2, <1>3, <1>5

\* The walk k is the walk w once the lists are m.
IsNoted(w, m, k) ==
  /\ k \in WalkRecords
  /\ k.value = w.value /\ k.new = w.new /\ k.entry = w.entry
  /\ \A x \in Handles :
       x \in k.seen <=> m.VP[x] = w.value /\ (x \in w.seen \/ mem.VP[x] # w.value)
  /\ k.strayed <=> w.strayed \/ (w.entry # Null /\ m.VP[w.entry] # mem.VP[w.entry])

LEMMA NotingFields ==
  ASSUME NEW w \in WalkRecords, NEW m, NEW k, k = Noting(w, m)
  PROVE  IsNoted(w, m, k)
<1>. DEFINE S == {h \in Handles : m.VP[h] = w.value /\ (h \in w.seen \/ mem.VP[h] # w.value)}
            b == w.strayed \/ (w.entry # Null /\ m.VP[w.entry] # mem.VP[w.entry])
<1>1. k = [w EXCEPT !.seen = S, !.strayed = b]
  BY DEF Noting
<1>2. S \in SUBSET Handles /\ b \in BOOLEAN
  BY DEF WalkRecords
<1>. HIDE DEF S, b
<1>3. /\ k \in WalkRecords
      /\ k.op = w.op /\ k.value = w.value /\ k.new = w.new
      /\ k.entry = w.entry /\ k.calling = w.calling
      /\ k.seen = S /\ k.strayed = b
  BY <1>1, <1>2 DEF WalkRecords
<1>. QED BY <1>3 DEF S, b, IsNoted

LEMMA NotedWalks ==
  ASSUME NEW s \in Seq(WalkRecords), NEW m, NEW r, r = Noted(s, m)
  PROVE  /\ r \in Seq(WalkRecords) /\ Len(r) = Len(s) /\ Len(s) \in Nat
         /\ \A i \in 1 .. Len(s) : s[i] \in WalkRecords /\ r[i] = Noting(s[i], m)
<1>1. r = [i \in 1 .. Len(s) |-> Noting(s[i], m)] /\ Len(s) \in Nat
  BY DEF Noted
<1>2. \A i \in 1 .. Len(s) : s[i] \in WalkRecords
  OBVIOUS
<1>3. \A i \in 1 .. Len(s) : Noting(s[i], m) \in WalkRecords
  BY <1>2, NotingFields DEF IsNoted
<1>. QED BY <1>1, <1>2, <1>3

LEMMA AdvancedWalks ==
  ASSUME Lists, NEW c \in Handles \cup {Null}, NEW m, walks # <<>>, Top.entry # Null
  PROVE  Advanced(m, c) \in Seq(WalkRecords)
<1>. DEFINE k == Onward(Top, m, c)
<1>1. k \in WalkRecords
  BY TopWalk, OnwardFields
<1>. HIDE DEF k
<1>2. <<k>> \o Tail(walks) \in Seq(WalkRecords)
  BY <1>1, Changed DEF Lists
<1>. QED BY <1>2 DEF Advanced, k

\* A walk whose callback is done.
Resumed(w) == [w EXCEPT !.calling = Null]

LEMMA ResumedFields ==
  ASSUME NEW w \in WalkRecords, NEW k, k = Resumed(w)
  PROVE  /\ k \in WalkRecords /\ k.value = w.value /\ k.new = w.new /\ k.entry = w.entry
         /\ k.seen = w.seen /\ k.strayed = w.strayed
BY DEF Resumed, WalkRecords

LEMMA NewWalks ==
  ASSUME Lists, NEW op \in {"delete", "rauw"}, NEW v \in Values, NEW new \in Values \cup {Null}
  PROVE  /\ Walk(op, v, new) \in WalkRecords
         /\ <<Walk(op, v, new)>> \o walks \in Seq(WalkRecords)
<1>1. mem.bucket[v] \in Handles \cup {Null}
  BY WellFacts DEF Lists
<1>2. Walk(op, v, new) \in WalkRecords
  BY <1>1 DEF Walk, WalkRecords
<1>. QED BY <1>2, Pushed DEF Lists

\* A handle that is assigned, copied or visited and weak moves, or all stays.
LEMMA AssignMoves ==
  ASSUME Well(mem), NEW h \in Handles, NEW v \in Values \cup {Null}, NEW n \in Assigned(mem, h, v)
  PROVE  n = mem \/ (Moves(mem, n, h, v) /\ mem.VP[h] # v)
<1>1. CASE mem.VP[h] = v
  BY <1>1 DEF Assigned
<1>2. CASE mem.VP[h] # v
  BY <1>2, AssignedMoves
<1>. QED BY <1>1, <1>2

LEMMA CopyMoves ==
  ASSUME Well(mem), NEW h \in Handles, NEW g \in Handles, NEW n, n = Copied(mem, h, g)
  PROVE  n = mem \/ (Moves(mem, n, h, mem.VP[g]) /\ mem.VP[h] # mem.VP[g])
<1>1. CASE mem.VP[h] = mem.VP[g]
  BY <1>1 DEF Copied
<1>2. CASE mem.VP[h] # mem.VP[g]
  BY <1>2, CopiedMoves
<1>. QED BY <1>1, <1>2

\* What the steps that move handles do to lists and walks.
LEMMA RelinkedLists ==
  ASSUME Lists, NEW n, n = mem \/ Well(n), NEW s \in Seq(WalkRecords), Relinked(n, s),
         destroyed' = destroyed
  PROVE  Lists'
<1>1. mem' = n /\ left' = Leaving(n) /\ walks' = Noted(s, n)
  BY DEF Relinked
<1>2. Well(n) /\ destroyed \subseteq Values
  BY DEF Lists
<1>3. left' \in [Handles -> Handles \cup {Null}]
  BY <1>1, LeavingType
<1>4. walks' \in Seq(WalkRecords)
  BY <1>1, NotedWalks
<1>. QED BY <1>1, <1>2, <1>3, <1>4 DEF Lists

\* Every step leaves the lists right.
LEMMA ListsInit == Init => Lists
<1>. SUFFICES ASSUME Init PROVE Lists
  OBVIOUS
<1>1. /\ mem.VP = [h \in Handles |-> Null] /\ mem.Next = [h \in Handles |-> Null]
      /\ mem.bucket = [v \in Values |-> Null] /\ mem.has = [v \in Values |-> FALSE]
  BY DEF Init
<1>2. mem \in Mem
  BY Places DEF Init, Mem
<1>3. Well(mem)
  BY <1>1, <1>2 DEF Well, WellBut, Listed, PrevRight, NextRight, BucketRight, AllReached
<1>. QED BY <1>3 DEF Init, Lists

LEMMA ListsStep == Lists /\ [Next]_vars => Lists'
<1>. SUFFICES ASSUME Lists, [Next]_vars PROVE Lists'
  OBVIOUS
<1>0. /\ Well(mem) /\ left \in [Handles -> Handles \cup {Null}]
      /\ walks \in Seq(WalkRecords) /\ destroyed \subseteq Values
  BY DEF Lists
<1>1. ASSUME NEW h \in Handles, NEW v \in Values \cup {Null}, Assign(h, v) PROVE Lists'
  <2>1. PICK n \in Assigned(mem, h, v) : Relinked(n, walks) /\ destroyed' = destroyed
    BY <1>1 DEF Assign
  <2>2. n = mem \/ Well(n)
    BY <1>0, AssignMoves DEF Moves
  <2>. QED BY <1>0, <2>1, <2>2, RelinkedLists
<1>2. ASSUME NEW h \in Handles, NEW g \in Handles, Copy(h, g) PROVE Lists'
  <2>1. PICK n : n = Copied(mem, h, g) /\ Relinked(n, walks) /\ destroyed' = destroyed
    BY <1>2 DEF Copy
  <2>2. n = mem \/ Well(n)
    BY <1>0, <2>1, CopyMoves DEF Moves
  <2>. QED BY <1>0, <2>1, <2>2, RelinkedLists
<1>3. ASSUME NEW u \in Users, NEW v \in Values \cup {Null}, SetOperand(u, v) PROVE Lists'
  BY <1>0, <1>3 DEF SetOperand, Lists
<1>4. ASSUME NEW v \in Values, DeleteValue(v) PROVE Lists'
  BY <1>0, <1>4, NewWalks DEF DeleteValue, Lists
<1>5. ASSUME NEW v \in Values, NewValue(v) PROVE Lists'
  BY <1>0, <1>5 DEF NewValue, Lists
<1>6. ASSUME NEW v \in Values, NEW new \in Values, ReplaceAllUsesWith(v, new) PROVE Lists'
  BY <1>0, <1>6, NewWalks DEF ReplaceAllUsesWith, Lists
<1>7. ASSUME VisitWeak PROVE Lists'
  <2>1. walks # <<>> /\ Top.entry # Null
    BY <1>7 DEF VisitWeak, Visiting
  <2>2. Top.entry \in Handles /\ Top.new \in Values \cup {Null}
    BY <2>1, TopWalk
  <2>3. PICK n \in Assigned(mem, Top.entry, Top.new) :
          Relinked(n, Advanced(n, Null)) /\ destroyed' = destroyed
    BY <1>7 DEF VisitWeak
  <2>4. n = mem \/ Well(n)
    BY <1>0, <2>2, AssignMoves DEF Moves
  <2>5. Advanced(n, Null) \in Seq(WalkRecords)
    BY <2>1, AdvancedWalks
  <2>. QED BY <2>3, <2>4, <2>5, RelinkedLists
<1>8. ASSUME VisitAssert \/ VisitCallback PROVE Lists'
  <2>1. PICK c \in Handles \cup {Null} :
          /\ walks # <<>> /\ Top.entry # Null /\ walks' = Advanced(mem, c)
          /\ mem' = mem /\ left' = left /\ destroyed' = destroyed
    BY <1>8, TopWalk DEF VisitAssert, VisitCallback, Visiting
  <2>2. Advanced(mem, c) \in Seq(WalkRecords)
    BY <2>1, AdvancedWalks
  <2>. QED BY <1>0, <2>1, <2>2 DEF Lists
<1>9. ASSUME Return PROVE Lists'
  <2>1. /\ walks # <<>> /\ walks' = <<Resumed(Top)>> \o Tail(walks)
        /\ mem' = mem /\ left' = left /\ destroyed' = destroyed
    BY <1>9 DEF Return, Resumed
  <2>2. Resumed(Top) \in WalkRecords
    BY <2>1, TopWalk, ResumedFields
  <2>3. <<Resumed(Top)>> \o Tail(walks) \in Seq(WalkRecords)
    BY <1>0, <2>1, <2>2, Changed
  <2>. QED BY <1>0, <2>1, <2>3 DEF Lists
<1>10. ASSUME Destroyed \/ Replaced PROVE Lists'
  <2>1. /\ walks # <<>> /\ mem' = mem /\ walks' = Tail(walks)
        /\ left' = left \/ left' = [h \in Handles |-> Null]
        /\ destroyed' = destroyed \cup {Top.value} \/ destroyed' = destroyed
    BY <1>10 DEF Destroyed, Replaced, Walking, Ended
  <2>2. Top.value \in Values /\ Tail(walks) \in Seq(WalkRecords)
    BY <1>0, <2>1, TopWalk, Popped
  <2>. QED BY <1>0, <2>1, <2>2 DEF Lists
<1>11. ASSUME UNCHANGED vars PROVE Lists'
  BY <1>0, <1>11 DEF vars, Lists
<1>. QED
  BY <1>1, <1>2, <1>3, <1>4, <1>5, <1>6, <1>7, <1>8, <1>9, <1>10, <1>11 DEF Next

\* Right lists are what the property says of them.
LEMMA RightIntact == Well(mem) => ListsIntact
<1>. SUFFICES ASSUME Well(mem) PROVE ListsIntact
  OBVIOUS
<1>1. ASSUME NEW v \in Values
      PROVE  LET watching == {h \in Handles : mem.VP[h] = v}
             IN  OnList(v, watching) /\ (mem.has[v] <=> watching # {})
  <2>. DEFINE S == {h \in Handles : mem.VP[h] = v}
  <2>1. \A x \in S : Follows(mem, mem.bucket[v], x)
    BY <1>1, WellFacts
  <2>2. Begins(v, S)
    BY <1>1, WellFacts DEF Begins
  <2>3. ASSUME NEW R \in SUBSET S, Begins(v, R) PROVE R = S
    <3>1. SUFFICES ASSUME NEW x \in S PROVE x \in R
      OBVIOUS
    <3>2. mem.bucket[v] \in R /\ R \in SUBSET Handles
      BY <2>1, <2>3, WellFacts DEF Begins, Follows
    <3>. QED BY <2>1, <2>3, <3>2 DEF Begins, Follows
  <2>4. mem.has[v] <=> S # {}
    <3>1. mem.has[v] => S # {}
      BY <1>1, WellFacts
    <3>2. S # {} => mem.has[v]
      BY <2>1, <1>1, WellFacts DEF Follows
    <3>. QED BY <3>1, <3>2, WellFacts DEF Mem
  <2>. QED BY <2>2, <2>3, <2>4 DEF OnList
<1>2. ASSUME NEW h \in Handles, mem.VP[h] # Null
      PROVE  /\ At(mem, mem.Prev[h]) = h
             /\ mem.Prev[h].in = "bucket" => mem.Prev[h] = InBucket(mem.table, mem.VP[h])
  <2>1. CASE \E g \in Handles : mem.Prev[h] = InHandle(g) /\ mem.Next[g] = h
    BY <2>1, Places DEF At
  <2>2. CASE mem.Prev[h] = InBucket(mem.table, mem.VP[h]) /\ mem.bucket[mem.VP[h]] = h
    BY <2>2, Places DEF At
  <2>. QED BY <1>2, <2>1, <2>2, WellFacts
<1>. QED BY <1>1, <1>2 DEF ListsIntact

\* The list of a value holds exactly the handles that watch it and all pointers
\* back are right, however callbacks move handles, also those that lead a walk
\* astray, and however often the table of buckets moves.
THEOREM AlwaysIntact == Spec => []ListsIntact
<1>1. Spec => []Lists
  BY ListsInit, ListsStep, PTL DEF Spec
<1>2. Lists => ListsIntact
  BY RightIntact DEF Lists
<1>. QED BY <1>1, <1>2, PTL

-----------------------------------------------------------------------------
(***************************************************************************)
(* The walks, however they nest.                                           *)
(***************************************************************************)

\* What is right of a walk w over the lists m that nobody led astray: its entry
\* watches its value, and so do only handles it has seen or that come at or
\* after its entry.
OnCourse(m, w) ==
  /\ w.entry # Null => m.VP[w.entry] = w.value
  /\ \A x \in Handles : m.VP[x] = w.value => x \in w.seen \/ Follows(m, w.entry, x)
WalkRight(m, w) == w.value # w.new /\ (~w.strayed => OnCourse(m, w))

Watching == Lists /\ \A i \in 1 .. Len(walks) : WalkRight(mem, walks[i])

\* What comes after a handle comes at or after the next one.
LEMMA FollowsNext ==
  ASSUME NEW m, Well(m), NEW e \in Handles, NEW x \in Handles, Follows(m, e, x), x # e
  PROVE  m.Next[e] \in Handles /\ Follows(m, m.Next[e], x)
<1>. DEFINE f == m.Next[e]
<1>1. f \in Handles \cup {Null}
  BY WellFacts
<1>2. CASE f = Null
  <2>1. x \in {e}
    BY <1>2 DEF Follows
  <2>. QED BY <2>1
<1>3. CASE f \in Handles
  <2>1. ASSUME NEW S \in SUBSET Handles, f \in S, \A y \in S : m.Next[y] \in S \cup {Null}
        PROVE  x \in S
    <3>. DEFINE R == S \cup {e}
    <3>1. R \in SUBSET Handles /\ e \in R /\ \A y \in R : m.Next[y] \in R \cup {Null}
      BY <2>1
    <3>. HIDE DEF R
    <3>2. x \in R
      BY <3>1 DEF Follows
    <3>. QED BY <3>2 DEF R
  <2>. QED BY <1>3, <2>1 DEF Follows
<1>. QED BY <1>1, <1>2, <1>3

\* A walk while a handle moves to another value, also the one it kept: then it
\* is astray.
LEMMA RightWhileMoving ==
  ASSUME Well(mem), NEW n, NEW w \in WalkRecords, WalkRight(mem, w),
         NEW h \in Handles, NEW v, mem.VP[h] # v, Moves(mem, n, h, v)
  PROVE  WalkRight(n, Noting(w, n))
<1>0. PICK k : k = Noting(w, n)
  OBVIOUS
<1>1. /\ k.value = w.value /\ k.new = w.new /\ k.entry = w.entry
      /\ \A x \in Handles :
           x \in k.seen <=> n.VP[x] = w.value /\ (x \in w.seen \/ mem.VP[x] # w.value)
      /\ k.strayed <=> w.strayed \/ (w.entry # Null /\ n.VP[w.entry] # mem.VP[w.entry])
  <2>1. IsNoted(w, n, k)
    BY <1>0, NotingFields
  <2>. QED BY <2>1 DEF IsNoted
<1>2. w.entry \in Handles \cup {Null} /\ KeepsOrder(mem, n, h)
  BY DEF Moves, WalkRecords
<1>3. \A x \in Handles : n.VP[x] = IF x = h THEN v ELSE mem.VP[x]
  BY WellFacts DEF Moves, Mem
<1>4. ASSUME ~k.strayed PROVE OnCourse(n, k)
  <2>1. ~w.strayed /\ (w.entry # Null => n.VP[w.entry] = mem.VP[w.entry])
    BY <1>1, <1>4
  <2>2. OnCourse(mem, w)
    BY <2>1 DEF WalkRight
  <2>3. k.entry # Null => n.VP[k.entry] = k.value
    BY <1>1, <2>1, <2>2 DEF OnCourse
  <2>4. ASSUME NEW x \in Handles, n.VP[x] = k.value, x \notin k.seen
        PROVE  Follows(n, k.entry, x)
    <3>1. mem.VP[x] = w.value /\ x \notin w.seen /\ n.VP[x] = w.value
      BY <1>1, <2>4
    <3>2. Follows(mem, w.entry, x)
      BY <2>2, <3>1 DEF OnCourse
    <3>3. x # h /\ w.entry # h
      BY <1>2, <1>3, <2>1, <3>1, WellFacts
    <3>4. w.entry \in Handles \ {h}
      BY <3>2, <3>3 DEF Follows
    <3>. QED BY <1>1, <1>2, <3>2, <3>3, <3>4 DEF KeepsOrder
  <2>. QED BY <2>3, <2>4 DEF OnCourse
<1>5. WalkRight(n, k)
  BY <1>1, <1>4 DEF WalkRight
<1>. QED BY <1>0, <1>5

\* A walk while all handles stay.
LEMMA RightWhileStaying ==
  ASSUME NEW w \in WalkRecords, WalkRight(mem, w)
  PROVE  WalkRight(mem, Noting(w, mem))
<1>0. PICK k : k = Noting(w, mem)
  OBVIOUS
<1>1. /\ k.value = w.value /\ k.new = w.new /\ k.entry = w.entry
      /\ \A x \in Handles :
           x \in k.seen <=> mem.VP[x] = w.value /\ (x \in w.seen \/ mem.VP[x] # w.value)
      /\ k.strayed <=> w.strayed \/ (w.entry # Null /\ mem.VP[w.entry] # mem.VP[w.entry])
  <2>1. IsNoted(w, mem, k)
    BY <1>0, NotingFields
  <2>. QED BY <2>1 DEF IsNoted
<1>2. WalkRight(mem, k)
  BY <1>1 DEF WalkRight, OnCourse
<1>. QED BY <1>0, <1>2

\* A walk when its entry is a weak handle, which moves to the new value.
LEMMA RightPastWeak ==
  ASSUME Lists, NEW n, NEW w \in WalkRecords, WalkRight(mem, w), w.entry # Null,
         n = mem \/ Moves(mem, n, w.entry, w.new), n = mem => mem.VP[w.entry] = w.new
  PROVE  WalkRight(n, Noting(Onward(w, n, Null), n))
<1>. DEFINE e == w.entry
            f == NextOf(mem, left, e)
<1>5. PICK o : o = Onward(w, n, Null)
  OBVIOUS
<1>6. PICK k : k = Noting(o, n)
  OBVIOUS
<1>0. Well(mem) /\ Null \notin Handles /\ Null \notin Values /\ w.value \in Values
  BY WellFacts DEF Lists, WalkRecords
<1>1. /\ o \in WalkRecords /\ e \in Handles
      /\ o.value = w.value /\ o.new = w.new /\ o.entry = f
      /\ o.seen = w.seen \cup {e} /\ o.strayed = w.strayed
  BY <1>5, OnwardFields
<1>2. /\ k.value = w.value /\ k.new = w.new /\ k.entry = f
      /\ \A x \in Handles :
           x \in k.seen <=> n.VP[x] = w.value /\ (x \in w.seen \cup {e} \/ mem.VP[x] # w.value)
      /\ k.strayed <=> w.strayed \/ (f # Null /\ n.VP[f] # mem.VP[f])
  <2>1. IsNoted(o, n, k)
    BY <1>1, <1>6, NotingFields
  <2>. HIDE DEF e, f
  <2>. QED BY <1>1, <2>1 DEF IsNoted
<1>3. ASSUME ~k.strayed PROVE OnCourse(n, k)
  <2>1. ~w.strayed /\ OnCourse(mem, w) /\ w.value # w.new
    BY <1>2, <1>3 DEF WalkRight
  <2>2. mem.VP[e] = w.value /\ Moves(mem, n, e, w.new)
    BY <2>1 DEF OnCourse
  <2>3. f = mem.Next[e]
    BY <1>0, <1>1, <2>2, NextOfType
  <2>. HIDE DEF e, f
  <2>4. \A x \in Handles : n.VP[x] = IF x = e THEN w.new ELSE mem.VP[x]
    BY <1>0, <1>1, <2>2, WellFacts DEF Moves, Mem
  <2>5. f # Null => f \in Handles /\ f # e /\ mem.VP[f] = w.value
    BY <1>0, <1>1, <2>2, <2>3, WellFacts, NextOther
  <2>6. f # Null => n.VP[f] = w.value
    BY <2>4, <2>5
  <2>7. ASSUME NEW x \in Handles, n.VP[x] = w.value, x \notin k.seen PROVE Follows(n, f, x)
    <3>1. x # e /\ mem.VP[x] = w.value /\ x \notin w.seen
      BY <1>2, <2>1, <2>4, <2>7
    <3>2. Follows(mem, e, x)
      BY <2>1, <3>1 DEF OnCourse, e
    <3>. QED BY <2>2, <2>3, <3>1, <3>2 DEF Moves, PassesOver
  <2>. QED BY <1>2, <2>6, <2>7 DEF OnCourse
<1>4. WalkRight(n, k)
  BY <1>2, <1>3 DEF WalkRight
<1>. QED BY <1>4, <1>5, <1>6

\* A walk when its entry is a handle that does not follow, or is called.
LEMMA RightPastOther ==
  ASSUME Lists, NEW w \in WalkRecords, WalkRight(mem, w), w.entry # Null,
         NEW c \in Handles \cup {Null}
  PROVE  WalkRight(mem, Onward(w, mem, c))
<1>. DEFINE e == w.entry
            f == NextOf(mem, left, e)
            k == Onward(w, mem, c)
<1>0. Well(mem) /\ Null \notin Handles /\ Null \notin Values /\ w.value \in Values
  BY WellFacts DEF Lists, WalkRecords
<1>1. /\ e \in Handles /\ k.value = w.value /\ k.new = w.new /\ k.entry = f
      /\ k.seen = w.seen \cup {e} /\ k.strayed = w.strayed
  BY OnwardFields
<1>. HIDE DEF k
<1>2. ASSUME ~k.strayed PROVE OnCourse(mem, k)
  <2>1. OnCourse(mem, w)
    BY <1>1, <1>2 DEF WalkRight
  <2>2. mem.VP[e] = w.value
    BY <2>1 DEF OnCourse
  <2>3. f = mem.Next[e]
    BY <1>0, <1>1, <2>2, NextOfType
  <2>. HIDE DEF e, f
  <2>4. f # Null => mem.VP[f] = w.value
    BY <1>0, <1>1, <2>2, <2>3, WellFacts
  <2>5. ASSUME NEW x \in Handles, mem.VP[x] = w.value, x \notin k.seen PROVE Follows(mem, f, x)
    <3>1. x # e /\ x \notin w.seen
      BY <1>1, <2>5
    <3>2. Follows(mem, e, x)
      BY <2>1, <2>5, <3>1 DEF OnCourse, e
    <3>. QED BY <1>0, <1>1, <2>3, <3>1, <3>2, FollowsNext
  <2>. QED BY <1>1, <2>4, <2>5 DEF OnCourse
<1>3. WalkRight(mem, k)
  BY <1>1, <1>2 DEF WalkRight
<1>. QED BY <1>3 DEF k

\* A walk that begins.
LEMMA RightAtFirst ==
  ASSUME Lists, NEW op, NEW v \in Values, NEW new, v # new
  PROVE  WalkRight(mem, Walk(op, v, new))
<1>. DEFINE w == Walk(op, v, new)
<1>1. /\ w.value = v /\ w.new = new /\ w.entry = mem.bucket[v]
      /\ w.seen = {} /\ w.strayed = FALSE
  BY DEF Walk
<1>. HIDE DEF w
<1>2. mem.bucket[v] # Null => mem.VP[mem.bucket[v]] = v
  BY WellFacts DEF Lists
<1>3. ASSUME NEW x \in Handles, mem.VP[x] = v PROVE Follows(mem, mem.bucket[v], x)
  BY <1>3, WellFacts DEF Lists
<1>4. WalkRight(mem, w)
  BY <1>1, <1>2, <1>3 DEF WalkRight, OnCourse
<1>. QED BY <1>4 DEF w

\* All walks of s while a handle moves, or none does.
LEMMA WalksNoted ==
  ASSUME Lists, NEW n, NEW h \in Handles, NEW v,
         n = mem \/ (Moves(mem, n, h, v) /\ mem.VP[h] # v),
         NEW w \in WalkRecords, WalkRight(mem, w)
  PROVE  WalkRight(n, Noting(w, n))
<1>1. CASE n = mem
  BY <1>1, RightWhileStaying
<1>2. CASE Moves(mem, n, h, v) /\ mem.VP[h] # v
  BY <1>2, RightWhileMoving DEF Lists
<1>. QED BY <1>1, <1>2

\* A client moves a handle.
LEMMA ClientMoves ==
  ASSUME Watching, Lists', NEW n, NEW h \in Handles, NEW v,
         n = mem \/ (Moves(mem, n, h, v) /\ mem.VP[h] # v), Relinked(n, walks)
  PROVE  Watching'
<1>0. /\ Lists /\ walks \in Seq(WalkRecords)
      /\ \A i \in 1 .. Len(walks) : WalkRight(mem, walks[i])
  BY DEF Watching, Lists
<1>1. PICK r : r = Noted(walks, n) /\ walks' = r /\ mem' = n
  BY DEF Relinked
<1>2. /\ Len(r) = Len(walks)
      /\ \A i \in 1 .. Len(walks) : walks[i] \in WalkRecords /\ r[i] = Noting(walks[i], n)
  BY <1>0, <1>1, NotedWalks
<1>3. ASSUME NEW i \in 1 .. Len(r) PROVE WalkRight(n, r[i])
  <2>. DEFINE w == walks[i]
  <2>1. w \in WalkRecords /\ WalkRight(mem, w) /\ r[i] = Noting(w, n)
    BY <1>0, <1>2, <1>3
  <2>. HIDE DEF w
  <2>. QED BY <1>0, <2>1, WalksNoted
<1>. QED BY <1>1, <1>3 DEF Watching

\* The innermost walk goes on while the others stay as they are.
LEMMA InnermostGoesOn ==
  ASSUME Watching, Lists', walks # <<>>, mem' = mem,
         NEW k \in WalkRecords, WalkRight(mem, k), walks' = <<k>> \o Tail(walks)
  PROVE  Watching'
<1>0. /\ walks \in Seq(WalkRecords)
      /\ \A i \in 1 .. Len(walks) : WalkRight(mem, walks[i])
  BY DEF Watching, Lists
<1>1. PICK r : r = <<k>> \o Tail(walks)
  OBVIOUS
<1>2. Len(r) = Len(walks) /\ r[1] = k /\ \A i \in 2 .. Len(walks) : r[i] = walks[i]
  BY <1>0, <1>1, Changed
<1>3. Len(walks) \in Nat /\ Len(walks) >= 1
  BY <1>0, Popped
<1>4. \A i \in 1 .. Len(r) : WalkRight(mem, r[i])
  BY <1>0, <1>2, <1>3
<1>. QED BY <1>1, <1>4 DEF Watching

LEMMA VisitWeakWatching ==
  ASSUME Watching, VisitWeak, Lists'
  PROVE  Watching'
<1>0. /\ Lists /\ Well(mem) /\ walks \in Seq(WalkRecords)
      /\ \A i \in 1 .. Len(walks) : WalkRight(mem, walks[i])
  BY DEF Watching, Lists
<1>1. walks # <<>> /\ Top.entry # Null
  BY DEF VisitWeak, Visiting
<1>2. PICK w : /\ w = Top /\ w = walks[1] /\ w \in WalkRecords
               /\ w.entry \in Handles /\ w.new \in Values \cup {Null}
  BY <1>0, <1>1, TopWalk
<1>3. PICK n \in Assigned(mem, w.entry, w.new) : Relinked(n, Advanced(n, Null))
  BY <1>2 DEF VisitWeak
<1>4. n = mem \/ (Moves(mem, n, w.entry, w.new) /\ mem.VP[w.entry] # w.new)
  BY <1>0, <1>2, AssignMoves
<1>5. n = mem => mem.VP[w.entry] = w.new
  <2>1. SUFFICES ASSUME n = mem, mem.VP[w.entry] # w.new PROVE FALSE
    OBVIOUS
  <2>2. Moves(mem, n, w.entry, w.new)
    BY <1>0, <1>2, <2>1, AssignedMoves
  <2>3. mem.VP = [mem.VP EXCEPT ![w.entry] = w.new]
    BY <2>1, <2>2 DEF Moves
  <2>. QED BY <1>0, <1>2, <2>1, <2>3, WellFacts DEF Mem
<1>6. PICK o : o = Onward(w, n, Null) /\ o \in WalkRecords
  BY <1>0, <1>1, <1>2, OnwardFields
<1>7. PICK s : s = <<o>> \o Tail(walks) /\ s = Advanced(n, Null)
  BY <1>2, <1>6 DEF Advanced
<1>8. /\ s \in Seq(WalkRecords) /\ Len(s) = Len(walks) /\ s[1] = o
      /\ \A i \in 2 .. Len(walks) : s[i] = walks[i]
  BY <1>0, <1>1, <1>6, <1>7, Changed
<1>9. PICK r : r = Noted(s, n) /\ walks' = r /\ mem' = n
  BY <1>3, <1>7 DEF Relinked
<1>10. /\ Len(r) = Len(s) /\ Len(s) \in Nat
       /\ \A i \in 1 .. Len(s) : s[i] \in WalkRecords /\ r[i] = Noting(s[i], n)
  BY <1>8, <1>9, NotedWalks
<1>11. 1 \in 1 .. Len(walks)
  BY <1>0, <1>1
<1>12. WalkRight(n, Noting(o, n))
  <2>1. WalkRight(mem, w) /\ w.entry # Null
    BY <1>0, <1>1, <1>2, <1>11
  <2>. QED BY <1>0, <1>2, <1>4, <1>5, <1>6, <2>1, RightPastWeak
<1>13. ASSUME NEW i \in 1 .. Len(r) PROVE WalkRight(n, r[i])
  <2>1. CASE i = 1
    BY <1>8, <1>10, <1>12, <1>13, <2>1
  <2>2. CASE i # 1
    <3>. DEFINE b == walks[i]
    <3>1. i \in 2 .. Len(walks) /\ i \in 1 .. Len(s) /\ i \in 1 .. Len(walks)
      BY <1>8, <1>10, <1>13, <2>2
    <3>2. b \in WalkRecords /\ WalkRight(mem, b) /\ r[i] = Noting(b, n)
      BY <1>0, <1>8, <1>10, <3>1
    <3>. HIDE DEF b
    <3>. QED BY <1>0, <1>2, <1>4, <3>2, WalksNoted
  <2>. QED BY <2>1, <2>2
<1>. QED BY <1>9, <1>13 DEF Watching

LEMMA VisitOtherWatching ==
  ASSUME Watching, VisitAssert \/ VisitCallback, Lists'
  PROVE  Watching'
<1>0. /\ Lists /\ walks \in Seq(WalkRecords)
      /\ \A i \in 1 .. Len(walks) : WalkRight(mem, walks[i])
  BY DEF Watching, Lists
<1>1. PICK c \in Handles \cup {Null} :
        walks # <<>> /\ Top.entry # Null /\ walks' = Advanced(mem, c) /\ mem' = mem
  BY <1>0, TopWalk DEF VisitAssert, VisitCallback, Visiting
<1>2. PICK w : w = Top /\ w = walks[1] /\ w \in WalkRecords
  BY <1>0, <1>1, TopWalk
<1>3. PICK k : k = Onward(w, mem, c)
  OBVIOUS
<1>4. walks' = <<k>> \o Tail(walks)
  BY <1>1, <1>2, <1>3 DEF Advanced
<1>5. 1 \in 1 .. Len(walks)
  BY <1>0, <1>1
<1>6. k \in WalkRecords /\ WalkRight(mem, k)
  BY <1>0, <1>1, <1>2, <1>3, <1>5, OnwardFields, RightPastOther
<1>. QED BY <1>1, <1>4, <1>6, InnermostGoesOn

LEMMA ReturnWatching ==
  ASSUME Watching, Return, Lists'
  PROVE  Watching'
<1>0. /\ Lists /\ walks \in Seq(WalkRecords)
      /\ \A i \in 1 .. Len(walks) : WalkRight(mem, walks[i])
  BY DEF Watching, Lists
<1>1. walks # <<>> /\ walks' = <<Resumed(Top)>> \o Tail(walks) /\ mem' = mem
  BY DEF Return, Resumed
<1>2. PICK w : w = Top /\ w = walks[1] /\ w \in WalkRecords
  BY <1>0, <1>1, TopWalk
<1>3. PICK k : k = Resumed(w)
  OBVIOUS
<1>4. 1 \in 1 .. Len(walks)
  BY <1>0, <1>1
<1>5. /\ k \in WalkRecords /\ k.value = w.value /\ k.new = w.new /\ k.entry = w.entry
      /\ k.seen = w.seen /\ k.strayed = w.strayed
  BY <1>2, <1>3, ResumedFields
<1>6. WalkRight(mem, k)
  BY <1>0, <1>2, <1>4, <1>5 DEF WalkRight, OnCourse
<1>. QED BY <1>1, <1>2, <1>3, <1>5, <1>6, InnermostGoesOn

\* Walks begin and end.
LEMMA BeginWatching ==
  ASSUME Watching, Lists', mem' = mem, NEW op \in {"delete", "rauw"}, NEW v \in Values,
         NEW new \in Values \cup {Null}, v # new, walks' = <<Walk(op, v, new)>> \o walks
  PROVE  Watching'
<1>0. /\ Lists /\ walks \in Seq(WalkRecords)
      /\ \A i \in 1 .. Len(walks) : WalkRight(mem, walks[i])
  BY DEF Watching, Lists
<1>1. PICK w : w = Walk(op, v, new) /\ w \in WalkRecords /\ WalkRight(mem, w)
  BY <1>0, NewWalks, RightAtFirst
<1>2. PICK r : r = <<w>> \o walks
  OBVIOUS
<1>3. /\ Len(r) = Len(walks) + 1 /\ r[1] = w /\ Len(walks) \in Nat
      /\ \A i \in 2 .. Len(walks) + 1 : r[i] = walks[i - 1] /\ i - 1 \in 1 .. Len(walks)
  BY <1>0, <1>1, <1>2, Pushed
<1>4. ASSUME NEW i \in 1 .. Len(r) PROVE WalkRight(mem, r[i])
  <2>1. CASE i = 1
    BY <1>1, <1>3, <2>1
  <2>2. CASE i # 1
    <3>1. i \in 2 .. Len(walks) + 1
      BY <1>3, <1>4, <2>2
    <3>2. r[i] = walks[i - 1] /\ i - 1 \in 1 .. Len(walks)
      BY <1>3, <3>1
    <3>. QED BY <1>0, <3>2
  <2>. QED BY <2>1, <2>2
<1>. QED BY <1>1, <1>2, <1>4 DEF Watching

LEMMA EndWatching ==
  ASSUME Watching, Destroyed \/ Replaced, Lists'
  PROVE  Watching'
<1>0. /\ walks \in Seq(WalkRecords)
      /\ \A i \in 1 .. Len(walks) : WalkRight(mem, walks[i])
  BY DEF Watching, Lists
<1>1. walks # <<>> /\ mem' = mem /\ walks' = Tail(walks)
  BY DEF Destroyed, Replaced, Walking, Ended
<1>2. PICK r : r = Tail(walks)
  OBVIOUS
<1>3. /\ Len(r) = Len(walks) - 1
      /\ \A i \in 1 .. Len(walks) - 1 : r[i] = walks[i + 1] /\ i + 1 \in 1 .. Len(walks)
  BY <1>0, <1>1, <1>2, Popped
<1>. QED BY <1>0, <1>1, <1>2, <1>3 DEF Watching

LEMMA WatchingInit == Init => Watching
<1>. SUFFICES ASSUME Init PROVE Watching
  OBVIOUS
<1>1. Len(walks) = 0
  BY DEF Init
<1>. QED BY <1>1, ListsInit DEF Watching

LEMMA WatchingStep == Watching /\ [Next]_vars => Watching'
<1>. SUFFICES ASSUME Watching, [Next]_vars PROVE Watching'
  OBVIOUS
<1>0. Lists /\ Lists' /\ Well(mem)
  BY ListsStep DEF Watching, Lists
<1>1. ASSUME NEW h \in Handles, NEW v \in Values \cup {Null}, Assign(h, v) PROVE Watching'
  <2>1. PICK n \in Assigned(mem, h, v) : Relinked(n, walks)
    BY <1>1 DEF Assign
  <2>2. n = mem \/ (Moves(mem, n, h, v) /\ mem.VP[h] # v)
    BY <1>0, AssignMoves
  <2>. QED BY <1>0, <2>1, <2>2, ClientMoves
<1>2. ASSUME NEW h \in Handles, NEW g \in Handles, Copy(h, g) PROVE Watching'
  <2>1. PICK n : n = Copied(mem, h, g) /\ Relinked(n, walks)
    BY <1>2 DEF Copy
  <2>2. PICK v : v = mem.VP[g]
    OBVIOUS
  <2>3. n = mem \/ (Moves(mem, n, h, v) /\ mem.VP[h] # v)
    BY <1>0, <2>1, <2>2, CopyMoves
  <2>. QED BY <1>0, <2>1, <2>3, ClientMoves
<1>3. ASSUME NEW v \in Values, DeleteValue(v) PROVE Watching'
  <2>1. mem' = mem /\ walks' = <<Walk("delete", v, Null)>> \o walks /\ v # Null
    BY <1>3, ValueHandlesAssumption DEF DeleteValue
  <2>. QED BY <1>0, <2>1, BeginWatching
<1>4. ASSUME NEW v \in Values, NEW new \in Values, ReplaceAllUsesWith(v, new) PROVE Watching'
  <2>1. mem' = mem /\ walks' = <<Walk("rauw", v, new)>> \o walks /\ v # new
    BY <1>4 DEF ReplaceAllUsesWith
  <2>. QED BY <1>0, <2>1, BeginWatching
<1>5. ASSUME VisitWeak PROVE Watching'
  BY <1>0, <1>5, VisitWeakWatching
<1>6. ASSUME VisitAssert \/ VisitCallback PROVE Watching'
  BY <1>0, <1>6, VisitOtherWatching
<1>7. ASSUME Return PROVE Watching'
  BY <1>0, <1>7, ReturnWatching
<1>8. ASSUME Destroyed \/ Replaced PROVE Watching'
  BY <1>0, <1>8, EndWatching
<1>9. ASSUME mem' = mem, walks' = walks PROVE Watching'
  BY <1>0, <1>9 DEF Watching
<1>10. \A u \in Users, v \in Values \cup {Null} : SetOperand(u, v) => Watching'
  BY <1>9 DEF SetOperand
<1>11. \A v \in Values : NewValue(v) => Watching'
  BY <1>9 DEF NewValue
<1>12. UNCHANGED vars => Watching'
  BY <1>9 DEF vars
<1>. QED
  BY <1>1, <1>2, <1>3, <1>4, <1>5, <1>6, <1>7, <1>8, <1>10, <1>11, <1>12 DEF Next

LEMMA AlwaysWatching == Spec => []Watching
BY WatchingInit, WatchingStep, PTL DEF Spec

\* However the walks of deleted and replaced values nest, and whatever their
\* clients move, delete and replace: a walk leaves the list of its value only
\* if the handle it kept while it notified another was moved in the meantime.
THEOREM AlwaysOnCourse == Spec => []OnlyMovesStray
<1>1. Watching => OnlyMovesStray
  <2>. SUFFICES ASSUME Watching PROVE OnlyMovesStray
    OBVIOUS
  <2>1. walks \in Seq(WalkRecords) /\ \A i \in 1 .. Len(walks) : WalkRight(mem, walks[i])
    BY DEF Watching, Lists
  <2>2. DOMAIN walks = 1 .. Len(walks)
    BY <2>1
  <2>. QED BY <2>1, <2>2 DEF OnlyMovesStray, WalkRight, OnCourse
<1>. QED BY <1>1, AlwaysWatching, PTL

\* A walk that nobody led astray ends with its value watched only by handles
\* that it notified or that came to the value while it went on.
THEOREM NobodyMissed == Spec => []NoneMissed
<1>1. Watching => NoneMissed
  <2>. SUFFICES ASSUME Watching, walks # <<>>, Top.entry = Null, ~Top.strayed,
                       NEW x \in Handles, mem.VP[x] = Top.value
                PROVE  x \in Top.seen
    BY DEF NoneMissed
  <2>1. Top = walks[1] /\ 1 \in 1 .. Len(walks) /\ Null \notin Handles
    BY TopWalk, ValueHandlesAssumption DEF Watching, Lists
  <2>2. WalkRight(mem, Top)
    BY <2>1 DEF Watching
  <2>. QED BY <2>1, <2>2 DEF WalkRight, OnCourse, Follows
<1>. QED BY <1>1, AlwaysWatching, PTL
=============================================================================
