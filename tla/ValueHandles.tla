---------------------------- MODULE ValueHandles ----------------------------
(***************************************************************************)
(* Value handles (include/llvm/Support/ValueHandle.h, lib/VMCore/Value.cpp)*)
(* are smart pointers that are told when their value is destroyed or       *)
(* replaced.  The handles of a value form an intrusive list that begins in *)
(* a bucket of a hash table of the context; a handle knows where the       *)
(* pointer to it lies, in the handle before it or in that bucket, which    *)
(* moves when the table grows.  The list is walked while the handles on it *)
(* move themselves to other lists and run code of their clients.           *)
(***************************************************************************)
EXTENDS Naturals, Sequences, FiniteSets

CONSTANTS Handles, Values, Users,
          Kind,        \* handle |-> "Assert", "Weak" or "Callback"
          OwnOnly,     \* callbacks move no handle but their own
          MaxTables,   \* bound on the tables the buckets move to
          MaxDepth,    \* bound on nested walks
          Null

ASSUME ValueHandlesAssumption ==
  /\ Null \notin Handles \cup Values
  /\ Kind \in [Handles -> {"Assert", "Weak", "Callback"}]
  /\ OwnOnly \in BOOLEAN
  /\ MaxTables \in Nat /\ MaxDepth \in Nat

VARIABLES
  mem,        \* the lists: VP, Next and Prev of every handle, the bucket and
              \* HasValueHandle of every value, the table the buckets are in
  left,       \* what Next still says in a handle that a walk under way has
              \* seen leave its list for none
  operand,    \* user |-> the value it uses
  destroyed,  \* values that have been deleted
  walks       \* the calls of ValueIsDeleted and ValueIsRAUWd under way, the
              \* innermost first; of each also, for the properties, the handles
              \* it notified or that were put on its value since it began, and
              \* whether the handle it kept to go on with was moved

vars == <<mem, left, operand, destroyed, walks>>

\* Where a pointer to a handle lies.
InHandle(h)    == [in |-> "handle", handle |-> h]
InBucket(t, v) == [in |-> "bucket", table |-> t, value |-> v]

Init ==
  /\ mem = [VP |-> [h \in Handles |-> Null], Next |-> [h \in Handles |-> Null],
            Prev |-> [h \in Handles |-> InHandle(Null)],
            bucket |-> [v \in Values |-> Null], has |-> [v \in Values |-> FALSE],
            table |-> 1]
  /\ left = [h \in Handles |-> Null]
  /\ operand = [u \in Users |-> Null]
  /\ destroyed = {}
  /\ walks = <<>>

-----------------------------------------------------------------------------
\* *p and *p = h; a bucket of an old table is no longer read.
At(m, p) == IF p.in = "handle" THEN m.Next[p.handle] ELSE m.bucket[p.value]
Store(m, p, h) ==
  IF p.in = "handle" THEN [m EXCEPT !.Next[p.handle] = h]
  ELSE IF p.table = m.table THEN [m EXCEPT !.bucket[p.value] = h]
  ELSE m

SetPrevPtr(m, h, p) == IF h = Null THEN m ELSE [m EXCEPT !.Prev[h] = p]

\* Mutant: the handle that follows keeps its pointer back.
AddToExistingOneWay(m, h, p) ==
  SetPrevPtr(Store([m EXCEPT !.Next[h] = At(m, p)], p, h), h, p)

AddToExistingUseList(m, h, p) ==
  LET next == At(m, p)
  IN SetPrevPtr(SetPrevPtr(Store([m EXCEPT !.Next[h] = next], p, h), h, p), next, InHandle(h))

\* Mutant: the new buckets are not pointed back to.
FixNothing(m) == m

\* "Okay, reallocation did happen.  Fix the Prev Pointers."
FixPrevPointers(m) ==
  [m EXCEPT !.Prev = [h \in Handles |->
     IF m.VP[h] # Null /\ m.bucket[m.VP[h]] = h THEN InBucket(m.table, m.VP[h]) ELSE m.Prev[h]]]

\* What AddToUseList may do: the insertion of the first handle of a value may
\* move the table.
AddToUseList(m, h) ==
  LET v == m.VP[h]
      First(t) == AddToExistingUseList([m EXCEPT !.has[v] = TRUE, !.table = t], h, InBucket(t, v))
  IN IF m.has[v] THEN {AddToExistingUseList(m, h, InBucket(m.table, v))}
     ELSE {First(m.table)} \cup
          (IF m.table < MaxTables THEN {FixPrevPointers(First(m.table + 1))} ELSE {})

\* RemoveFromUseList; the last handle of a value takes the bucket along.
RemoveFromUseList(m, h) ==
  LET p == m.Prev[h]
      n == SetPrevPtr(Store(m, p, m.Next[h]), m.Next[h], p)
  IN IF m.Next[h] = Null /\ p.in = "bucket" /\ p.table = m.table
     THEN [n EXCEPT !.has[m.VP[h]] = FALSE] ELSE n

\* Only a walk that kept the handle still reads its Next: see left.
Unlinked(m, h) ==
  IF m.VP[h] = Null THEN m
  ELSE [RemoveFromUseList(m, h) EXCEPT !.Next[h] = Null, !.Prev[h] = InHandle(Null)]

\* operator=(Value*), the constructor from a value and, with null, the destructor.
Assigned(m, h, v) ==
  IF m.VP[h] = v THEN {m}
  ELSE LET n == [Unlinked(m, h) EXCEPT !.VP[h] = v]
       IN IF v = Null THEN {n} ELSE AddToUseList(n, h)

\* operator=(const ValueHandleBase &) and the copy constructor.
Copied(m, h, g) ==
  IF m.VP[h] = m.VP[g] THEN m
  ELSE LET n == [Unlinked(m, h) EXCEPT !.VP[h] = m.VP[g]]
       IN IF m.VP[g] = Null THEN n ELSE AddToExistingUseList(n, h, n.Prev[g])

-----------------------------------------------------------------------------
\* Clients run outside of all walks and in callbacks.  What they do to handles,
\* values and uses is the same there, as long as no value is used once it is
\* destroyed or destroyed while one of its member functions runs.
Top     == Head(walks)
Client  == walks # <<>> => Top.calling # Null
MayMove(h) == Client /\ (OwnOnly /\ walks # <<>> => h = Top.calling)
Walked  == (UNION {{walks[i].value, walks[i].new} : i \in DOMAIN walks}) \ {Null}

\* Next of a handle that is on a list or was.
NextOf(m, l, h) == IF m.VP[h] = Null THEN l[h] ELSE m.Next[h]

\* What a step that makes the lists m leaves in the handles off them.
Leaving(m) ==
  [h \in Handles |->
     IF walks = <<>> \/ m.VP[h] # Null THEN Null ELSE NextOf(mem, left, h)]

\* A walk w, and all walks ws, once a step has made the lists m.
Noting(w, m) ==
  [w EXCEPT
     !.seen = {h \in Handles : m.VP[h] = w.value /\ (h \in @ \/ mem.VP[h] # w.value)},
     !.strayed = @ \/ (w.entry # Null /\ m.VP[w.entry] # mem.VP[w.entry])]
Noted(ws, m) == [i \in DOMAIN ws |-> Noting(ws[i], m)]

Relinked(m, ws) == mem' = m /\ left' = Leaving(m) /\ walks' = Noted(ws, m)

Assign(h, v) ==
  /\ MayMove(h) /\ mem.VP[h] # v /\ v \notin destroyed
  /\ \E m \in Assigned(mem, h, v) : Relinked(m, walks)
  /\ UNCHANGED <<operand, destroyed>>

Copy(h, g) ==
  /\ MayMove(h)
  /\ Relinked(Copied(mem, h, g), walks)
  /\ UNCHANGED <<operand, destroyed>>

SetOperand(u, v) ==
  /\ Client /\ v \notin destroyed
  /\ operand' = [operand EXCEPT ![u] = v]
  /\ UNCHANGED <<mem, left, destroyed, walks>>

Walk(op, v, new) == [op |-> op, value |-> v, new |-> new, entry |-> mem.bucket[v],
                     calling |-> Null, seen |-> {}, strayed |-> FALSE]

\* ~Value begins; without handles there is nothing to walk.
DeleteValue(v) ==
  /\ Client /\ Len(walks) < MaxDepth /\ v \notin destroyed \cup Walked
  /\ walks' = <<Walk("delete", v, Null)>> \o walks
  /\ UNCHANGED <<mem, left, operand, destroyed>>

\* replaceAllUsesWith begins; also for a value that is being walked already.
ReplaceAllUsesWith(v, new) ==
  /\ Client /\ Len(walks) < MaxDepth /\ v # new
  /\ v \notin destroyed /\ new \notin destroyed
  /\ walks' = <<Walk("rauw", v, new)>> \o walks
  /\ UNCHANGED <<mem, left, operand, destroyed>>

\* Mutant: the pointer is advanced when the handle has been notified.
AdvanceAfter(h, m) == NextOf(m, Leaving(m), h)

\* "Advance pointer to avoid invalidation": the handle after h, before h is
\* notified, which makes the lists m.
Advance(h, m) == NextOf(mem, left, h)

Visiting(kind) == /\ walks # <<>> /\ Top.calling = Null
                  /\ Top.entry # Null /\ Kind[Top.entry] = kind

Onward(w, m, calling) ==
  [w EXCEPT !.entry = Advance(@, m), !.calling = calling, !.seen = @ \cup {w.entry}]
Advanced(m, calling) == <<Onward(Top, m, calling)>> \o Tail(walks)

\* A weak handle goes to null or to the new value.
VisitWeak ==
  /\ Visiting("Weak")
  /\ \E m \in Assigned(mem, Top.entry, Top.new) : Relinked(m, Advanced(m, Null))
  /\ UNCHANGED <<operand, destroyed>>

\* An asserting handle does not follow; if its value is destroyed the program
\* ends in llvm_unreachable, and nothing follows.
VisitAssert ==
  /\ Visiting("Assert") /\ Top.op = "rauw"
  /\ walks' = Advanced(mem, Null)
  /\ UNCHANGED <<mem, left, operand, destroyed>>

\* deleted() or allUsesReplacedWith() is called.
VisitCallback ==
  /\ Visiting("Callback")
  /\ walks' = Advanced(mem, Top.entry)
  /\ UNCHANGED <<mem, left, operand, destroyed>>

\* "All implementations must remove the reference from this object to the
\* Value that's being destroyed."
Return ==
  /\ walks # <<>> /\ Top.calling # Null
  /\ Top.op = "delete" => mem.VP[Top.calling] # Top.value
  /\ walks' = <<[Top EXCEPT !.calling = Null]>> \o Tail(walks)
  /\ UNCHANGED <<mem, left, operand, destroyed>>

Walking(op) == walks # <<>> /\ Top.calling = Null /\ Top.entry = Null /\ Top.op = op

\* A walk ends; without one nobody reads what is left in handles off the lists.
Ended ==
  /\ walks' = Tail(walks)
  /\ left' = IF Tail(walks) = <<>> THEN [h \in Handles |-> Null] ELSE left

\* ~Value ends.  "All references to V were not removed?" fires if there still
\* are handles, "Uses remain when a value is destroyed!" if there are uses;
\* nothing follows them.
Destroyed ==
  /\ Walking("delete") /\ ~mem.has[Top.value]
  /\ \A u \in Users : operand[u] # Top.value
  /\ destroyed' = destroyed \cup {Top.value}
  /\ Ended
  /\ UNCHANGED <<mem, operand>>

\* After the handles the uses are replaced.
Replaced ==
  /\ Walking("rauw")
  /\ operand' = [u \in Users |-> IF operand[u] = Top.value THEN Top.new ELSE operand[u]]
  /\ Ended
  /\ UNCHANGED <<mem, destroyed>>

\* A new value where a destroyed one was.
NewValue(v) ==
  /\ Client /\ v \in destroyed
  /\ destroyed' = destroyed \ {v}
  /\ UNCHANGED <<mem, left, operand, walks>>

Next ==
  \/ \E h \in Handles : \/ \E v \in Values \cup {Null} : Assign(h, v)
                        \/ \E g \in Handles \ {h} : Copy(h, g)
  \/ \E u \in Users, v \in Values \cup {Null} : SetOperand(u, v)
  \/ \E v \in Values : DeleteValue(v) \/ NewValue(v)
  \/ \E v, new \in Values : ReplaceAllUsesWith(v, new)
  \/ VisitWeak \/ VisitAssert \/ VisitCallback \/ Return
  \/ Destroyed \/ Replaced

Spec == Init /\ [][Next]_vars

-----------------------------------------------------------------------------
\* A walk from the bucket of v meets the handles in S and no others.
Begins(v, S) == mem.bucket[v] \in S \cup {Null} /\ \A h \in S : mem.Next[h] \in S \cup {Null}
OnList(v, S) == Begins(v, S) /\ \A R \in SUBSET S : Begins(v, R) => R = S

\* Whatever callbacks do and whenever the table grows: the list of a value
\* holds exactly the handles that watch it, the pointer each one keeps to
\* where it is linked from leads back to it, also into the table there is
\* now, and the bit of the value tells whether there are any.
ListsIntact ==
  /\ \A v \in Values : LET watching == {h \in Handles : mem.VP[h] = v}
                       IN  OnList(v, watching) /\ (mem.has[v] <=> watching # {})
  /\ \A h \in Handles : mem.VP[h] # Null =>
       /\ At(mem, mem.Prev[h]) = h
       /\ mem.Prev[h].in = "bucket" => mem.Prev[h] = InBucket(mem.table, mem.VP[h])

\* "Called when this->getValPtr() is destroyed", or replaced: the handle that
\* a walk notifies next watches the value the walk is for.
WatchesWalked ==
  walks # <<>> => (Top.calling = Null /\ Top.entry # Null => mem.VP[Top.entry] = Top.value)

\* However the walks nest and whatever their clients move, delete and replace:
\* a walk leaves the list of its value only if somebody else moved the very
\* handle it kept to go on with.
OnlyMovesStray ==
  \A i \in DOMAIN walks :
    walks[i].entry # Null /\ ~walks[i].strayed => mem.VP[walks[i].entry] = walks[i].value

\* A walk that nobody led astray misses no handle: at its end its value is
\* watched only by handles it notified or that were put there in the meantime.
\* So the assert at the end of ValueIsDeleted blames nobody else.
NoneMissed ==
  walks # <<>> /\ Top.calling = Null /\ Top.entry = Null /\ ~Top.strayed =>
    {h \in Handles : mem.VP[h] = Top.value} \subseteq Top.seen
=============================================================================
