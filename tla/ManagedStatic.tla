--------------------------- MODULE ManagedStatic ---------------------------
(***************************************************************************)
(* Lazily created statics (lib/Support/ManagedStatic.cpp,                  *)
(* include/llvm/Support/ManagedStatic.h), the global lock that serializes  *)
(* their creation (lib/System/Threading.cpp) and llvm_shutdown.            *)
(*                                                                         *)
(* Constructors and destructors dereference further statics, so a thread   *)
(* has a stack of calls.  One step is one access to shared memory; the     *)
(* fences of the code are what makes these steps happen in order.          *)
(***************************************************************************)
EXTENDS Naturals, Sequences, FiniteSets

CONSTANTS Threads,
          Statics,
          CreatorUses,  \* static |-> the statics its constructor dereferences
          DeleterUses,  \* static |-> the statics its destructor dereferences
          Null          \* null pointer, and the owner of a free lock

Uses(s) == CreatorUses[s] \cup DeleterUses[s]

\* A constructor that comes back to its own static never ends.
ASSUME ManagedStaticAssumption ==
  /\ CreatorUses \in [Statics -> SUBSET Statics]
  /\ DeleterUses \in [Statics -> SUBSET Statics]
  /\ \A S \in SUBSET Statics : S # {} => \E s \in S : Uses(s) \cap S = {}
  /\ Null \notin Statics \cup Threads

VARIABLES
  objects,       \* static |-> how many objects of it have been built and not deleted
  Ptr,           \* the statics whose Ptr is set
  DeleterFn,     \* the statics whose DeleterFn is set
  NextStatic,    \* Next of each static
  StaticList,    \* head of the list of statics
  multithreaded, \* multithreaded_mode
  lock,          \* global_lock: its owner and how often it is held
  stack,         \* thread |-> the calls it is in
  ok             \* every assert held, every object used was there

vars == <<objects, Ptr, DeleterFn, NextStatic, StaticList, multithreaded, lock, stack, ok>>
heap == <<objects, Ptr, DeleterFn, NextStatic, StaticList>>

-----------------------------------------------------------------------------
(* A call is at a point of the function it runs for static `of'; `left'    *)
(* are the statics the constructor or destructor has still to dereference. *)

Points == {"read", "register", "check", "create", "publish", "link", "release", "use",
           "shutdown", "delete"}

Call(at, of, left) == [at |-> at, of |-> of, left |-> left]

Idle(t) == stack[t] = << >>
Top(t)  == stack[t][Len(stack[t])]
At(t, point) == ~ Idle(t) /\ Top(t).at = point

Replaced(calls, call) == [calls EXCEPT ![Len(calls)] = call]
Popped(calls)         == SubSeq(calls, 1, Len(calls) - 1)

GoTo(t, point) ==
  stack' = [stack EXCEPT ![t] = Replaced(@, Call(point, Top(t).of, Top(t).left))]
Enter(t, call) == stack' = [stack EXCEPT ![t] = Append(@, call)]
Return(t)      == stack' = [stack EXCEPT ![t] = Popped(@)]

Free == [owner |-> Null, depth |-> 0]

Init ==
  /\ objects = [s \in Statics |-> 0]
  /\ Ptr = {}
  /\ DeleterFn = {}
  /\ NextStatic = [s \in Statics |-> Null]
  /\ StaticList = Null
  /\ multithreaded = FALSE
  /\ lock = Free
  /\ stack = [t \in Threads |-> << >>]
  /\ ok = TRUE

-----------------------------------------------------------------------------
(* What clients may do: "no other threads are allowed to issue LLVM API    *)
(* calls before llvm_start_multithreaded() returns", and llvm_shutdown     *)
(* "requires the same isolation".                                          *)

Isolated == \A t \in Threads : Idle(t)
ShuttingDown == \E t \in Threads : \E i \in 1..Len(stack[t]) : stack[t][i].at = "shutdown"

MayCall(t) == Idle(t) /\ (Isolated \/ (multithreaded /\ ~ ShuttingDown))

\* llvm_start_multithreaded
StartMultithreaded ==
  /\ Isolated
  /\ ~ multithreaded
  /\ multithreaded' = TRUE
  /\ lock' = Free
  /\ UNCHANGED <<heap, stack, ok>>

-----------------------------------------------------------------------------
(* ManagedStatic<C>::operator-> *)

Dereference(t, s) ==
  /\ MayCall(t)
  /\ Enter(t, Call("read", s, {}))
  /\ UNCHANGED <<heap, multithreaded, lock, ok>>

\* void* tmp = Ptr; if (!tmp) RegisterManagedStatic(...)
Read(t) ==
  /\ At(t, "read")
  /\ GoTo(t, IF Top(t).of \in Ptr THEN "use" ELSE "register")
  /\ UNCHANGED <<heap, multithreaded, lock, ok>>

\* Mutant: the lock is not waited for.
AcquireAnyway(t) == lock' = [owner |-> t, depth |-> 1]

\* llvm_acquire_global_lock, of a recursive mutex
Acquire(t) ==
  /\ lock.owner \in {Null, t}
  /\ lock' = [owner |-> t, depth |-> lock.depth + 1]

\* Without threads the static must be as the linker made it.
Untouched(s) == s \notin Ptr /\ s \notin DeleterFn /\ NextStatic[s] = Null

Register(t) ==
  /\ At(t, "register")
  /\ \/ /\ multithreaded
        /\ Acquire(t)
        /\ GoTo(t, "check")
        /\ UNCHANGED ok
     \/ /\ ~ multithreaded
        /\ stack' = [stack EXCEPT ![t] =
                       Replaced(@, Call("create", Top(t).of, CreatorUses[Top(t).of]))]
        /\ ok' = (ok /\ Untouched(Top(t).of))
        /\ UNCHANGED lock
  /\ UNCHANGED <<heap, multithreaded>>

\* Mutant: the pointer is not read again under the lock.
CheckNothing(t) ==
  /\ At(t, "check")
  /\ stack' = [stack EXCEPT ![t] =
                 Replaced(@, Call("create", Top(t).of, CreatorUses[Top(t).of]))]
  /\ UNCHANGED <<heap, multithreaded, lock, ok>>

\* if (Ptr == 0), under the lock
Check(t) ==
  /\ At(t, "check")
  /\ stack' = [stack EXCEPT ![t] =
                 Replaced(@, IF Top(t).of \in Ptr
                             THEN Call("release", Top(t).of, {})
                             ELSE Call("create", Top(t).of, CreatorUses[Top(t).of]))]
  /\ UNCHANGED <<heap, multithreaded, lock, ok>>

\* Mutant: the constructor starts over after each static it uses.
NestedAgain(t) ==
  /\ At(t, "create") \/ At(t, "delete")
  /\ \E u \in Top(t).left : Enter(t, Call("read", u, {}))
  /\ UNCHANGED <<heap, multithreaded, lock, ok>>

\* A constructor or destructor dereferences one of the statics it uses.
Nested(t) ==
  /\ At(t, "create") \/ At(t, "delete")
  /\ \E u \in Top(t).left :
       stack' = [stack EXCEPT ![t] =
                   Append(Replaced(@, Call(Top(t).at, Top(t).of, Top(t).left \ {u})),
                          Call("read", u, {}))]
  /\ UNCHANGED <<heap, multithreaded, lock, ok>>

\* tmp = Creator(): the object is complete.
Create(t) ==
  /\ At(t, "create") /\ Top(t).left = {}
  /\ objects' = [objects EXCEPT ![Top(t).of] = @ + 1]
  /\ GoTo(t, "publish")
  /\ UNCHANGED <<Ptr, DeleterFn, NextStatic, StaticList, multithreaded, lock, ok>>

\* Ptr = tmp: from here on other threads find the object.
Publish(t) ==
  /\ At(t, "publish")
  /\ Ptr' = Ptr \cup {Top(t).of}
  /\ GoTo(t, "link")
  /\ UNCHANGED <<objects, DeleterFn, NextStatic, StaticList, multithreaded, lock, ok>>

\* Mutant: the static goes to the end of the list.
LinkLast(t) ==
  LET s == Top(t).of
  IN /\ At(t, "link")
     /\ DeleterFn' = DeleterFn \cup {s}
     /\ IF StaticList = Null
        THEN StaticList' = s /\ UNCHANGED NextStatic
        ELSE /\ NextStatic' = [x \in Statics |->
                                 IF x \in DeleterFn /\ NextStatic[x] = Null THEN s ELSE NextStatic[x]]
             /\ UNCHANGED StaticList
     /\ GoTo(t, "release")
     /\ UNCHANGED <<objects, Ptr, multithreaded, lock, ok>>

\* Mutant: the static becomes the head of the list before it takes Next from it.
LinkToItself(t) ==
  /\ At(t, "link")
  /\ DeleterFn' = DeleterFn \cup {Top(t).of}
  /\ NextStatic' = [NextStatic EXCEPT ![Top(t).of] = Top(t).of]
  /\ StaticList' = Top(t).of
  /\ GoTo(t, "release")
  /\ UNCHANGED <<objects, Ptr, multithreaded, lock, ok>>

\* DeleterFn = Deleter; Next = StaticList; StaticList = this
Link(t) ==
  /\ At(t, "link")
  /\ DeleterFn' = DeleterFn \cup {Top(t).of}
  /\ NextStatic' = [NextStatic EXCEPT ![Top(t).of] = StaticList]
  /\ StaticList' = Top(t).of
  /\ GoTo(t, "release")
  /\ UNCHANGED <<objects, Ptr, multithreaded, lock, ok>>

\* Mutant: the lock is given back without asking for the mode.
ReleaseAlways(t) ==
  /\ At(t, "release")
  /\ lock' = IF lock.depth = 1 THEN Free ELSE [lock EXCEPT !.depth = @ - 1]
  /\ GoTo(t, "use")
  /\ UNCHANGED <<heap, multithreaded, ok>>

\* llvm_release_global_lock
Release(t) ==
  /\ At(t, "release")
  /\ lock' = IF ~ multithreaded THEN lock
             ELSE IF lock.depth = 1 THEN Free
             ELSE [lock EXCEPT !.depth = @ - 1]
  /\ GoTo(t, "use")
  /\ UNCHANGED <<heap, multithreaded, ok>>

\* return static_cast<C*>(Ptr): Ptr is read a second time.
Use(t) ==
  /\ At(t, "use")
  /\ ok' = (ok /\ Top(t).of \in Ptr /\ objects[Top(t).of] > 0)
  /\ Return(t)
  /\ UNCHANGED <<heap, multithreaded, lock>>

-----------------------------------------------------------------------------
(* llvm_shutdown *)

Shutdown(t) ==
  /\ Isolated
  /\ Enter(t, Call("shutdown", Null, {}))
  /\ UNCHANGED <<heap, multithreaded, lock, ok>>

\* StaticList->destroy(), up to the call of the deleter
Destroy(t) ==
  LET s == StaticList
  IN /\ At(t, "shutdown") /\ s # Null
     /\ ok' = (ok /\ s \in DeleterFn)
     /\ StaticList' = NextStatic[s]
     /\ NextStatic' = [NextStatic EXCEPT ![s] = Null]
     /\ Enter(t, Call("delete", s, DeleterUses[s]))
     /\ UNCHANGED <<objects, Ptr, DeleterFn, multithreaded, lock>>

\* Mutant: the static keeps the pointer to the deleted object.
DestroyedKeepsPtr(t) ==
  /\ At(t, "delete") /\ Top(t).left = {}
  /\ objects' = [objects EXCEPT ![Top(t).of] = @ - 1]
  /\ DeleterFn' = DeleterFn \ {Top(t).of}
  /\ Return(t)
  /\ UNCHANGED <<Ptr, NextStatic, StaticList, multithreaded, lock, ok>>

\* DeleterFn(Ptr); Ptr = 0; DeleterFn = 0
Destroyed(t) ==
  /\ At(t, "delete") /\ Top(t).left = {}
  /\ objects' = [objects EXCEPT ![Top(t).of] = @ - 1]
  /\ Ptr' = Ptr \ {Top(t).of}
  /\ DeleterFn' = DeleterFn \ {Top(t).of}
  /\ Return(t)
  /\ UNCHANGED <<NextStatic, StaticList, multithreaded, lock, ok>>

\* The list is empty; llvm_stop_multithreaded deletes the lock.
ShutdownDone(t) ==
  /\ At(t, "shutdown") /\ StaticList = Null
  /\ multithreaded' = FALSE
  /\ lock' = Free
  /\ Return(t)
  /\ UNCHANGED <<heap, ok>>

-----------------------------------------------------------------------------
\* The steps a thread takes once it is in a call.
Step(t) ==
  \/ Read(t) \/ Register(t) \/ Check(t) \/ Nested(t) \/ Create(t) \/ Publish(t)
  \/ Link(t) \/ Release(t) \/ Use(t) \/ Destroy(t) \/ Destroyed(t) \/ ShutdownDone(t)

Next ==
  \/ StartMultithreaded
  \/ \E t \in Threads, s \in Statics : Dereference(t, s)
  \/ \E t \in Threads : Shutdown(t)
  \/ \E t \in Threads : Step(t)

Spec == Init /\ [][Next]_vars

\* A thread that can go on does; nothing says that a client calls again.
FairSpec == Spec /\ \A t \in Threads : WF_vars(Step(t))

-----------------------------------------------------------------------------
(* Properties *)

Calls == [at : Points, of : Statics \cup {Null}, left : SUBSET Statics]

\* Every variable has its type.
TypeOK ==
  /\ objects \in [Statics -> Nat]
  /\ Ptr \subseteq Statics
  /\ DeleterFn \subseteq Statics
  /\ NextStatic \in [Statics -> Statics \cup {Null}]
  /\ StaticList \in Statics \cup {Null}
  /\ multithreaded \in BOOLEAN
  /\ lock \in [owner : Threads \cup {Null}, depth : Nat]
  /\ stack \in [Threads -> Seq(Calls)]
  /\ ok \in BOOLEAN

\* Some call of t, not only the innermost, is at a point of P.
Within(t, P) == \E i \in 1..Len(stack[t]) : stack[t][i].at \in P

\* What runs under the lock.
Critical == {"check", "create", "publish", "link", "release"}

\* However many threads miss the pointer at once, and whatever their
\* constructors dereference on the way, one constructor runs at a time.
CreatorsSerialized ==
  \A t, u \in Threads : Within(t, Critical) /\ Within(u, Critical) => t = u

\* Double-checked locking: no second object of a static is ever built.
OneObject == \A s \in Statics : objects[s] <= 1

\* "Partially initialized ManagedStatic!?" and "ManagedStatic not initialized
\* correctly!" never fail, and no dereference yields null or a deleted object.
AssertsHold == ok

\* The statics on the list that starts at s.
Listed(first) ==
  {s \in Statics : \A S \in SUBSET (Statics \cup {Null}) :
     (first \in S /\ \A x \in S \ {Null} : NextStatic[x] \in S) => s \in S}

BeingLinked   == {s \in Statics : \E t \in Threads : At(t, "link") /\ Top(t).of = s}
BeingDeleted  == {s \in Statics : \E t \in Threads : \E i \in 1..Len(stack[t]) :
                    stack[t][i].at = "delete" /\ stack[t][i].of = s}

\* llvm_shutdown can reach every object: the list holds exactly the statics
\* that are set up, but for one being registered or torn down, and what a
\* static's constructor used lies behind it.
ListIntact ==
  /\ Listed(StaticList) = Ptr \ (BeingLinked \cup BeingDeleted)
  /\ \A s \in Listed(StaticList) : CreatorUses[s] \subseteq Listed(NextStatic[s])

\* llvm_shutdown: "Deallocate and destroy all ManagedStatic variables", also
\* those that destructors bring back to life during it.
ShutdownClean ==
  [][\A t \in Threads : ShutdownDone(t) =>
       /\ Ptr' = {} /\ DeleterFn' = {}
       /\ \A s \in Statics : objects'[s] = 0 /\ NextStatic'[s] = Null]_vars

\* Every call of t returns.  The lock need not be fair for that: a thread
\* waits for it only while other threads create statics, each of them once.
CallReturns(t) == ~ Idle(t) ~> Idle(t)

\* The objects come and go as users of ManagedStatic rely on.
Objects == INSTANCE LazyObjects WITH alive <- {s \in Statics : objects[s] > 0}

ObjectsSpec == Objects!Spec

\* An object never outlives one its constructor was given, neither during a
\* shutdown nor through a destructor that brings statics back to life.
NoneDangles == Objects!NoneDangles

-----------------------------------------------------------------------------
(* The inductive invariant *)

\* Calls lie on each other as constructors and destructors nest: below the
\* top only these wait, and each for a static that it uses.
Shape(calls) ==
  /\ calls \in Seq(Calls)
  /\ \A i \in 1..Len(calls) :
       LET call == calls[i] IN
       /\ call.at = "shutdown" <=> call.of = Null
       /\ call.at = "shutdown" => i = 1
       /\ call.at = "delete" => i = 2 /\ calls[1].at = "shutdown"
       /\ call.at = "create" => call.left \subseteq CreatorUses[call.of]
       /\ call.at = "delete" => call.left \subseteq DeleterUses[call.of]
       /\ i < Len(calls) =>
            /\ call.at \in {"create", "delete", "shutdown"}
            /\ call.at = "shutdown" => calls[i + 1].at = "delete"
            /\ call.at = "create" => calls[i + 1].of \in CreatorUses[call.of] \ call.left
            /\ call.at = "delete" => calls[i + 1].of \in DeleterUses[call.of]

\* A thread is alone before llvm_start_multithreaded and in llvm_shutdown.
Alone(t)  == ~ multithreaded \/ stack[t][1].at = "shutdown"
Isolation == \A t, u \in Threads : ~ Idle(t) /\ ~ Idle(u) /\ Alone(t) => t = u

\* How often the calls of a stack hold the lock, given that all calls under
\* the top are constructors, but for a shutdown and its destructor.
Outside(calls) == IF Len(calls) > 0 /\ calls[1].at = "shutdown" THEN 2 ELSE 0
Held(calls) ==
  LET n == Len(calls) - Outside(calls)
  IN IF n <= 0 THEN 0 ELSE IF calls[Len(calls)].at \in Critical THEN n ELSE n - 1

LockCounts ==
  IF ~ multithreaded \/ lock = Free
  THEN lock = Free /\ (multithreaded => \A t \in Threads : Held(stack[t]) = 0)
  ELSE \E t \in Threads :
         /\ lock = [owner |-> t, depth |-> Held(stack[t])] /\ lock.depth > 0
         /\ \A u \in Threads \ {t} : Held(stack[u]) = 0

BeingPublished == {s \in Statics : \E t \in Threads : At(t, "publish") /\ Top(t).of = s}

OnList == DeleterFn \ BeingDeleted

\* What a call knows of its static, and a constructor of those it has used.
CallsRight ==
  \A t \in Threads : \A i \in 1..Len(stack[t]) :
    LET call == stack[t][i] IN
    /\ call.at \in {"create", "publish"} => call.of \notin Ptr
    /\ call.at = "register" /\ ~ multithreaded => call.of \notin Ptr
    /\ call.at \in {"link", "release", "use", "delete"} => call.of \in Ptr
    /\ call.at \in {"publish", "link"} => CreatorUses[call.of] \subseteq OnList
    /\ call.at = "create" =>
         \A u \in CreatorUses[call.of] \ call.left :
           u \in OnList \/ (i < Len(stack[t]) /\ stack[t][i + 1].of = u)

PointersRight ==
  /\ objects = [s \in Statics |-> IF s \in Ptr \cup BeingPublished THEN 1 ELSE 0]
  /\ DeleterFn = Ptr \ BeingLinked
  /\ Ptr \subseteq Statics

\* No two statics have the same Next, and none has the head of the list.
ListRight ==
  /\ StaticList \in OnList \cup {Null}
  /\ NextStatic \in [Statics -> OnList \cup {Null}]
  /\ \A s \in Statics \ OnList : NextStatic[s] = Null
  /\ \A s, r \in OnList : NextStatic[s] = NextStatic[r] /\ NextStatic[s] # Null => s = r
  /\ \A s \in OnList : NextStatic[s] # StaticList
  /\ OnList \subseteq Listed(StaticList)
  /\ \A s \in OnList : CreatorUses[s] \subseteq Listed(NextStatic[s])

\* What ManagedStaticProofs shows every step to preserve: where each thread is
\* determines who holds the lock, what is set up and what is on the list.
IInv ==
  /\ multithreaded \in BOOLEAN
  /\ stack \in [Threads -> Seq(Calls)]
  /\ \A t \in Threads : Shape(stack[t])
  /\ Isolation
  /\ LockCounts
  /\ CallsRight
  /\ PointersRight
  /\ ListRight
  /\ ok = TRUE
=============================================================================
