-------------------------- MODULE JITResolverProofs --------------------------
(***************************************************************************)
(* Theorems about JITResolver, for any threads and functions that call     *)
(* each other in any way.  Where clients only ask for functions and call   *)
(* them: no call is lost, functions are compiled once, and the resolver    *)
(* implements OnDemandCalls.  Where they also free code, compile it again, *)
(* ask for stubs and wait for reports: types, the maps of stubs, what is   *)
(* published, what is reported and what the resolver knows, where one      *)
(* thread does all this if code is freed; and, with lazy compilation and   *)
(* nothing freed, that no call is lost.                                    *)
(***************************************************************************)
EXTENDS JITResolver, TLAPS

\* Clients ask for functions and call them, and no stub goes with its last
\* reference.
Plain == ClientOps = {} /\ DlsymStubs = FALSE

\* The thread that holds the lock compiles: what it is at, and for whom.
Holding == {"start", "emit", "restub", "next"}
Phase == IF lock = NoThread THEN "free" ELSE th[lock].pc
Asked == IF lock = NoThread THEN NoFunction ELSE th[lock].want

LockRight == \A t \in Threads :
  /\ th[t].pc \in Holding <=> lock = t
  /\ th[t].pc \notin {"stub", "rejit", "free", "crashed", "null", "dead", "unknown"}
  /\ th[t].after \in {"call", "erase"}

\* The compilation under the lock: what it works on is not compiled yet, and
\* what it was asked for is this or is done.
JobRight == Phase # "free" =>
  /\ job.fn \in Functions \ External
  /\ Phase = "start" => \A c \in Codes : GlobalAddress[job.fn] = c => ~Live(c)
  /\ Phase = "emit" => /\ job.body \in Codes /\ GlobalAddress[job.fn] = job.body
                       /\ code[job.body].state = "emitting" /\ code[job.body].fn = job.fn
  /\ Phase \in {"restub", "next"} => GlobalAddress[job.fn] \in Codes /\ Live(GlobalAddress[job.fn])
  /\ Phase # "next" /\ job.queued =>
       FunctionToStub[job.fn] \in Stubs /\ stub[FunctionToStub[job.fn]] = Null
  /\ Phase = "restub" => job.queued
  /\ \/ Asked = job.fn
     \/ Asked \in Functions /\ GlobalAddress[Asked] \in Codes /\ Live(GlobalAddress[Asked])

\* Functions with finished code are in the global map with it.
CodeRight == \A c \in Codes :
  /\ code[c].state = "emitting" => Phase = "emit" /\ c = job.body
  /\ Live(c) => code[c].fn \in Functions \ External /\ GlobalAddress[code[c].fn] = c

\* What the global map holds.
Queue == {PendingFunctions[i] : i \in DOMAIN PendingFunctions}
MapRight == \A f \in Functions :
  /\ f \in External =>
       GlobalAddress[f] \in {Null, Outside} \cup {s \in Stubs : stub[s] = Outside}
  /\ f \notin External =>
       /\ GlobalAddress[f] # Outside
       /\ GlobalAddress[f] \in Stubs => f \in Queue \/ (f = job.fn /\ job.queued /\ Phase = "start")
  /\ GlobalAddress[f] \in Codes =>
       /\ code[GlobalAddress[f]].fn = f
       /\ Live(GlobalAddress[f]) \/ (f = job.fn /\ Phase \in {"start", "emit"})
  /\ GlobalAddress[f] \in Stubs => FunctionToStub[f] = GlobalAddress[f]

\* What a stub jumps to.  One that jumps nowhere is that of a function on the
\* work list, or just taken off it.
StubRight ==
  /\ \A g \in Functions : FunctionToStub[g] # Null =>
       stub[FunctionToStub[g]] # Unused /\ StubToFunction[FunctionToStub[g]] = g
  /\ \A s \in Stubs :
       /\ stub[s] # Unused => StubToFunction[s] \in Functions
       /\ stub[s] \notin Stubs
       /\ stub[s] \in Codes => Live(stub[s]) /\ code[stub[s]].fn = StubToFunction[s]
       /\ stub[s] # Unused => (stub[s] = Outside <=> StubToFunction[s] \in External)
       /\ stub[s] = Null =>
            /\ FunctionToStub[StubToFunction[s]] = s
            /\ \/ StubToFunction[s] \in Queue
               \/ StubToFunction[s] = job.fn /\ job.queued /\ Phase \in {"start", "emit", "restub"}

\* The work list has each function once, not yet compiled.
QueueRight ==
  /\ Phase = "free" => PendingFunctions = <<>>
  /\ \A i \in DOMAIN PendingFunctions : LET f == PendingFunctions[i] IN
       /\ f \notin External /\ GlobalAddress[f] \in Stubs /\ stub[GlobalAddress[f]] = Null
       /\ Phase = "start" => f # job.fn
  /\ \A i, j \in DOMAIN PendingFunctions : PendingFunctions[i] = PendingFunctions[j] => i = j

\* What code refers to, also while it is emitted.
RefRight(c, g, a) ==
  \/ a = Null
  \/ a = Outside /\ g \in External
  \/ a \in Codes /\ code[a].fn = g /\ (a = c \/ Live(a))
  \/ a \in Stubs /\ stub[a] # Unused /\ StubToFunction[a] = g
RefsRight == \A c \in Codes, g \in Functions :
  /\ code[c].state = "none" => code[c].refs[g] = Null
  /\ code[c].state \in {"emitting", "done"} => RefRight(c, g, code[c].refs[g])

\* A call of g may go to address a, when the code that may run is S.
Leads(S, s) == stub[s] \in S \cup {Outside, Resolver, Torn}
Good(S, a, g) ==
  \/ a = Outside /\ g \in External
  \/ a \in S /\ code[a].fn = g
  \/ a \in Stubs /\ StubToFunction[a] = g /\ Leads(S, a)

\* Code that may run is finished and refers to what may be called.
Runnable(S) ==
  /\ S \subseteq Codes /\ \A c \in S : Live(c)
  /\ \A c \in S, g \in Functions : code[c].refs[g] # Null => Good(S, code[c].refs[g], g)
  /\ Phase = "free" => \A c \in Codes : Live(c) => c \in S

\* Where a thread that runs code, or waits in a stub for the resolver, can be.
InStub(pc, after) ==
  \/ pc \in {"lookup", "check", "erase", "patch", "mend"}
  \/ pc \in Holding \cup {"acquire"} /\ after = "erase"
PlaceRight(S, pc, at, callee, want, after, res) ==
  /\ pc # "idle" => callee \in Functions
  /\ pc = "run" => Good(S, at, callee)
  /\ pc = "body" => at \in S
  /\ InStub(pc, after) => /\ at \in Stubs /\ Leads(S, at) /\ stub[at] # Outside
                          /\ StubToFunction[at] = callee
  /\ pc \in Holding \cup {"acquire", "check", "erase", "patch", "mend"} => want = callee
  /\ pc \in {"erase", "patch", "mend"} => res \in S /\ code[res].fn = callee
ThreadRight(S, t) ==
  PlaceRight(S, th[t].pc, th[t].at, th[t].callee, th[t].want, th[t].after, th[t].res)
ThreadsRight(S) == \A t \in Threads : ThreadRight(S, t)

NoUses == \A f \in Functions : CurFnStubUses[f] = {}

Compiling == JobRight /\ CodeRight /\ MapRight /\ StubRight /\ QueueRight /\ RefsRight

Right(S) == TypeOK /\ LockRight /\ NoUses /\ Compiling /\ Runnable(S) /\ ThreadsRight(S)

IInv == \E S \in SUBSET Codes : Right(S)

-----------------------------------------------------------------------------
(***************************************************************************)
(* Addresses, and what the steps of a thread change of it.                 *)
(***************************************************************************)
LEMMA Addresses ==
  /\ Address = {Null, Outside} \cup Stubs \cup Codes
  /\ Null \notin Stubs /\ Null \notin Codes /\ Outside \notin Stubs /\ Outside \notin Codes
  /\ Null # Outside /\ \A a \in Stubs : a \notin Codes
  /\ Resolver \notin Address /\ Torn \notin Address /\ Unused \notin Address
  /\ Resolver # Torn /\ Resolver # Unused /\ Torn # Unused
BY JITResolverAssumption DEF Address, Null, Outside, Stubs, Codes, Resolver, Torn, Unused

\* The thread t goes to pc, with the locals that are named.
Goes(t, pc, at, callee, want, after, res) ==
  /\ th' \in [Threads -> ThreadState]
  /\ \A u \in Threads : u # t => th'[u] = th[u]
  /\ th'[t].pc = pc /\ th'[t].at = at /\ th'[t].callee = callee
  /\ th'[t].want = want /\ th'[t].after = after /\ th'[t].res = res

PCs == {"idle", "run", "acquire", "stub", "rejit", "start", "emit", "restub", "next",
        "free", "body", "lookup", "check", "erase", "patch", "mend",
        "null", "dead", "torn", "unknown", "crashed"}

LEMMA Locals ==
  ASSUME TypeOK, NEW t \in Threads
  PROVE  /\ th[t].pc \in PCs /\ th[t].at \in Address /\ th[t].callee \in Functions \cup {NoFunction}
         /\ th[t].want \in Functions \cup {NoFunction}
         /\ th[t].after \in {"call", "erase", "report", "relink"} /\ th[t].res \in Address
BY DEF TypeOK, ThreadState, PCs

LEMMA GoesTo ==
  ASSUME TypeOK, NEW t \in Threads, NEW r \in ThreadState, th' = [th EXCEPT ![t] = r]
  PROVE  Goes(t, r.pc, r.at, r.callee, r.want, r.after, r.res)
BY DEF TypeOK, Goes

LEMMA GotoGoes ==
  ASSUME TypeOK, NEW t \in Threads, NEW pc \in PCs, Goto(t, pc)
  PROVE  Goes(t, pc, th[t].at, th[t].callee, th[t].want, th[t].after, th[t].res)
<1>. DEFINE r == [th[t] EXCEPT !.pc = pc]
<1>1. th \in [Threads -> ThreadState]
  BY DEF TypeOK
<1>2. /\ r \in ThreadState /\ r.pc = pc /\ r.at = th[t].at /\ r.callee = th[t].callee
      /\ r.want = th[t].want /\ r.after = th[t].after /\ r.res = th[t].res
  BY <1>1 DEF ThreadState, PCs
<1>3. th' = [th EXCEPT ![t] = r]
  BY DEF Goto
<1>. HIDE DEF r
<1>. QED BY <1>1, <1>2, <1>3 DEF Goes

LEMMA ReturnGoes ==
  ASSUME TypeOK, NEW t \in Threads, NEW a \in Address, Return(t, a)
  PROVE  /\ th[t].after = "call" =>
              Goes(t, "run", a, th[t].callee, th[t].want, th[t].after, th[t].res)
         /\ th[t].after = "erase" =>
              Goes(t, "erase", th[t].at, th[t].callee, th[t].want, th[t].after, a)
<1>0. th \in [Threads -> ThreadState]
  BY DEF TypeOK
<1>1. ASSUME th[t].after = "call"
      PROVE  Goes(t, "run", a, th[t].callee, th[t].want, th[t].after, th[t].res)
  <2>. DEFINE r == [th[t] EXCEPT !.pc = "run", !.at = a]
  <2>1. th' = [th EXCEPT ![t] = r]
    BY <1>1 DEF Return
  <2>2. /\ r \in ThreadState /\ r.pc = "run" /\ r.at = a /\ r.callee = th[t].callee
        /\ r.want = th[t].want /\ r.after = th[t].after /\ r.res = th[t].res
    BY <1>0 DEF ThreadState
  <2>. HIDE DEF r
  <2>. QED BY <1>0, <2>1, <2>2 DEF Goes
<1>2. ASSUME th[t].after = "erase"
      PROVE  Goes(t, "erase", th[t].at, th[t].callee, th[t].want, th[t].after, a)
  <2>. DEFINE r == [th[t] EXCEPT !.pc = "erase", !.res = a]
  <2>1. th' = [th EXCEPT ![t] = r]
    BY <1>2 DEF Return
  <2>2. /\ r \in ThreadState /\ r.pc = "erase" /\ r.at = th[t].at /\ r.callee = th[t].callee
        /\ r.want = th[t].want /\ r.after = th[t].after /\ r.res = a
    BY <1>0 DEF ThreadState
  <2>. HIDE DEF r
  <2>. QED BY <1>0, <2>1, <2>2 DEF Goes
<1>. QED BY <1>1, <1>2

\* Steps of the threads that do not compile.
LEMMA GetPointerGoes ==
  ASSUME TypeOK, NEW t \in Threads, NEW f \in Functions, GetPointerToFunction(t, f)
  PROVE  \/ GlobalAddress[f] # Null /\ Goes(t, "run", GlobalAddress[f], f, NoFunction, "call", Null)
         \/ GlobalAddress[f] = Null /\ Goes(t, "acquire", Null, f, f, "call", Null)
<1>1. Null \in Address /\ GlobalAddress[f] \in Address
  BY Addresses DEF TypeOK
<1>2. CASE GlobalAddress[f] # Null
  <2>. DEFINE r == [Idle EXCEPT !.callee = f, !.pc = "run", !.at = GlobalAddress[f]]
  <2>1. th' = [th EXCEPT ![t] = r]
    BY <1>2 DEF GetPointerToFunction
  <2>2. /\ r \in ThreadState /\ r.pc = "run" /\ r.at = GlobalAddress[f] /\ r.callee = f
        /\ r.want = NoFunction /\ r.after = "call" /\ r.res = Null
    BY <1>1 DEF Idle, ThreadState
  <2>3. Goes(t, "run", GlobalAddress[f], f, NoFunction, "call", Null)
    <3>. HIDE DEF r
    <3>. QED BY <2>1, <2>2, GoesTo
  <2>. QED BY <1>2, <2>3
<1>3. CASE GlobalAddress[f] = Null
  <2>. DEFINE r == [Idle EXCEPT !.callee = f, !.pc = "acquire", !.want = f]
  <2>1. th' = [th EXCEPT ![t] = r]
    BY <1>3 DEF GetPointerToFunction
  <2>2. /\ r \in ThreadState /\ r.pc = "acquire" /\ r.at = Null /\ r.callee = f
        /\ r.want = f /\ r.after = "call" /\ r.res = Null
    BY <1>1 DEF Idle, ThreadState
  <2>3. Goes(t, "acquire", Null, f, f, "call", Null)
    <3>. HIDE DEF r
    <3>. QED BY <2>1, <2>2, GoesTo
  <2>. QED BY <1>3, <2>3
<1>. QED BY <1>2, <1>3

LEMMA RunGoes ==
  ASSUME TypeOK, NEW t \in Threads, Run(t), NEW a, a = th[t].at
  PROVE  /\ a = Outside => Goes(t, "idle", Null, NoFunction, NoFunction, "call", Null)
         /\ a \in Codes /\ Live(a) => Goes(t, "body", th[t].at, th[t].callee, th[t].want, th[t].after, th[t].res)
         /\ a \in Stubs /\ stub[a] = Resolver => Goes(t, "lookup", th[t].at, th[t].callee, th[t].want, th[t].after, th[t].res)
         /\ a \in Stubs /\ stub[a] = Torn => Goes(t, "torn", th[t].at, th[t].callee, th[t].want, th[t].after, th[t].res)
         /\ a \in Stubs /\ stub[a] \in Address => Goes(t, "run", stub[a], th[t].callee, th[t].want, th[t].after, th[t].res)
<1>0. /\ th \in [Threads -> ThreadState] /\ Null \in Address /\ th[t] \in ThreadState
  BY Addresses DEF TypeOK
<1>1. th' = [th EXCEPT ![t] =
       CASE a = Null        -> [th[t] EXCEPT !.pc = "null"]
         [] a = Outside     -> Idle
         [] a \in Codes     -> [th[t] EXCEPT !.pc = IF code[a].state = "done" THEN "body" ELSE "dead"]
         [] a \in Stubs     -> CASE stub[a] = Resolver -> [th[t] EXCEPT !.pc = "lookup"]
                                 [] stub[a] = Torn     -> [th[t] EXCEPT !.pc = "torn"]
                                 [] OTHER              -> [th[t] EXCEPT !.at = stub[a]]]
  BY DEF Run
<1>2. th[t].pc = "run"
  BY DEF Run, At
<1>3. ASSUME a = Outside PROVE Goes(t, "idle", Null, NoFunction, NoFunction, "call", Null)
  <2>. DEFINE r == Idle
  <2>1. th' = [th EXCEPT ![t] = r]
    BY <1>1, <1>3, Addresses
  <2>2. /\ r \in ThreadState /\ r.pc = "idle" /\ r.at = Null /\ r.callee = NoFunction
        /\ r.want = NoFunction /\ r.after = "call" /\ r.res = Null
    BY <1>0 DEF Idle, ThreadState
  <2>3. Goes(t, "idle", Null, NoFunction, NoFunction, "call", Null)
    <3>. HIDE DEF r
    <3>. QED BY <2>1, <2>2, GoesTo
  <2>. QED BY <2>3
<1>4. ASSUME a \in Codes /\ Live(a) PROVE Goes(t, "body", th[t].at, th[t].callee, th[t].want, th[t].after, th[t].res)
  <2>. DEFINE r == [th[t] EXCEPT !.pc = "body"]
  <2>1. th' = [th EXCEPT ![t] = r]
    BY <1>1, <1>4, Addresses DEF Live
  <2>2. /\ r \in ThreadState /\ r.pc = "body" /\ r.at = th[t].at /\ r.callee = th[t].callee
        /\ r.want = th[t].want /\ r.after = th[t].after /\ r.res = th[t].res
    BY <1>0 DEF ThreadState
  <2>3. Goes(t, "body", th[t].at, th[t].callee, th[t].want, th[t].after, th[t].res)
    <3>. HIDE DEF r
    <3>. QED BY <2>1, <2>2, GoesTo
  <2>. QED BY <2>3
<1>5. ASSUME a \in Stubs /\ stub[a] = Resolver PROVE Goes(t, "lookup", th[t].at, th[t].callee, th[t].want, th[t].after, th[t].res)
  <2>. DEFINE r == [th[t] EXCEPT !.pc = "lookup"]
  <2>1. th' = [th EXCEPT ![t] = r]
    BY <1>1, <1>5, Addresses
  <2>2. /\ r \in ThreadState /\ r.pc = "lookup" /\ r.at = th[t].at /\ r.callee = th[t].callee
        /\ r.want = th[t].want /\ r.after = th[t].after /\ r.res = th[t].res
    BY <1>0 DEF ThreadState
  <2>3. Goes(t, "lookup", th[t].at, th[t].callee, th[t].want, th[t].after, th[t].res)
    <3>. HIDE DEF r
    <3>. QED BY <2>1, <2>2, GoesTo
  <2>. QED BY <2>3
<1>6. ASSUME a \in Stubs /\ stub[a] = Torn PROVE Goes(t, "torn", th[t].at, th[t].callee, th[t].want, th[t].after, th[t].res)
  <2>. DEFINE r == [th[t] EXCEPT !.pc = "torn"]
  <2>1. th' = [th EXCEPT ![t] = r]
    BY <1>1, <1>6, Addresses
  <2>2. /\ r \in ThreadState /\ r.pc = "torn" /\ r.at = th[t].at /\ r.callee = th[t].callee
        /\ r.want = th[t].want /\ r.after = th[t].after /\ r.res = th[t].res
    BY <1>0 DEF ThreadState
  <2>3. Goes(t, "torn", th[t].at, th[t].callee, th[t].want, th[t].after, th[t].res)
    <3>. HIDE DEF r
    <3>. QED BY <2>1, <2>2, GoesTo
  <2>. QED BY <2>3
<1>7. ASSUME a \in Stubs /\ stub[a] \in Address PROVE Goes(t, "run", stub[a], th[t].callee, th[t].want, th[t].after, th[t].res)
  <2>. DEFINE r == [th[t] EXCEPT !.at = stub[a]]
  <2>1. th' = [th EXCEPT ![t] = r]
    BY <1>1, <1>7, Addresses
  <2>2. /\ r \in ThreadState /\ r.pc = "run" /\ r.at = stub[a] /\ r.callee = th[t].callee
        /\ r.want = th[t].want /\ r.after = th[t].after /\ r.res = th[t].res
    BY <1>0, <1>2, <1>7 DEF ThreadState
  <2>3. Goes(t, "run", stub[a], th[t].callee, th[t].want, th[t].after, th[t].res)
    <3>. HIDE DEF r
    <3>. QED BY <2>1, <2>2, GoesTo
  <2>. QED BY <2>3
<1>. QED BY <1>3, <1>4, <1>5, <1>6, <1>7

LEMMA CallGoes ==
  ASSUME TypeOK, NEW t \in Threads, Call(t), th[t].at \in Codes
  PROVE  \E g \in Functions :
           /\ code[th[t].at].refs[g] # Null
           /\ Goes(t, "run", code[th[t].at].refs[g], g, NoFunction, "call", Null)
<1>1. PICK g \in Functions :
        /\ code[th[t].at].refs[g] # Null
        /\ th' = [th EXCEPT ![t] = [Idle EXCEPT !.pc = "run", !.callee = g, !.at = code[th[t].at].refs[g]]]
  BY DEF Call
<1>. DEFINE a == code[th[t].at].refs[g]
<1>0. a \in Address /\ Null \in Address
  <2>1. code[th[t].at].refs \in [Functions -> Address]
    BY DEF TypeOK
  <2>. QED BY <2>1, Addresses
<1>. HIDE DEF a
<1>2. Goes(t, "run", a, g, NoFunction, "call", Null)
  <2>. DEFINE r == [Idle EXCEPT !.pc = "run", !.callee = g, !.at = a]
  <2>1. th' = [th EXCEPT ![t] = r]
    BY <1>1 DEF a
  <2>2. /\ r \in ThreadState /\ r.pc = "run" /\ r.at = a /\ r.callee = g
        /\ r.want = NoFunction /\ r.after = "call" /\ r.res = Null
    BY <1>0 DEF Idle, ThreadState
  <2>3. Goes(t, "run", a, g, NoFunction, "call", Null)
    <3>. HIDE DEF r
    <3>. QED BY <2>1, <2>2, GoesTo
  <2>. QED BY <2>3
<1>. QED BY <1>1, <1>2 DEF a

LEMMA ReturnFromBodyGoes ==
  ASSUME TypeOK, NEW t \in Threads, ReturnFromBody(t)
  PROVE  Goes(t, "idle", Null, NoFunction, NoFunction, "call", Null)
<1>0. Null \in Address
  BY Addresses
<1>. DEFINE r == Idle
<1>1. th' = [th EXCEPT ![t] = r]
  BY DEF ReturnFromBody
<1>2. /\ r \in ThreadState /\ r.pc = "idle" /\ r.at = Null /\ r.callee = NoFunction
      /\ r.want = NoFunction /\ r.after = "call" /\ r.res = Null
  BY <1>0 DEF Idle, ThreadState
<1>3. Goes(t, "idle", Null, NoFunction, NoFunction, "call", Null)
  <2>. HIDE DEF r
  <2>. QED BY <1>1, <1>2, GoesTo
<1>. QED BY <1>3

LEMMA FindStubGoes ==
  ASSUME TypeOK, NEW t \in Threads, FindStub(t), th[t].at \in Stubs, StubToFunction[th[t].at] \in Functions
  PROVE  Goes(t, "check", th[t].at, th[t].callee, StubToFunction[th[t].at], th[t].after, th[t].res)
<1>. DEFINE a == th[t].at
<1>0. th[t] \in ThreadState /\ a \in Stubs /\ StubToFunction[a] \in Functions /\ Stubs \subseteq Nat
  BY DEF TypeOK, Stubs
<1>1. a \in Candidates(a)
  <2>1. a \in Nat /\ StubToFunction[a] # NoFunction
    BY <1>0, JITResolverAssumption
  <2>. HIDE DEF a
  <2>. QED BY <1>0, <2>1 DEF Candidates
<1>2. PICK s \in Candidates(a) :
        /\ \A r \in Candidates(a) : r <= s
        /\ th' = [th EXCEPT ![t].pc = "check", ![t].want = StubToFunction[s]]
  BY <1>1 DEF FindStub
<1>3. s = a
  BY <1>0, <1>1, <1>2 DEF Candidates
<1>4. Goes(t, "check", th[t].at, th[t].callee, StubToFunction[a], th[t].after, th[t].res)
  <2>. DEFINE r == [th[t] EXCEPT !.pc = "check", !.want = StubToFunction[a]]
  <2>1. th' = [th EXCEPT ![t] = r]
    BY <1>2, <1>3 DEF TypeOK
  <2>2. /\ r \in ThreadState /\ r.pc = "check" /\ r.at = th[t].at /\ r.callee = th[t].callee
        /\ r.want = StubToFunction[a] /\ r.after = th[t].after /\ r.res = th[t].res
    BY <1>0 DEF ThreadState
  <2>3. Goes(t, "check", th[t].at, th[t].callee, StubToFunction[a], th[t].after, th[t].res)
    <3>. HIDE DEF r
    <3>. QED BY <2>1, <2>2, GoesTo
  <2>. QED BY <2>3
<1>. QED BY <1>4

LEMMA CheckCompiledGoes ==
  ASSUME TypeOK, NEW t \in Threads, CheckCompiled(t), NEW f \in Functions, f = th[t].want
  PROVE  \/ GlobalAddress[f] # Null /\ Goes(t, "erase", th[t].at, th[t].callee, th[t].want, th[t].after, GlobalAddress[f])
         \/ GlobalAddress[f] = Null /\ Goes(t, "acquire", th[t].at, th[t].callee, th[t].want, "erase", th[t].res)
<1>0. th[t] \in ThreadState /\ GlobalAddress[f] \in Address
  BY DEF TypeOK
<1>1. CASE GlobalAddress[f] # Null
  <2>. DEFINE r == [th[t] EXCEPT !.pc = "erase", !.res = GlobalAddress[f]]
  <2>1. th' = [th EXCEPT ![t] = r]
    BY <1>1 DEF CheckCompiled
  <2>2. /\ r \in ThreadState /\ r.pc = "erase" /\ r.at = th[t].at /\ r.callee = th[t].callee
        /\ r.want = th[t].want /\ r.after = th[t].after /\ r.res = GlobalAddress[f]
    BY <1>0 DEF ThreadState
  <2>3. Goes(t, "erase", th[t].at, th[t].callee, th[t].want, th[t].after, GlobalAddress[f])
    <3>. HIDE DEF r
    <3>. QED BY <2>1, <2>2, GoesTo
  <2>. QED BY <1>1, <2>3
<1>2. CASE GlobalAddress[f] = Null
  <2>. DEFINE r == [th[t] EXCEPT !.pc = "acquire", !.after = "erase"]
  <2>1. th' = [th EXCEPT ![t] = r]
    BY <1>2 DEF CheckCompiled
  <2>2. /\ r \in ThreadState /\ r.pc = "acquire" /\ r.at = th[t].at /\ r.callee = th[t].callee
        /\ r.want = th[t].want /\ r.after = "erase" /\ r.res = th[t].res
    BY <1>0 DEF ThreadState
  <2>3. Goes(t, "acquire", th[t].at, th[t].callee, th[t].want, "erase", th[t].res)
    <3>. HIDE DEF r
    <3>. QED BY <2>1, <2>2, GoesTo
  <2>. QED BY <1>2, <2>3
<1>. QED BY <1>1, <1>2
LEMMA FinishGoes ==
  ASSUME TypeOK, NEW t \in Threads, FinishFunction(t), th[t].after \in {"call", "erase"}
  PROVE  /\ job.queued => Goes(t, "restub", th[t].at, th[t].callee, th[t].want, th[t].after, th[t].res)
         /\ ~job.queued => Goes(t, "next", th[t].at, th[t].callee, th[t].want, th[t].after, th[t].res)
<1>0. th[t] \in ThreadState
  BY DEF TypeOK
<1>1. ASSUME NEW pc \in {"restub", "next"}, th' = [th EXCEPT ![t].pc = pc, ![t].res = th[t].res]
      PROVE  Goes(t, pc, th[t].at, th[t].callee, th[t].want, th[t].after, th[t].res)
  <2>. DEFINE r == [th[t] EXCEPT !.pc = pc, !.res = th[t].res]
  <2>1. th' = [th EXCEPT ![t] = r]
    BY <1>1 DEF TypeOK
  <2>2. /\ r \in ThreadState /\ r.pc = pc /\ r.at = th[t].at /\ r.callee = th[t].callee
        /\ r.want = th[t].want /\ r.after = th[t].after /\ r.res = th[t].res
    BY <1>0 DEF ThreadState
  <2>3. Goes(t, pc, th[t].at, th[t].callee, th[t].want, th[t].after, th[t].res)
    <3>. HIDE DEF r
    <3>. QED BY <2>1, <2>2, GoesTo
  <2>. QED BY <2>3
<1>2. th' = [th EXCEPT ![t].pc = IF job.queued THEN "restub" ELSE "next", ![t].res = th[t].res]
  BY DEF FinishFunction
<1>3. CASE job.queued
  BY <1>1, <1>2, <1>3
<1>4. CASE ~job.queued
  BY <1>1, <1>2, <1>4
<1>. QED BY <1>3, <1>4

-----------------------------------------------------------------------------
(***************************************************************************)
(* What a step leaves as it was.                                           *)
(***************************************************************************)
LEMMA LockKept ==
  ASSUME LockRight, NEW t \in Threads, NEW pc \in PCs, NEW at, NEW callee, NEW want, NEW after, NEW res,
         Goes(t, pc, at, callee, want, after, res),
         pc \notin {"stub", "rejit", "free", "crashed", "null", "dead", "unknown"},
         after \in {"call", "erase"},
         pc \in Holding <=> lock' = t, \A u \in Threads : u # t => (lock' = u <=> lock = u)
  PROVE  LockRight'
BY DEF LockRight, Goes

LEMMA SamePhase ==
  ASSUME TypeOK, LockRight, NEW t \in Threads, th[t].pc \notin Holding,
         NEW pc, NEW at, NEW callee, NEW want, NEW after, NEW res,
         Goes(t, pc, at, callee, want, after, res), lock' = lock
  PROVE  Phase' = Phase /\ Asked' = Asked
<1>1. lock # t
  BY DEF LockRight
<1>2. lock # NoThread => th'[lock] = th[lock]
  BY <1>1 DEF Goes, TypeOK
<1>. QED BY <1>2 DEF Phase, Asked

LEMMA HolderPhase ==
  ASSUME LockRight, NEW t \in Threads, th[t].pc \in Holding
  PROVE  lock = t /\ Phase = th[t].pc /\ Asked = th[t].want
<1>1. lock = t /\ t # NoThread
  BY JITResolverAssumption DEF LockRight
<1>. QED BY <1>1 DEF Phase, Asked

LEMMA HolderPhaseNext ==
  ASSUME NEW t \in Threads, NEW pc, NEW at, NEW callee, NEW want, NEW after, NEW res,
         Goes(t, pc, at, callee, want, after, res), lock' = t
  PROVE  Phase' = pc /\ Asked' = want
BY JITResolverAssumption DEF Phase, Asked, Goes

\* Code that may run, and where stubs lead, is kept.
Keeps(S, T) ==
  /\ S \subseteq T
  /\ \A c \in S : code'[c] = code[c]
  /\ \A s \in Stubs : stub[s] # Unused => StubToFunction'[s] = StubToFunction[s]
  /\ \A s \in Stubs : Leads(S, s) =>
       stub'[s] \in T \cup {Outside, Resolver, Torn} /\ (stub'[s] = Outside => stub[s] = Outside)

LEMMA LeadsUsed ==
  ASSUME NEW S \in SUBSET Codes, NEW s \in Stubs, Leads(S, s)
  PROVE  stub[s] # Unused
BY Addresses DEF Leads, Address

LEMMA GoodKept ==
  ASSUME NEW S \in SUBSET Codes, NEW T \in SUBSET Codes, Keeps(S, T)
  PROVE  \A a, g : Good(S, a, g) => Good(T, a, g)'
<1>. SUFFICES ASSUME NEW a, NEW g, Good(S, a, g) PROVE Good(T, a, g)'
  OBVIOUS
<1>1. CASE a \in Stubs /\ StubToFunction[a] = g /\ Leads(S, a)
  <2>1. StubToFunction'[a] = g /\ stub'[a] \in T \cup {Outside, Resolver, Torn}
    BY <1>1, LeadsUsed DEF Keeps
  <2>. QED BY <1>1, <2>1 DEF Good, Leads
<1>2. CASE a \in S /\ code[a].fn = g
  BY <1>2 DEF Good, Keeps
<1>3. CASE a = Outside /\ g \in External
  BY <1>3 DEF Good
<1>. QED BY <1>1, <1>2, <1>3 DEF Good

LEMMA RunnableKept ==
  ASSUME NEW S \in SUBSET Codes, Runnable(S), Keeps(S, S),
         Phase' = "free" => \A c \in Codes : Live(c)' => c \in S
  PROVE  Runnable(S)'
<1>1. \A c \in S : Live(c)'
  BY DEF Runnable, Keeps, Live
<1>2. ASSUME NEW c \in S, NEW g \in Functions, code'[c].refs[g] # Null
      PROVE  Good(S, code[c].refs[g], g)'
  <2>1. code'[c] = code[c]
    BY DEF Keeps
  <2>2. Good(S, code[c].refs[g], g)
    BY <1>2, <2>1 DEF Runnable
  <2>3. PICK a : a = code[c].refs[g]
    OBVIOUS
  <2>4. Good(S, a, g)'
    BY <2>2, <2>3, GoodKept
  <2>. QED BY <2>1, <2>3, <2>4 DEF Good, Leads
<1>. QED BY <1>1, <1>2 DEF Runnable

LEMMA PlaceKept ==
  ASSUME NEW S \in SUBSET Codes, NEW T \in SUBSET Codes, Keeps(S, T),
         NEW pc, NEW at, NEW callee, NEW want, NEW after, NEW res,
         PlaceRight(S, pc, at, callee, want, after, res)
  PROVE  PlaceRight(T, pc, at, callee, want, after, res)'
<1>1. pc = "run" => Good(T, at, callee)'
  BY GoodKept DEF PlaceRight
<1>2. pc = "body" => at \in T
  BY DEF PlaceRight, Keeps
<1>3. ASSUME InStub(pc, after)
      PROVE  at \in Stubs /\ Leads(T, at)' /\ stub'[at] # Outside /\ StubToFunction'[at] = callee
  <2>1. at \in Stubs /\ Leads(S, at) /\ stub[at] # Outside /\ StubToFunction[at] = callee
    BY <1>3 DEF PlaceRight
  <2>. QED BY <2>1, LeadsUsed DEF Leads, Keeps
<1>4. pc \in {"erase", "patch", "mend"} => res \in T /\ code'[res].fn = callee
  BY DEF PlaceRight, Keeps
<1>. QED BY <1>1, <1>2, <1>3, <1>4 DEF PlaceRight

LEMMA GoesRight ==
  ASSUME NEW S \in SUBSET Codes, NEW T \in SUBSET Codes, Keeps(S, T), NEW t \in Threads,
         NEW pc, NEW at, NEW callee, NEW want, NEW after, NEW res,
         Goes(t, pc, at, callee, want, after, res), PlaceRight(S, pc, at, callee, want, after, res)
  PROVE  ThreadRight(T, t)'
<1>1. PlaceRight(T, pc, at, callee, want, after, res)'
  BY PlaceKept
<1>2. th'[t].pc = pc /\ th'[t].at = at /\ th'[t].callee = callee
      /\ th'[t].want = want /\ th'[t].after = after /\ th'[t].res = res
  BY DEF Goes
<1>. QED BY <1>1, <1>2 DEF ThreadRight, PlaceRight, Good, Leads, InStub

LEMMA OthersRight ==
  ASSUME NEW S \in SUBSET Codes, NEW T \in SUBSET Codes, Keeps(S, T), NEW u \in Threads,
         ThreadRight(S, u), th'[u] = th[u]
  PROVE  ThreadRight(T, u)'
<1>. PICK r : r = th[u]
  OBVIOUS
<1>1. PlaceRight(T, r.pc, r.at, r.callee, r.want, r.after, r.res)'
  <2>1. PlaceRight(S, r.pc, r.at, r.callee, r.want, r.after, r.res)
    BY DEF ThreadRight
  <2>. QED BY <2>1, PlaceKept
<1>. QED BY <1>1 DEF ThreadRight, PlaceRight, Good, Leads, InStub

\* What is left to show of a step of t, once its effect on the rest is known.
LEMMA StepRight ==
  ASSUME NEW S \in SUBSET Codes, NEW T \in SUBSET Codes, ThreadsRight(S), Keeps(S, T), NEW t \in Threads,
         NEW pc, NEW at, NEW callee, NEW want, NEW after, NEW res,
         Goes(t, pc, at, callee, want, after, res), PlaceRight(S, pc, at, callee, want, after, res)
  PROVE  ThreadsRight(T)'
<1>1. ThreadRight(T, t)'
  BY GoesRight
<1>2. ASSUME NEW u \in Threads, u # t PROVE ThreadRight(T, u)'
  <2>1. ThreadRight(S, u) /\ th'[u] = th[u]
    BY <1>2 DEF ThreadsRight, Goes
  <2>. QED BY <2>1, OthersRight
<1>. QED BY <1>1, <1>2 DEF ThreadsRight

LEMMA SameCompiling ==
  ASSUME Compiling, Phase' = Phase, Asked' = Asked, UNCHANGED <<job, maps, memory>>
  PROVE  Compiling'
<1>1. Queue' = Queue
  BY DEF Queue, maps
<1>2. \A c \in Codes : Live(c)' <=> Live(c)
  BY DEF Live, memory
<1>3. JobRight'
  BY <1>2 DEF Compiling, JobRight, maps, memory
<1>4. CodeRight'
  BY <1>2 DEF Compiling, CodeRight, maps, memory
<1>5. MapRight'
  BY <1>1, <1>2 DEF Compiling, MapRight, maps, memory
<1>6. StubRight'
  BY <1>1, <1>2 DEF Compiling, StubRight, maps, memory
<1>7. QueueRight'
  BY DEF Compiling, QueueRight, maps, memory
<1>8. RefsRight'
  BY <1>2 DEF Compiling, RefsRight, RefRight, maps, memory
<1>. QED BY <1>3, <1>4, <1>5, <1>6, <1>7, <1>8 DEF Compiling

LEMMA SameKeeps ==
  ASSUME NEW S \in SUBSET Codes, UNCHANGED <<maps, memory>>
  PROVE  Keeps(S, S)
BY DEF Keeps, Leads, maps, memory

\* A thread that does not compile takes a step of its own.
Quiet(t, pc, at, callee, want, after, res) ==
  /\ Goes(t, pc, at, callee, want, after, res)
  /\ th[t].pc \notin Holding
  /\ pc \in PCs \ ({"stub", "rejit", "free", "crashed", "null", "dead", "unknown"} \cup Holding)
  /\ after \in {"call", "erase"}
  /\ UNCHANGED <<compiler, LazyDisabled, maps, memory, uses>>

LEMMA QuietStep ==
  ASSUME NEW S \in SUBSET Codes, Right(S), NEW t \in Threads,
         NEW pc, NEW at, NEW callee, NEW want, NEW after, NEW res,
         Quiet(t, pc, at, callee, want, after, res),
         PlaceRight(S, pc, at, callee, want, after, res)
  PROVE  Right(S)' /\ Keeps(S, S)
<1>1. Goes(t, pc, at, callee, want, after, res) /\ lock' = lock /\ UNCHANGED <<job, maps, memory>>
  BY DEF Quiet, compiler
<1>2. TypeOK'
  BY <1>1 DEF Right, TypeOK, Goes, Quiet, compiler, maps, memory, uses
<1>3. Phase' = Phase /\ Asked' = Asked
  BY <1>1, SamePhase DEF Right, Quiet
<1>4. LockRight'
  <2>1. pc \in PCs /\ pc \notin {"stub", "rejit", "free", "crashed", "null", "dead", "unknown"}
        /\ after \in {"call", "erase"}
    BY DEF Quiet
  <2>2. pc \notin Holding /\ lock' # t
    BY <1>1 DEF Quiet, Right, LockRight
  <2>3. LockRight
    BY DEF Right
  <2>. QED BY <1>1, <2>1, <2>2, <2>3, LockKept
<1>5. Compiling' /\ NoUses'
  BY <1>1, <1>3, SameCompiling DEF Right, NoUses, Quiet, uses
<1>6. Keeps(S, S)
  BY <1>1, SameKeeps
<1>7. Runnable(S)'
  <2>1. Phase' = "free" => \A c \in Codes : Live(c)' => c \in S
    BY <1>1, <1>3 DEF Live, memory, Right, Runnable
  <2>. QED BY <1>6, <2>1, RunnableKept DEF Right
<1>8. ThreadsRight(S)'
  BY <1>1, <1>6, StepRight DEF Right
<1>. QED BY <1>2, <1>4, <1>5, <1>6, <1>7, <1>8 DEF Right

-----------------------------------------------------------------------------
(***************************************************************************)
(* The steps of threads that do not compile, and change nothing else.      *)
(***************************************************************************)
LEMMA FreeLock ==
  ASSUME lock = NoThread
  PROVE  Phase = "free" /\ Asked = NoFunction
BY DEF Phase, Asked

LEMMA PublishedGood ==
  ASSUME NEW S \in SUBSET Codes, Right(S), lock = NoThread, NEW f \in Functions, GlobalAddress[f] # Null
  PROVE  /\ Good(S, GlobalAddress[f], f)
         /\ f \notin External => GlobalAddress[f] \in S /\ code[GlobalAddress[f]].fn = f
<1>1. Phase = "free" /\ PendingFunctions = <<>>
  BY FreeLock DEF Right, Compiling, QueueRight
<1>2. CASE f \in External
  <2>1. CASE GlobalAddress[f] = Outside
    BY <1>2, <2>1 DEF Good
  <2>2. CASE GlobalAddress[f] \in Stubs /\ stub[GlobalAddress[f]] = Outside
    <3>1. FunctionToStub[f] = GlobalAddress[f] /\ StubToFunction[FunctionToStub[f]] = f
      BY <2>2, Addresses DEF Right, Compiling, MapRight, StubRight
    <3>. QED BY <1>2, <2>2, <3>1 DEF Good, Leads
  <2>. QED BY <1>2, <2>1, <2>2 DEF Right, Compiling, MapRight
<1>3. CASE f \notin External
  <2>1. Queue = {}
    BY <1>1 DEF Queue
  <2>2. GlobalAddress[f] \in Codes
    <3>1. GlobalAddress[f] \notin Stubs /\ GlobalAddress[f] # Outside
      BY <1>1, <1>3, <2>1 DEF Right, Compiling, MapRight
    <3>. QED BY <3>1, Addresses DEF Right, TypeOK
  <2>3. Live(GlobalAddress[f]) /\ code[GlobalAddress[f]].fn = f
    BY <1>1, <2>2 DEF Right, Compiling, MapRight
  <2>4. GlobalAddress[f] \in S
    BY <1>1, <2>2, <2>3 DEF Right, Runnable
  <2>. QED BY <2>3, <2>4 DEF Good
<1>. QED BY <1>2, <1>3

\* A thread in a stub that the resolver rewrites calls a function with a body.
LEMMA InStubInternal ==
  ASSUME NEW S \in SUBSET Codes, Right(S), NEW t \in Threads, InStub(th[t].pc, th[t].after)
  PROVE  /\ th[t].at \in Stubs /\ Leads(S, th[t].at) /\ StubToFunction[th[t].at] = th[t].callee
         /\ th[t].callee \in Functions \ External
<1>1. /\ th[t].at \in Stubs /\ Leads(S, th[t].at) /\ StubToFunction[th[t].at] = th[t].callee
      /\ stub[th[t].at] # Outside
  BY DEF Right, ThreadsRight, ThreadRight, PlaceRight
<1>2. th[t].callee \in Functions
  BY DEF Right, ThreadsRight, ThreadRight, PlaceRight, InStub, Holding
<1>. QED BY <1>1, <1>2, LeadsUsed DEF Right, Compiling, StubRight

LEMMA GetPointerRight ==
  ASSUME NEW S \in SUBSET Codes, Right(S), NEW t \in Threads, NEW f \in Functions,
         GetPointerToFunction(t, f), UNCHANGED LazyDisabled
  PROVE  Right(S)' /\ Keeps(S, S)
<1>1. TypeOK /\ th[t].pc = "idle" /\ lock = NoThread
  BY DEF GetPointerToFunction, At, Right
<1>2. UNCHANGED <<compiler, LazyDisabled, maps, memory, uses>>
  BY DEF GetPointerToFunction
<1>3. CASE GlobalAddress[f] # Null /\ Goes(t, "run", GlobalAddress[f], f, NoFunction, "call", Null)
  <2>1. Quiet(t, "run", GlobalAddress[f], f, NoFunction, "call", Null)
    BY <1>1, <1>2, <1>3 DEF Quiet, Holding, PCs
  <2>2. PlaceRight(S, "run", GlobalAddress[f], f, NoFunction, "call", Null)
    BY <1>1, <1>3, PublishedGood DEF PlaceRight, InStub, Holding
  <2>. QED BY <2>1, <2>2, QuietStep
<1>4. CASE GlobalAddress[f] = Null /\ Goes(t, "acquire", Null, f, f, "call", Null)
  <2>1. Quiet(t, "acquire", Null, f, f, "call", Null)
    BY <1>1, <1>2, <1>4 DEF Quiet, Holding, PCs
  <2>2. PlaceRight(S, "acquire", Null, f, f, "call", Null)
    BY <1>1, <1>4 DEF PlaceRight, InStub, Holding
  <2>. QED BY <2>1, <2>2, QuietStep
<1>. QED BY <1>1, <1>3, <1>4, GetPointerGoes

LEMMA RunRight ==
  ASSUME NEW S \in SUBSET Codes, Right(S), NEW t \in Threads, Run(t), UNCHANGED LazyDisabled
  PROVE  Right(S)' /\ Keeps(S, S)
<1>1. TypeOK /\ th[t].pc = "run"
  BY DEF Run, At, Right
<1>2. UNCHANGED <<compiler, LazyDisabled, maps, memory, uses>>
  BY DEF Run
<1>3. /\ Good(S, th[t].at, th[t].callee) /\ th[t].callee \in Functions
      /\ th[t].after \in {"call", "erase"}
  BY <1>1 DEF Right, ThreadsRight, ThreadRight, PlaceRight, LockRight
<1>. DEFINE at == th[t].at
            callee == th[t].callee
            want == th[t].want
            after == th[t].after
            res == th[t].res
<1>4. CASE at = Outside
  <2>1. Goes(t, "idle", Null, NoFunction, NoFunction, "call", Null)
    BY <1>1, <1>4, RunGoes
  <2>2. Quiet(t, "idle", Null, NoFunction, NoFunction, "call", Null)
    BY <1>1, <1>2, <2>1 DEF Quiet, Holding, PCs
  <2>3. PlaceRight(S, "idle", Null, NoFunction, NoFunction, "call", Null)
    BY DEF PlaceRight, InStub, Holding
  <2>. QED BY <2>2, <2>3, QuietStep
<1>5. CASE at \in S
  <2>1. at \in Codes /\ Live(at)
    BY <1>5 DEF Right, Runnable
  <2>2. Goes(t, "body", at, callee, want, after, res)
    BY <1>1, <2>1, RunGoes
  <2>3. Quiet(t, "body", at, callee, want, after, res)
    BY <1>1, <1>2, <1>3, <2>2 DEF Quiet, Holding, PCs
  <2>4. PlaceRight(S, "body", at, callee, want, after, res)
    BY <1>3, <1>5 DEF PlaceRight, InStub, Holding
  <2>. HIDE DEF at, callee, want, after, res
  <2>. QED BY <2>3, <2>4, QuietStep
<1>6. CASE at \in Stubs /\ StubToFunction[at] = callee /\ Leads(S, at)
  <2>1. CASE stub[at] = Resolver
    <3>1. Goes(t, "lookup", at, callee, want, after, res)
      BY <1>1, <1>6, <2>1, RunGoes
    <3>2. Quiet(t, "lookup", at, callee, want, after, res)
      BY <1>1, <1>2, <1>3, <3>1 DEF Quiet, Holding, PCs
    <3>3. PlaceRight(S, "lookup", at, callee, want, after, res)
      BY <1>3, <1>6, <2>1, Addresses DEF PlaceRight, InStub, Holding
    <3>. HIDE DEF at, callee, want, after, res
    <3>. QED BY <3>2, <3>3, QuietStep
  <2>2. CASE stub[at] = Torn
    <3>1. Goes(t, "torn", at, callee, want, after, res)
      BY <1>1, <1>6, <2>2, RunGoes
    <3>2. Quiet(t, "torn", at, callee, want, after, res)
      BY <1>1, <1>2, <1>3, <3>1 DEF Quiet, Holding, PCs
    <3>3. PlaceRight(S, "torn", at, callee, want, after, res)
      BY <1>3 DEF PlaceRight, InStub, Holding
    <3>. HIDE DEF at, callee, want, after, res
    <3>. QED BY <3>2, <3>3, QuietStep
  <2>3. CASE stub[at] \in S \cup {Outside}
    <3>0. stub[at] \in Address
      BY <2>3, Addresses
    <3>1. Goes(t, "run", stub[at], callee, want, after, res)
      BY <1>1, <1>6, <3>0, RunGoes
    <3>2. Quiet(t, "run", stub[at], callee, want, after, res)
      BY <1>1, <1>2, <1>3, <3>1 DEF Quiet, Holding, PCs
    <3>3. Good(S, stub[at], callee)
      <4>1. stub[at] # Unused
        BY <1>6, LeadsUsed
      <4>2. stub[at] = Outside => callee \in External
        BY <1>6, <4>1 DEF Right, Compiling, StubRight
      <4>3. stub[at] \in S => code[stub[at]].fn = callee
        BY <1>6 DEF Right, Compiling, StubRight
      <4>. QED BY <2>3, <4>2, <4>3 DEF Good
    <3>4. PlaceRight(S, "run", stub[at], callee, want, after, res)
      BY <1>3, <3>3 DEF PlaceRight, InStub, Holding
    <3>. HIDE DEF at, callee, want, after, res
    <3>. QED BY <3>2, <3>4, QuietStep
  <2>. QED BY <1>6, <2>1, <2>2, <2>3 DEF Leads
<1>. QED BY <1>3, <1>4, <1>5, <1>6 DEF Good

LEMMA CallRight ==
  ASSUME NEW S \in SUBSET Codes, Right(S), NEW t \in Threads, Call(t), UNCHANGED LazyDisabled
  PROVE  Right(S)' /\ Keeps(S, S)
<1>1. TypeOK /\ th[t].pc = "body"
  BY DEF Call, At, Right
<1>2. UNCHANGED <<compiler, LazyDisabled, maps, memory, uses>>
  BY DEF Call
<1>3. th[t].at \in S /\ th[t].at \in Codes
  BY <1>1 DEF Right, ThreadsRight, ThreadRight, PlaceRight
<1>4. PICK g \in Functions :
        /\ code[th[t].at].refs[g] # Null
        /\ Goes(t, "run", code[th[t].at].refs[g], g, NoFunction, "call", Null)
  BY <1>1, <1>3, CallGoes
<1>. DEFINE a == code[th[t].at].refs[g]
<1>5. Good(S, a, g)
  BY <1>3, <1>4 DEF Right, Runnable
<1>6. Quiet(t, "run", a, g, NoFunction, "call", Null)
  BY <1>1, <1>2, <1>4 DEF Quiet, Holding, PCs
<1>. HIDE DEF a
<1>7. PlaceRight(S, "run", a, g, NoFunction, "call", Null)
  BY <1>5 DEF PlaceRight, InStub, Holding
<1>. QED BY <1>6, <1>7, QuietStep

LEMMA ReturnFromBodyRight ==
  ASSUME NEW S \in SUBSET Codes, Right(S), NEW t \in Threads, ReturnFromBody(t), UNCHANGED LazyDisabled
  PROVE  Right(S)' /\ Keeps(S, S)
<1>1. TypeOK /\ th[t].pc = "body" /\ UNCHANGED <<compiler, LazyDisabled, maps, memory, uses>>
  BY DEF ReturnFromBody, At, Right
<1>2. Goes(t, "idle", Null, NoFunction, NoFunction, "call", Null)
  BY <1>1, ReturnFromBodyGoes
<1>3. Quiet(t, "idle", Null, NoFunction, NoFunction, "call", Null)
  BY <1>1, <1>2 DEF Quiet, Holding, PCs
<1>4. PlaceRight(S, "idle", Null, NoFunction, NoFunction, "call", Null)
  BY DEF PlaceRight, InStub, Holding
<1>. QED BY <1>3, <1>4, QuietStep

LEMMA FindStubRight ==
  ASSUME NEW S \in SUBSET Codes, Right(S), NEW t \in Threads, FindStub(t), UNCHANGED LazyDisabled
  PROVE  Right(S)' /\ Keeps(S, S)
<1>1. TypeOK /\ th[t].pc = "lookup" /\ UNCHANGED <<compiler, LazyDisabled, maps, memory, uses>>
  BY DEF FindStub, At, Right
<1>2. /\ th[t].at \in Stubs /\ StubToFunction[th[t].at] = th[t].callee /\ Leads(S, th[t].at)
      /\ th[t].callee \in Functions /\ stub[th[t].at] # Outside /\ th[t].after \in {"call", "erase"}
  BY <1>1 DEF Right, ThreadsRight, ThreadRight, PlaceRight, InStub, LockRight
<1>. DEFINE at == th[t].at
            callee == th[t].callee
            after == th[t].after
            res == th[t].res
<1>3. Goes(t, "check", at, callee, callee, after, res)
  BY <1>1, <1>2, FindStubGoes
<1>4. Quiet(t, "check", at, callee, callee, after, res)
  BY <1>1, <1>2, <1>3 DEF Quiet, Holding, PCs
<1>5. PlaceRight(S, "check", at, callee, callee, after, res)
  BY <1>2 DEF PlaceRight
<1>. HIDE DEF at, callee, after, res
<1>. QED BY <1>4, <1>5, QuietStep

LEMMA CheckCompiledRight ==
  ASSUME NEW S \in SUBSET Codes, Right(S), NEW t \in Threads, CheckCompiled(t), UNCHANGED LazyDisabled
  PROVE  Right(S)' /\ Keeps(S, S)
<1>1. /\ TypeOK /\ th[t].pc = "check" /\ lock = NoThread
      /\ UNCHANGED <<compiler, LazyDisabled, maps, memory, uses>>
  BY DEF CheckCompiled, At, Right
<1>. DEFINE at == th[t].at
            callee == th[t].callee
            after == th[t].after
            res == th[t].res
<1>2. /\ at \in Stubs /\ StubToFunction[at] = callee /\ Leads(S, at)
      /\ callee \in Functions /\ stub[at] # Outside /\ after \in {"call", "erase"}
      /\ th[t].want = callee
  BY <1>1 DEF Right, ThreadsRight, ThreadRight, PlaceRight, InStub, LockRight
<1>3. callee \notin External
  BY <1>1, InStubInternal DEF InStub
<1>4. CASE GlobalAddress[callee] # Null /\ Goes(t, "erase", at, callee, callee, after, GlobalAddress[callee])
  <2>1. Quiet(t, "erase", at, callee, callee, after, GlobalAddress[callee])
    BY <1>1, <1>2, <1>4 DEF Quiet, Holding, PCs
  <2>2. GlobalAddress[callee] \in S /\ code[GlobalAddress[callee]].fn = callee
    BY <1>1, <1>2, <1>3, <1>4, PublishedGood
  <2>3. PlaceRight(S, "erase", at, callee, callee, after, GlobalAddress[callee])
    BY <1>2, <2>2 DEF PlaceRight
  <2>. HIDE DEF at, callee, after
  <2>. QED BY <2>1, <2>3, QuietStep
<1>5. CASE GlobalAddress[callee] = Null /\ Goes(t, "acquire", at, callee, callee, "erase", res)
  <2>1. Quiet(t, "acquire", at, callee, callee, "erase", res)
    BY <1>1, <1>5 DEF Quiet, Holding, PCs
  <2>2. PlaceRight(S, "acquire", at, callee, callee, "erase", res)
    BY <1>2 DEF PlaceRight
  <2>. HIDE DEF at, callee, after, res
  <2>. QED BY <2>1, <2>2, QuietStep
<1>. QED BY <1>1, <1>2, <1>4, <1>5, CheckCompiledGoes

-----------------------------------------------------------------------------
(***************************************************************************)
(* The steps of threads that do not compile, and change maps or stubs.     *)
(***************************************************************************)
LEMMA ClientStep ==
  ASSUME NEW S \in SUBSET Codes, Right(S), NEW t \in Threads,
         NEW pc, NEW at, NEW callee, NEW want, NEW after, NEW res,
         Goes(t, pc, at, callee, want, after, res), th[t].pc \notin Holding,
         pc \in PCs \ ({"stub", "rejit", "free", "crashed", "null", "dead", "unknown"} \cup Holding),
         after \in {"call", "erase"}, PlaceRight(S, pc, at, callee, want, after, res),
         lock' = lock, code' = code, CurFnStubUses' = CurFnStubUses,
         TypeOK', Compiling', Keeps(S, S)
  PROVE  Right(S)'
<1>1. Phase' = Phase
  BY SamePhase DEF Right
<1>2. LockRight'
  <2>1. pc \notin Holding /\ lock' # t /\ LockRight
    BY DEF Right, LockRight
  <2>. QED BY <2>1, LockKept
<1>3. Runnable(S)'
  <2>1. Phase' = "free" => \A c \in Codes : Live(c)' => c \in S
    BY <1>1 DEF Live, Right, Runnable
  <2>. QED BY <2>1, RunnableKept DEF Right
<1>4. ThreadsRight(S)'
  BY StepRight DEF Right
<1>5. NoUses'
  BY DEF Right, NoUses
<1>. QED BY <1>2, <1>3, <1>4, <1>5 DEF Right

LEMMA AcquireFoundRight ==
  ASSUME NEW S \in SUBSET Codes, Right(S), NEW t \in Threads, At(t, "acquire"), lock = NoThread,
         GlobalAddress[th[t].want] # Null, Return(t, GlobalAddress[th[t].want]),
         UNCHANGED <<compiler, LazyDisabled, maps, memory, uses>>
  PROVE  Right(S)' /\ Keeps(S, S)
<1>. DEFINE at == th[t].at
            callee == th[t].callee
            after == th[t].after
            res == th[t].res
            a == GlobalAddress[th[t].want]
<1>1. /\ TypeOK /\ th[t].pc = "acquire" /\ callee \in Functions /\ after \in {"call", "erase"}
      /\ th[t].want = callee /\ a \in Address /\ PlaceRight(S, "acquire", at, callee, callee, after, res)
  <2>1. TypeOK /\ th[t].pc = "acquire"
    BY DEF At, Right
  <2>2. callee \in Functions /\ th[t].want = callee /\ after \in {"call", "erase"}
    BY <2>1 DEF Right, ThreadsRight, ThreadRight, PlaceRight, LockRight
  <2>3. PlaceRight(S, "acquire", at, callee, callee, after, res)
    BY <2>1, <2>2 DEF Right, ThreadsRight, ThreadRight
  <2>. QED BY <2>1, <2>2, <2>3 DEF TypeOK
<1>2. Good(S, a, callee) /\ (callee \notin External => a \in S /\ code[a].fn = callee)
  BY <1>1, PublishedGood
<1>3. CASE after = "call"
  <2>1. Goes(t, "run", a, callee, callee, after, res)
    BY <1>1, <1>3, ReturnGoes
  <2>2. Quiet(t, "run", a, callee, callee, after, res)
    BY <1>1, <2>1 DEF Quiet, Holding, PCs
  <2>3. PlaceRight(S, "run", a, callee, callee, after, res)
    BY <1>1, <1>2 DEF PlaceRight, InStub, Holding
  <2>. HIDE DEF at, callee, after, res, a
  <2>. QED BY <2>2, <2>3, QuietStep
<1>4. CASE after = "erase"
  <2>1. Goes(t, "erase", at, callee, callee, after, a)
    BY <1>1, <1>4, ReturnGoes
  <2>2. Quiet(t, "erase", at, callee, callee, after, a)
    BY <1>1, <2>1 DEF Quiet, Holding, PCs
  <2>3. callee \notin External
    BY <1>1, <1>4, InStubInternal DEF InStub
  <2>4. PlaceRight(S, "erase", at, callee, callee, after, a)
    BY <1>1, <1>2, <1>4, <2>3 DEF PlaceRight, InStub, Holding
  <2>. HIDE DEF at, callee, after, res, a
  <2>. QED BY <2>2, <2>4, QuietStep
<1>. QED BY <1>1, <1>3, <1>4

LEMMA AcquireExternalRight ==
  ASSUME NEW S \in SUBSET Codes, Right(S), NEW t \in Threads, At(t, "acquire"), lock = NoThread,
         GlobalAddress[th[t].want] = Null, th[t].want \in External, Return(t, Outside),
         GlobalAddress' = [GlobalAddress EXCEPT ![th[t].want] = Outside],
         UNCHANGED <<compiler, LazyDisabled, FunctionToStub, StubToFunction, PendingFunctions, memory, uses>>
  PROVE  Right(S)' /\ Keeps(S, S)
<1>. DEFINE at == th[t].at
            callee == th[t].callee
            after == th[t].after
            res == th[t].res
<1>1. /\ TypeOK /\ th[t].pc = "acquire" /\ callee \in Functions /\ after \in {"call", "erase"}
      /\ th[t].want = callee /\ callee \in External
  <2>1. TypeOK /\ th[t].pc = "acquire"
    BY DEF At, Right
  <2>. QED BY <2>1 DEF Right, ThreadsRight, ThreadRight, PlaceRight, LockRight
<1>2. after = "call"
  BY <1>1, InStubInternal DEF InStub
<1>3. Goes(t, "run", Outside, callee, callee, after, res)
  BY <1>1, <1>2, Addresses, ReturnGoes
<1>4. PlaceRight(S, "run", Outside, callee, callee, after, res)
  BY <1>1, <1>2 DEF PlaceRight, InStub, Holding, Good
<1>5. Keeps(S, S)
  BY DEF Keeps, Leads, memory
<1>6. TypeOK'
  <2>1. GlobalAddress' \in [Functions -> Address]
    BY Addresses DEF Right, TypeOK
  <2>. QED BY <1>1, <1>3, <2>1 DEF TypeOK, Goes, compiler, memory, uses
<1>7. Compiling'
  <2>1. Phase = "free" /\ Phase' = "free" /\ PendingFunctions = <<>> /\ PendingFunctions' = <<>>
    BY FreeLock DEF Phase, compiler, Right, Compiling, QueueRight
  <2>2. \A f \in Functions : f \notin External => GlobalAddress'[f] = GlobalAddress[f]
    BY <1>1 DEF TypeOK
  <2>3. \A f \in Functions : f # callee => GlobalAddress'[f] = GlobalAddress[f]
    BY <1>1 DEF TypeOK
  <2>4. GlobalAddress'[callee] = Outside
    BY <1>1 DEF TypeOK
  <2>5. \A c \in Codes : Live(c)' <=> Live(c)
    BY DEF Live, memory
  <2>6. Queue' = Queue
    BY DEF Queue
  <2>7. JobRight'
    BY <2>1 DEF JobRight
  <2>8. CodeRight'
    BY <2>1, <2>2, <2>5 DEF Right, Compiling, CodeRight, memory, compiler
  <2>9. MapRight'
    <3>1. ASSUME NEW f \in Functions, f # callee
          PROVE  /\ f \in External =>
                       GlobalAddress[f] \in {Null, Outside} \cup {s \in Stubs : stub[s] = Outside}
                 /\ f \notin External =>
                      /\ GlobalAddress[f] # Outside
                      /\ GlobalAddress[f] \in Stubs => f \in Queue
                 /\ GlobalAddress[f] \in Codes =>
                      code[GlobalAddress[f]].fn = f /\ Live(GlobalAddress[f])
                 /\ GlobalAddress[f] \in Stubs => FunctionToStub[f] = GlobalAddress[f]
      BY <2>1 DEF Right, Compiling, MapRight
    <3>2. Outside \notin Stubs /\ Outside \notin Codes
      BY Addresses
    <3>. QED BY <1>1, <2>3, <2>4, <2>5, <2>6, <3>1, <3>2 DEF MapRight, memory
  <2>10. StubRight'
    BY <2>1, <2>5, <2>6 DEF Right, Compiling, StubRight, memory, compiler
  <2>11. QueueRight'
    BY <2>1 DEF QueueRight
  <2>12. RefsRight'
    BY <2>5 DEF Right, Compiling, RefsRight, RefRight, memory
  <2>. QED BY <2>7, <2>8, <2>9, <2>10, <2>11, <2>12 DEF Compiling
<1>8. lock' = lock /\ code' = code /\ CurFnStubUses' = CurFnStubUses
  BY DEF compiler, memory, uses
<1>9. "run" \in PCs \ ({"stub", "rejit", "free", "crashed", "null", "dead", "unknown"} \cup Holding)
      /\ "acquire" \notin Holding
  BY DEF PCs, Holding
<1>. HIDE DEF at, callee, after, res
<1>. QED BY <1>1, <1>3, <1>4, <1>5, <1>6, <1>7, <1>8, <1>9, ClientStep

LEMMA EraseStubRight ==
  ASSUME NEW S \in SUBSET Codes, Right(S), NEW t \in Threads, EraseStub(t), UNCHANGED LazyDisabled
  PROVE  Right(S)' /\ Keeps(S, S)
<1>. DEFINE at == th[t].at
            callee == th[t].callee
            after == th[t].after
            res == th[t].res
<1>1. /\ TypeOK /\ th[t].pc = "erase" /\ lock = NoThread
      /\ callee \in Functions \ External /\ after \in {"call", "erase"}
      /\ th[t].want = callee /\ PlaceRight(S, "erase", at, callee, callee, after, res)
  <2>1. TypeOK /\ th[t].pc = "erase" /\ lock = NoThread
    BY DEF EraseStub, At, Right
  <2>2. callee \in Functions /\ th[t].want = callee /\ after \in {"call", "erase"}
    BY <2>1 DEF Right, ThreadsRight, ThreadRight, PlaceRight, LockRight
  <2>3. callee \notin External
    BY <2>1, InStubInternal DEF InStub
  <2>4. PlaceRight(S, "erase", at, callee, callee, after, res)
    BY <2>1, <2>2 DEF Right, ThreadsRight, ThreadRight
  <2>. QED BY <2>1, <2>2, <2>3, <2>4
<1>2. Goes(t, "patch", at, callee, callee, after, res)
  <2>1. "patch" \in PCs /\ Goto(t, "patch")
    BY DEF PCs, EraseStub
  <2>. QED BY <1>1, <2>1, GotoGoes
<1>3. PlaceRight(S, "patch", at, callee, callee, after, res)
  BY <1>1 DEF PlaceRight, InStub, Holding
<1>4. /\ FunctionToStub' = [FunctionToStub EXCEPT ![callee] = Null]
      /\ UNCHANGED <<compiler, GlobalAddress, StubToFunction, PendingFunctions, memory, uses, LazyDisabled>>
  BY <1>1 DEF EraseStub
<1>5. Keeps(S, S)
  BY <1>4 DEF Keeps, Leads, memory
<1>6. TypeOK'
  <2>1. FunctionToStub' \in [Functions -> Stubs \cup {Null}]
    BY <1>1, <1>4 DEF TypeOK
  <2>. QED BY <1>1, <1>2, <1>4, <2>1 DEF TypeOK, Goes, compiler, memory, uses
<1>7. Compiling'
  <2>1. Phase = "free" /\ Phase' = "free" /\ PendingFunctions = <<>> /\ PendingFunctions' = <<>>
    BY <1>1, <1>4, FreeLock DEF Phase, compiler, Right, Compiling, QueueRight
  <2>2. Queue = {} /\ Queue' = {}
    BY <2>1 DEF Queue
  <2>3. /\ \A f \in Functions : f # callee => FunctionToStub'[f] = FunctionToStub[f]
        /\ FunctionToStub'[callee] = Null
    BY <1>1, <1>4 DEF TypeOK
  <2>4. \A c \in Codes : Live(c)' <=> Live(c)
    BY <1>4 DEF Live, memory
  <2>5. JobRight'
    BY <2>1 DEF JobRight
  <2>6. CodeRight'
    BY <1>4, <2>1, <2>4 DEF Right, Compiling, CodeRight, memory, compiler
  <2>7. MapRight'
    <3>1. \A f \in Functions : GlobalAddress[f] \in Stubs => FunctionToStub'[f] = GlobalAddress[f]
      BY <1>1, <2>1, <2>2, <2>3 DEF Right, Compiling, MapRight
    <3>. QED BY <1>4, <2>1, <2>2, <2>4, <3>1 DEF Right, Compiling, MapRight, memory, compiler
  <2>8. StubRight'
    <3>1. \A s \in Stubs : stub[s] # Null
      BY <2>1, <2>2 DEF Right, Compiling, StubRight
    <3>. QED BY <1>4, <2>3, <2>4, <3>1 DEF Right, Compiling, StubRight, memory
  <2>9. QueueRight'
    BY <2>1 DEF QueueRight
  <2>10. RefsRight'
    BY <1>4, <2>4 DEF Right, Compiling, RefsRight, RefRight, memory
  <2>. QED BY <2>5, <2>6, <2>7, <2>8, <2>9, <2>10 DEF Compiling
<1>8. lock' = lock /\ code' = code /\ CurFnStubUses' = CurFnStubUses
  BY <1>4 DEF compiler, memory, uses
<1>9. "patch" \in PCs \ ({"stub", "rejit", "free", "crashed", "null", "dead", "unknown"} \cup Holding)
      /\ "erase" \notin Holding
  BY DEF PCs, Holding
<1>. HIDE DEF at, callee, after, res
<1>. QED BY <1>1, <1>2, <1>3, <1>5, <1>6, <1>7, <1>8, <1>9, ClientStep

\* A stub that may be entered is rewritten; which ones lead nowhere or outside
\* stays the same.
LEMMA PatchCompiling ==
  ASSUME TypeOK, Compiling, Phase' = Phase, Asked' = Asked, NEW s \in Stubs, NEW v,
         stub[s] \notin {Null, Unused, Outside}, stub' = [stub EXCEPT ![s] = v],
         v = Torn \/ v = stub[s] \/ (v \in Codes /\ Live(v) /\ code[v].fn = StubToFunction[s]),
         UNCHANGED <<job, maps, code, FunctionBlock>>
  PROVE  Compiling'
<1>1. Queue' = Queue /\ \A c \in Codes : Live(c)' <=> Live(c)
  BY DEF Queue, maps, Live
<1>2. v \notin {Null, Unused, Outside} \cup Stubs
  <2>1. stub[s] \notin Stubs
    BY DEF Compiling, StubRight
  <2>. QED BY <2>1, Addresses DEF Address
<1>3. stub'[s] = v /\ \A r \in Stubs : r # s => stub'[r] = stub[r]
  BY DEF TypeOK
<1>4. \A r \in Stubs : /\ stub'[r] = Null <=> stub[r] = Null
                       /\ stub'[r] = Unused <=> stub[r] = Unused
                       /\ stub'[r] = Outside <=> stub[r] = Outside
  BY <1>2, <1>3
<1>5. JobRight'
  BY <1>1, <1>4 DEF Compiling, JobRight, maps
<1>6. CodeRight'
  BY <1>1 DEF Compiling, CodeRight, maps
<1>7. MapRight'
  BY <1>1, <1>4 DEF Compiling, MapRight, maps
<1>8. StubRight'
  <2>1. \A g \in Functions : FunctionToStub[g] # Null =>
       stub'[FunctionToStub[g]] # Unused /\ StubToFunction[FunctionToStub[g]] = g
    BY <1>4 DEF Compiling, StubRight, TypeOK
  <2>2. \A r \in Stubs : stub'[r] \notin Stubs
    BY <1>2, <1>3 DEF Compiling, StubRight
  <2>3. \A r \in Stubs : stub'[r] \in Codes => Live(stub'[r]) /\ code[stub'[r]].fn = StubToFunction[r]
    BY <1>2, <1>3, Addresses DEF Compiling, StubRight, Address
  <2>4. \A r \in Stubs :
       /\ stub'[r] # Unused => StubToFunction[r] \in Functions
       /\ stub'[r] # Unused => (stub'[r] = Outside <=> StubToFunction[r] \in External)
       /\ stub'[r] = Null =>
            /\ FunctionToStub[StubToFunction[r]] = r
            /\ \/ StubToFunction[r] \in Queue
               \/ StubToFunction[r] = job.fn /\ job.queued /\ Phase \in {"start", "emit", "restub"}
    BY <1>4 DEF Compiling, StubRight
  <2>. QED BY <1>1, <2>1, <2>2, <2>3, <2>4 DEF StubRight, maps, Live
<1>9. QueueRight'
  BY <1>4 DEF Compiling, QueueRight, maps
<1>10. RefsRight'
  BY <1>1, <1>4 DEF Compiling, RefsRight, RefRight, maps
<1>. QED BY <1>5, <1>6, <1>7, <1>8, <1>9, <1>10 DEF Compiling

LEMMA PatchRight ==
  ASSUME NEW S \in SUBSET Codes, Right(S), NEW t \in Threads, NEW pc \in {"patch", "mend"}, th[t].pc = pc,
         NEW to \in {"mend", "run"}, Goto(t, to), NEW v, stub' = [stub EXCEPT ![th[t].at] = v],
         \/ to = "mend" /\ v = (IF stub[th[t].at] = Resolver THEN Torn ELSE stub[th[t].at])
         \/ to = "run" /\ v = th[t].res,
         UNCHANGED <<compiler, LazyDisabled, maps, code, FunctionBlock, uses>>
  PROVE  Right(S)' /\ Keeps(S, S)
<1>. DEFINE at == th[t].at
            callee == th[t].callee
            after == th[t].after
            res == th[t].res
<1>0. InStub(th[t].pc, th[t].after)
  BY DEF InStub
<1>1. /\ TypeOK /\ callee \in Functions \ External /\ after \in {"call", "erase"}
      /\ th[t].want = callee /\ at \in Stubs /\ Leads(S, at) /\ StubToFunction[at] = callee
      /\ stub[at] # Outside /\ res \in S /\ code[res].fn = callee
  <2>1. callee \in Functions /\ th[t].want = callee /\ after \in {"call", "erase"}
        /\ stub[at] # Outside /\ res \in S /\ code[res].fn = callee
    BY <1>0 DEF Right, ThreadsRight, ThreadRight, PlaceRight, LockRight
  <2>2. callee \notin External /\ at \in Stubs /\ Leads(S, at) /\ StubToFunction[at] = callee
    BY <1>0, InStubInternal
  <2>. QED BY <2>1, <2>2 DEF Right
<1>2. Goes(t, to, at, callee, callee, after, res)
  <2>1. to \in PCs
    BY DEF PCs
  <2>. QED BY <1>1, <2>1, GotoGoes
<1>3. PlaceRight(S, to, at, callee, callee, after, res)
  BY <1>1 DEF PlaceRight, InStub, Holding, Good
<1>4. S \subseteq Codes /\ (\A c \in S : Live(c)) /\ stub[at] \notin {Null, Unused, Outside}
  BY <1>1, Addresses DEF Right, Runnable, Leads, Address
<1>5. v = Torn \/ v = stub[at] \/ (v \in S /\ v \in Codes /\ Live(v) /\ code[v].fn = StubToFunction[at])
  BY <1>1, <1>4
<1>6. v \in S \cup {Torn, Resolver}
  BY <1>1, <1>5 DEF Leads
<1>7. stub'[at] = v /\ \A r \in Stubs : r # at => stub'[r] = stub[r]
  BY <1>1 DEF TypeOK
<1>8. Keeps(S, S)
  <2>1. \A s \in Stubs : Leads(S, s) =>
       stub'[s] \in S \cup {Outside, Resolver, Torn} /\ (stub'[s] = Outside => stub[s] = Outside)
    <3>1. v # Outside
      BY <1>4, <1>6, Addresses DEF Address
    <3>. QED BY <1>6, <1>7, <3>1 DEF Leads
  <2>. QED BY <2>1 DEF Keeps, maps
<1>9. TypeOK'
  <2>1. stub' \in [Stubs -> Address \cup {Resolver, Torn, Unused}]
    BY <1>1, <1>4, <1>6, Addresses DEF TypeOK
  <2>. QED BY <1>1, <1>2, <2>1 DEF TypeOK, Goes, compiler, maps, uses
<1>10. Compiling'
  <2>1. Phase' = Phase /\ Asked' = Asked
    <3>1. th[t].pc \notin Holding /\ lock' = lock /\ LockRight
      BY DEF Holding, compiler, Right
    <3>. HIDE DEF at, callee, after, res
    <3>. QED BY <1>1, <1>2, <3>1, SamePhase
  <2>2. stub' = [stub EXCEPT ![at] = v] /\ UNCHANGED <<job, maps, code, FunctionBlock>> /\ Compiling
    BY DEF compiler, Right
  <2>. HIDE DEF at, callee, after, res
  <2>. QED BY <1>1, <1>4, <1>5, <2>1, <2>2, PatchCompiling
<1>11. lock' = lock /\ code' = code /\ CurFnStubUses' = CurFnStubUses
  BY DEF compiler, uses
<1>12. to \in PCs \ ({"stub", "rejit", "free", "crashed", "null", "dead", "unknown"} \cup Holding)
       /\ th[t].pc \notin Holding
  BY DEF PCs, Holding
<1>. HIDE DEF at, callee, after, res
<1>. QED BY <1>1, <1>2, <1>3, <1>8, <1>9, <1>10, <1>11, <1>12, ClientStep

LEMMA TearStubRight ==
  ASSUME NEW S \in SUBSET Codes, Right(S), NEW t \in Threads, TearStub(t), UNCHANGED LazyDisabled
  PROVE  Right(S)' /\ Keeps(S, S)
<1>. DEFINE v == IF stub[th[t].at] = Resolver THEN Torn ELSE stub[th[t].at]
<1>1. th[t].pc = "patch" /\ Goto(t, "mend")
      /\ UNCHANGED <<compiler, LazyDisabled, maps, code, FunctionBlock, uses>>
  BY DEF TearStub, At
<1>2. stub' = [stub EXCEPT ![th[t].at] = v]
  BY DEF TearStub, Right, TypeOK
<1>. QED BY <1>1, <1>2, PatchRight

LEMMA MendStubRight ==
  ASSUME NEW S \in SUBSET Codes, Right(S), NEW t \in Threads, MendStub(t), UNCHANGED LazyDisabled
  PROVE  Right(S)' /\ Keeps(S, S)
<1>1. th[t].pc = "mend" /\ Goto(t, "run")
      /\ UNCHANGED <<compiler, LazyDisabled, maps, code, FunctionBlock, uses>>
      /\ stub' = [stub EXCEPT ![th[t].at] = th[t].res]
  BY DEF MendStub, At
<1>. QED BY <1>1, PatchRight

-----------------------------------------------------------------------------
(***************************************************************************)
(* The steps of the thread that compiles.                                  *)
(***************************************************************************)
LEMMA HolderStep ==
  ASSUME NEW S \in SUBSET Codes, Right(S), NEW t \in Threads,
         NEW pc, NEW at, NEW callee, NEW want, NEW after, NEW res,
         Goes(t, pc, at, callee, want, after, res),
         pc \in PCs \ {"stub", "rejit", "free", "crashed", "null", "dead", "unknown"},
         after \in {"call", "erase"}, PlaceRight(S, pc, at, callee, want, after, res),
         pc \in Holding, lock' = t, lock \in {NoThread, t},
         CurFnStubUses' = CurFnStubUses, TypeOK', Compiling', Keeps(S, S)
  PROVE  Right(S)'
<1>1. Phase' # "free"
  <2>1. Phase' = pc
    BY HolderPhaseNext
  <2>. QED BY <2>1 DEF Holding
<1>2. LockRight'
  <2>1. \A u \in Threads : u # t => (lock' = u <=> lock = u)
    BY JITResolverAssumption
  <2>. QED BY <2>1, LockKept DEF Right
<1>3. Runnable(S)'
  BY <1>1, RunnableKept DEF Right
<1>4. ThreadsRight(S)'
  BY StepRight DEF Right
<1>5. NoUses'
  BY DEF Right, NoUses
<1>. QED BY <1>2, <1>3, <1>4, <1>5 DEF Right

\* What is known of the thread that compiles.
LEMMA HolderKnown ==
  ASSUME NEW S \in SUBSET Codes, Right(S), NEW t \in Threads, th[t].pc \in Holding
  PROVE  /\ TypeOK /\ Compiling /\ lock = t /\ Phase = th[t].pc /\ Asked = th[t].callee
         /\ th[t].want = th[t].callee /\ th[t].callee \in Functions /\ th[t].after \in {"call", "erase"}
         /\ job.fn \in Functions \ External
         /\ \A pc \in Holding : PlaceRight(S, pc, th[t].at, th[t].callee, th[t].callee, th[t].after, th[t].res)
<1>1. TypeOK /\ Compiling /\ lock = t /\ Phase = th[t].pc /\ Asked = th[t].want
  BY HolderPhase DEF Right
<1>2. /\ th[t].want = th[t].callee /\ th[t].callee \in Functions /\ th[t].after \in {"call", "erase"}
      /\ PlaceRight(S, th[t].pc, th[t].at, th[t].callee, th[t].want, th[t].after, th[t].res)
  BY DEF Right, ThreadsRight, ThreadRight, PlaceRight, LockRight, Holding
<1>3. job.fn \in Functions \ External
  BY <1>1 DEF Compiling, JobRight, Holding
<1>4. \A pc \in Holding : PlaceRight(S, pc, th[t].at, th[t].callee, th[t].callee, th[t].after, th[t].res)
  BY <1>2 DEF PlaceRight, InStub, Holding
<1>. QED BY <1>1, <1>2, <1>3, <1>4

LEMMA BeginFields ==
  ASSUME NEW f \in Functions
  PROVE  /\ Begin(f).fn = f /\ Begin(f).queued = FALSE
         /\ Begin(f) \in [fn : Functions \cup {NoFunction}, body : Codes \cup {Null}, todo : Seq(Functions),
                          queued : BOOLEAN, tries : Nat]
<1>1. <<>> \in Seq(Functions)
  OBVIOUS
<1>. QED BY <1>1 DEF Begin, NoJob

LEMMA AcquireStartRight ==
  ASSUME NEW S \in SUBSET Codes, Right(S), NEW t \in Threads, At(t, "acquire"), lock = NoThread,
         GlobalAddress[th[t].want] = Null, th[t].want \notin External,
         lock' = t, job' = Begin(th[t].want), Goto(t, "start"),
         UNCHANGED <<LazyDisabled, maps, memory, uses>>
  PROVE  Right(S)' /\ Keeps(S, S)
<1>. DEFINE at == th[t].at
            callee == th[t].callee
            after == th[t].after
            res == th[t].res
<1>1. /\ TypeOK /\ th[t].pc = "acquire" /\ callee \in Functions /\ after \in {"call", "erase"}
      /\ th[t].want = callee /\ callee \notin External
      /\ PlaceRight(S, "acquire", at, callee, callee, after, res)
  <2>1. TypeOK /\ th[t].pc = "acquire"
    BY DEF At, Right
  <2>2. callee \in Functions /\ th[t].want = callee /\ after \in {"call", "erase"}
    BY <2>1 DEF Right, ThreadsRight, ThreadRight, PlaceRight, LockRight
  <2>3. PlaceRight(S, "acquire", at, callee, callee, after, res)
    BY <2>1, <2>2 DEF Right, ThreadsRight, ThreadRight
  <2>. QED BY <2>1, <2>2, <2>3
<1>2. Goes(t, "start", at, callee, callee, after, res)
  <2>1. "start" \in PCs
    BY DEF PCs
  <2>. QED BY <1>1, <2>1, GotoGoes
<1>3. PlaceRight(S, "start", at, callee, callee, after, res)
  BY <1>1 DEF PlaceRight, InStub, Holding
<1>4. Keeps(S, S)
  BY SameKeeps
<1>5. job'.fn = callee /\ job'.queued = FALSE
  BY <1>1, BeginFields
<1>6. TypeOK'
  <2>1. job' \in [fn : Functions \cup {NoFunction}, body : Codes \cup {Null}, todo : Seq(Functions),
                  queued : BOOLEAN, tries : Nat]
    BY <1>1, BeginFields
  <2>. QED BY <1>1, <1>2, <2>1 DEF TypeOK, Goes, maps, memory, uses
<1>7. Compiling'
  <2>1. Phase = "free" /\ Phase' = "start" /\ Asked' = callee /\ PendingFunctions = <<>>
    <3>1. Phase = "free" /\ PendingFunctions = <<>>
      BY FreeLock DEF Right, Compiling, QueueRight
    <3>2. Phase' = "start" /\ Asked' = callee
      <4>. HIDE DEF at, callee, after, res
      <4>. QED BY <1>2, HolderPhaseNext
    <3>. QED BY <3>1, <3>2
  <2>2. Queue = {} /\ Queue' = {}
    BY <2>1 DEF Queue, maps
  <2>3. \A c \in Codes : Live(c)' <=> Live(c)
    BY DEF Live, memory
  <2>4. JobRight'
    BY <1>1, <1>5, <2>1, Addresses DEF JobRight, maps
  <2>5. CodeRight'
    BY <2>1, <2>3 DEF Right, Compiling, CodeRight, memory, maps
  <2>6. MapRight'
    BY <2>1, <2>2, <2>3 DEF Right, Compiling, MapRight, memory, maps
  <2>7. StubRight'
    BY <2>1, <2>2, <2>3 DEF Right, Compiling, StubRight, memory, maps
  <2>8. QueueRight'
    BY <2>1 DEF QueueRight, maps
  <2>9. RefsRight'
    BY <2>3 DEF Right, Compiling, RefsRight, RefRight, memory, maps
  <2>. QED BY <2>4, <2>5, <2>6, <2>7, <2>8, <2>9 DEF Compiling
<1>8. "start" \in PCs \ {"stub", "rejit", "free", "crashed", "null", "dead", "unknown"} /\ "start" \in Holding
      /\ CurFnStubUses' = CurFnStubUses
  BY DEF PCs, Holding, uses
<1>. HIDE DEF at, callee, after, res
<1>. QED BY <1>1, <1>2, <1>3, <1>4, <1>6, <1>7, <1>8, HolderStep

LEMMA AcquireRight ==
  ASSUME NEW S \in SUBSET Codes, Right(S), NEW t \in Threads, Acquire(t), UNCHANGED LazyDisabled
  PROVE  Right(S)' /\ Keeps(S, S)
<1>. DEFINE f == th[t].want
<1>1. At(t, "acquire") /\ lock = NoThread /\ UNCHANGED <<memory, uses>>
  BY DEF Acquire
<1>2. CASE GlobalAddress[f] # Null /\ Return(t, GlobalAddress[f]) /\ UNCHANGED <<compiler, maps>>
  BY <1>1, <1>2, AcquireFoundRight
<1>3. CASE /\ GlobalAddress[f] = Null /\ f \in External /\ Return(t, Outside)
           /\ GlobalAddress' = [GlobalAddress EXCEPT ![f] = Outside]
           /\ UNCHANGED <<compiler, FunctionToStub, StubToFunction, PendingFunctions>>
  BY <1>1, <1>3, AcquireExternalRight
<1>4. CASE /\ GlobalAddress[f] = Null /\ f \notin External /\ lock' = t /\ job' = Begin(f)
           /\ Goto(t, "start") /\ UNCHANGED maps
  BY <1>1, <1>4, AcquireStartRight
<1>. QED BY <1>2, <1>3, <1>4 DEF Acquire

LEMMA StartFunctionRight ==
  ASSUME NEW S \in SUBSET Codes, Right(S), NEW t \in Threads, StartFunction(t), UNCHANGED LazyDisabled
  PROVE  Right(S)' /\ Keeps(S, S)
<1>. DEFINE at == th[t].at
            callee == th[t].callee
            after == th[t].after
            res == th[t].res
            f == job.fn
<1>1. /\ TypeOK /\ Compiling /\ lock = t /\ Phase = "start" /\ Asked = callee
      /\ th[t].pc = "start" /\ th[t].want = callee /\ callee \in Functions /\ after \in {"call", "erase"}
      /\ f \in Functions \ External
      /\ PlaceRight(S, "emit", at, callee, callee, after, res)
  <2>1. th[t].pc = "start"
    BY DEF StartFunction, At
  <2>. QED BY <2>1, HolderKnown DEF Holding
<1>2. PICK c \in FreshCodes :
       /\ code' = [code EXCEPT ![c].fn = f, ![c].state = "emitting"]
       /\ GlobalAddress' = [GlobalAddress EXCEPT ![f] = c]
       /\ job' = [job EXCEPT !.body = c, !.todo = Calls[f]]
  BY DEF StartFunction
<1>3. /\ c \in Codes /\ code[c].state = "none"
      /\ lock' = lock
      /\ UNCHANGED <<FunctionToStub, StubToFunction, PendingFunctions, stub, FunctionBlock, uses, LazyDisabled>>
  BY DEF StartFunction, FreshCodes
<1>4. Goes(t, "emit", at, callee, callee, after, res)
  <2>1. "emit" \in PCs /\ Goto(t, "emit")
    BY DEF PCs, StartFunction
  <2>. QED BY <1>1, <2>1, GotoGoes
<1>5. /\ job'.fn = f /\ job'.body = c /\ job'.queued = job.queued
      /\ job' \in [fn : Functions \cup {NoFunction}, body : Codes \cup {Null}, todo : Seq(Functions),
                   queued : BOOLEAN, tries : Nat]
  BY <1>1, <1>2, <1>3, JITResolverAssumption DEF TypeOK
<1>6. /\ code'[c].fn = f /\ code'[c].state = "emitting" /\ code'[c].refs = code[c].refs
      /\ \A d \in Codes : d # c => code'[d] = code[d]
      /\ code' \in [Codes -> [fn : Functions \cup {NoFunction}, state : {"none", "emitting", "done", "freed"},
                              refs : [Functions -> Address]]]
  <2>1. code \in [Codes -> [fn : Functions \cup {NoFunction}, state : {"none", "emitting", "done", "freed"},
                              refs : [Functions -> Address]]]
    BY <1>1 DEF TypeOK
  <2>. DEFINE r == [code[c] EXCEPT !.fn = f, !.state = "emitting"]
  <2>2. /\ r \in [fn : Functions \cup {NoFunction}, state : {"none", "emitting", "done", "freed"},
                  refs : [Functions -> Address]]
        /\ r.fn = f /\ r.state = "emitting" /\ r.refs = code[c].refs
    BY <1>1, <1>3, <2>1
  <2>3. code' = [code EXCEPT ![c] = r]
    BY <1>2, <1>3, <2>1
  <2>. HIDE DEF r
  <2>. QED BY <1>3, <2>1, <2>2, <2>3
<1>7. /\ GlobalAddress'[f] = c /\ \A g \in Functions : g # f => GlobalAddress'[g] = GlobalAddress[g]
      /\ GlobalAddress' \in [Functions -> Address]
  BY <1>1, <1>2, <1>3, Addresses DEF TypeOK
<1>8. TypeOK'
  BY <1>1, <1>3, <1>4, <1>5, <1>6, <1>7 DEF TypeOK, Goes, uses
<1>9. Keeps(S, S)
  <2>1. c \notin S
    BY <1>3 DEF Right, Runnable, Live
  <2>. QED BY <1>3, <1>6, <2>1 DEF Keeps, Leads
<1>10. Compiling'
  <2>1. Phase' = "emit" /\ Asked' = callee
    <3>1. lock' = t
      BY <1>1, <1>3
    <3>. HIDE DEF at, callee, after, res
    <3>. QED BY <1>4, <3>1, HolderPhaseNext
  <2>2. Queue' = Queue
    BY <1>3 DEF Queue
  <2>3. /\ ~Live(c) /\ ~Live(c)'
        /\ \A d \in Codes : Live(d)' <=> Live(d)
    BY <1>3, <1>6 DEF Live
  <2>4. ~\E d \in Codes : GlobalAddress[f] = d /\ Live(d)
    BY <1>1 DEF Compiling, JobRight
  <2>5. JobRight'
    <3>1. callee = f \/ (GlobalAddress[callee] \in Codes /\ Live(GlobalAddress[callee]))
      BY <1>1 DEF Compiling, JobRight
    <3>2. job.queued => FunctionToStub[f] \in Stubs /\ stub[FunctionToStub[f]] = Null
      BY <1>1 DEF Compiling, JobRight
    <3>3. callee # f => GlobalAddress'[callee] = GlobalAddress[callee]
      BY <1>1, <1>7
    <3>4. callee = f \/ (GlobalAddress'[callee] \in Codes /\ code'[GlobalAddress'[callee]].state = "done")
      BY <2>3, <3>1, <3>3 DEF Live
    <3>5. JobRight' <=>
            /\ f \in Functions \ External
            /\ GlobalAddress'[f] = c /\ code'[c].state = "emitting" /\ code'[c].fn = f
            /\ job.queued => FunctionToStub[f] \in Stubs /\ stub[FunctionToStub[f]] = Null
            /\ callee = f \/ (GlobalAddress'[callee] \in Codes /\ code'[GlobalAddress'[callee]].state = "done")
      <4>. HIDE DEF callee, f
      <4>. QED BY <1>1, <1>3, <1>5, <2>1 DEF JobRight, Live
    <3>. QED BY <1>1, <1>6, <1>7, <3>2, <3>4, <3>5
  <2>6. CodeRight'
    <3>1. \A d \in Codes : code[d].state # "emitting"
      BY <1>1 DEF Compiling, CodeRight
    <3>2. \A d \in Codes : Live(d) => code[d].fn \in Functions \ External /\ GlobalAddress[code[d].fn] = d
      BY <1>1 DEF Compiling, CodeRight
    <3>3. \A d \in Codes : Live(d) => d # c /\ code[d].fn # f
      BY <2>3, <2>4, <3>2
    <3>. QED BY <1>3, <1>5, <1>6, <1>7, <2>1, <2>3, <3>1, <3>2, <3>3 DEF CodeRight
  <2>7. MapRight'
    <3>1. ASSUME NEW g \in Functions, g # f
          PROVE  /\ g \in External =>
                       GlobalAddress[g] \in {Null, Outside} \cup {s \in Stubs : stub[s] = Outside}
                 /\ g \notin External =>
                      /\ GlobalAddress[g] # Outside
                      /\ GlobalAddress[g] \in Stubs => g \in Queue
                 /\ GlobalAddress[g] \in Codes =>
                      code[GlobalAddress[g]].fn = g /\ Live(GlobalAddress[g]) /\ GlobalAddress[g] # c
                 /\ GlobalAddress[g] \in Stubs => FunctionToStub[g] = GlobalAddress[g]
      BY <1>1, <2>3, <3>1 DEF Compiling, MapRight
    <3>2. c \notin Stubs /\ c # Outside
      BY <1>3, Addresses
    <3>. QED BY <1>1, <1>3, <1>5, <1>6, <1>7, <2>1, <2>2, <2>3, <3>1, <3>2 DEF MapRight
  <2>8. StubRight'
    BY <1>1, <1>3, <1>5, <1>6, <2>1, <2>2, <2>3 DEF Compiling, StubRight
  <2>9. QueueRight'
    <3>1. \A i \in DOMAIN PendingFunctions : PendingFunctions[i] # f /\ PendingFunctions[i] \in Functions
      BY <1>1 DEF Compiling, QueueRight, TypeOK
    <3>. QED BY <1>1, <1>3, <1>7, <2>1, <3>1 DEF Compiling, QueueRight
  <2>10. RefsRight'
    <3>1. \A d \in Codes, g \in Functions : d # c =>
            /\ code'[d].state = "none" => code'[d].refs[g] = Null
            /\ code'[d].state \in {"emitting", "done"} => RefRight(d, g, code[d].refs[g])
      BY <1>1, <1>6 DEF Compiling, RefsRight
    <3>2. \A d \in Codes, g \in Functions, a \in Address : d # c /\ RefRight(d, g, a) => RefRight(d, g, a)'
      BY <1>3, <1>6, <2>3 DEF RefRight
    <3>3. \A d \in Codes, g \in Functions : code[d].refs[g] \in Address
      BY <1>1 DEF TypeOK
    <3>4. \A g \in Functions : code'[c].refs[g] = Null
      BY <1>1, <1>3, <1>6 DEF Compiling, RefsRight
    <3>5. \A g \in Functions : RefRight(c, g, code[c].refs[g])'
      BY <3>4 DEF RefRight
    <3>6. \A d \in Codes, g \in Functions : d # c /\ code'[d].state \in {"emitting", "done"}
            => RefRight(d, g, code[d].refs[g])'
      BY <1>6, <3>1, <3>2, <3>3 DEF RefRight
    <3>. QED BY <1>6, <3>1, <3>4, <3>5, <3>6 DEF RefsRight
  <2>. QED BY <2>5, <2>6, <2>7, <2>8, <2>9, <2>10 DEF Compiling
<1>11. "emit" \in PCs \ {"stub", "rejit", "free", "crashed", "null", "dead", "unknown"} /\ "emit" \in Holding
       /\ CurFnStubUses' = CurFnStubUses /\ lock' = t /\ lock \in {NoThread, t}
  BY <1>1, <1>3 DEF PCs, Holding, uses
<1>. HIDE DEF at, callee, after, res
<1>. QED BY <1>1, <1>4, <1>8, <1>9, <1>10, <1>11, HolderStep

LEMMA StaysGoes ==
  ASSUME TypeOK, NEW t \in Threads, th' = th
  PROVE  Goes(t, th[t].pc, th[t].at, th[t].callee, th[t].want, th[t].after, th[t].res)
BY DEF TypeOK, Goes

LEMMA ResolveFields ==
  ASSUME TypeOK, job.body \in Codes, job.todo # <<>>, NEW g \in Functions, NEW a \in Address, Resolve(g, a)
  PROVE  /\ job'.fn = job.fn /\ job'.body = job.body /\ job'.queued = job.queued
         /\ job' \in [fn : Functions \cup {NoFunction}, body : Codes \cup {Null}, todo : Seq(Functions),
                      queued : BOOLEAN, tries : Nat]
         /\ \A d \in Codes : /\ d # job.body => code'[d] = code[d]
                             /\ code'[d].fn = code[d].fn /\ code'[d].state = code[d].state
         /\ code'[job.body].refs[g] = a
         /\ \A h \in Functions : h # g => code'[job.body].refs[h] = code[job.body].refs[h]
         /\ code' \in [Codes -> [fn : Functions \cup {NoFunction}, state : {"none", "emitting", "done", "freed"},
                                 refs : [Functions -> Address]]]
<1>. DEFINE Job == [fn : Functions \cup {NoFunction}, body : Codes \cup {Null}, todo : Seq(Functions),
                    queued : BOOLEAN, tries : Nat]
            Code == [fn : Functions \cup {NoFunction}, state : {"none", "emitting", "done", "freed"},
                     refs : [Functions -> Address]]
<1>1. /\ job'.fn = job.fn /\ job'.body = job.body /\ job'.queued = job.queued
      /\ job' \in Job
  <2>1. job \in Job
    BY DEF TypeOK
  <2>2. job.todo \in Seq(Functions) /\ job.todo # <<>>
    BY <2>1
  <2>3. Tail(job.todo) \in Seq(Functions)
    BY <2>2
  <2>. QED BY <2>1, <2>3 DEF Resolve
<1>. DEFINE b == job.body
            m == [code[b].refs EXCEPT ![g] = a]
            r == [code[b] EXCEPT !.refs = m]
<1>2. code \in [Codes -> Code] /\ b \in Codes /\ code[b] \in Code
  BY DEF TypeOK
<1>3. m \in [Functions -> Address] /\ m[g] = a /\ \A h \in Functions : h # g => m[h] = code[b].refs[h]
  BY <1>2
<1>4. code' = [code EXCEPT ![b] = r]
  BY <1>2 DEF Resolve
<1>5. r \in Code /\ r.fn = code[b].fn /\ r.state = code[b].state /\ r.refs = m
  <2>. HIDE DEF m
  <2>. QED BY <1>2, <1>3
<1>. HIDE DEF r, m, b
<1>6. code' \in [Codes -> Code] /\ code'[b] = r /\ \A d \in Codes : d # b => code'[d] = code[d]
  BY <1>2, <1>4, <1>5
<1>. QED BY <1>1, <1>3, <1>5, <1>6 DEF b

\* The references of the function that is emitted, while it is.
LEMMA RefsKept ==
  ASSUME TypeOK, RefsRight, NEW b \in Codes, code[b].state = "emitting",
         NEW g \in Functions, NEW a \in Address,
         \A d \in Codes : /\ d # b => code'[d] = code[d]
                          /\ code'[d].fn = code[d].fn /\ code'[d].state = code[d].state,
         code'[b].refs[g] = a, \A h \in Functions : h # g => code'[b].refs[h] = code[b].refs[h],
         \A s \in Stubs : stub[s] # Unused => stub'[s] # Unused /\ StubToFunction'[s] = StubToFunction[s],
         \/ a = Outside /\ g \in External
         \/ a \in Codes /\ code[a].fn = g /\ (a = b \/ Live(a))
         \/ a \in Stubs /\ stub'[a] # Unused /\ StubToFunction'[a] = g
  PROVE  RefsRight'
<1>1. \A d \in Codes, h \in Functions, x \in Address : RefRight(d, h, x) => RefRight(d, h, x)'
  BY DEF RefRight, Live
<1>2. \A d \in Codes, h \in Functions : code[d].refs[h] \in Address
  BY DEF TypeOK
<1>3. ASSUME NEW d \in Codes, NEW h \in Functions, d # b \/ h # g
      PROVE  /\ code'[d].state = "none" => code'[d].refs[h] = Null
             /\ code'[d].state \in {"emitting", "done"} => RefRight(d, h, code[d].refs[h])'
  <2>1. code'[d].refs[h] = code[d].refs[h] /\ code'[d].state = code[d].state
    BY <1>3
  <2>2. code[d].state \in {"emitting", "done"} => RefRight(d, h, code[d].refs[h])
    BY DEF RefsRight
  <2>3. PICK x \in Address : x = code[d].refs[h]
    BY <1>2
  <2>4. code[d].state \in {"emitting", "done"} => RefRight(d, h, x)'
    BY <1>1, <2>2, <2>3
  <2>5. RefRight(d, h, x)' => RefRight(d, h, code[d].refs[h])'
    BY <2>1, <2>3 DEF RefRight
  <2>. QED BY <2>1, <2>4, <2>5 DEF RefsRight
<1>4. code'[b].state = "emitting" /\ RefRight(b, g, code[b].refs[g])'
  BY DEF RefRight, Live
<1>. QED BY <1>3, <1>4 DEF RefsRight

LEMMA RefAddedRight ==
  ASSUME NEW S \in SUBSET Codes, Right(S), NEW t \in Threads, th[t].pc = "emit", job.todo # <<>>,
         NEW g \in Functions, NEW a \in Address, RefRight(job.body, g, a), a # Null, Resolve(g, a),
         UNCHANGED <<th, lock, LazyDisabled, maps, stub, FunctionBlock, uses>>
  PROVE  Right(S)' /\ Keeps(S, S)
<1>. DEFINE at == th[t].at
            callee == th[t].callee
            after == th[t].after
            res == th[t].res
            b == job.body
<1>1. /\ TypeOK /\ Compiling /\ lock = t /\ Phase = "emit" /\ Asked = callee
      /\ th[t].want = callee /\ callee \in Functions /\ after \in {"call", "erase"}
      /\ PlaceRight(S, "emit", at, callee, callee, after, res)
  BY HolderKnown DEF Holding
<1>2. b \in Codes /\ code[b].state = "emitting"
  BY <1>1 DEF Compiling, JobRight
<1>3. /\ job'.fn = job.fn /\ job'.body = b /\ job'.queued = job.queued
      /\ job' \in [fn : Functions \cup {NoFunction}, body : Codes \cup {Null}, todo : Seq(Functions),
                   queued : BOOLEAN, tries : Nat]
      /\ \A d \in Codes : /\ d # b => code'[d] = code[d]
                          /\ code'[d].fn = code[d].fn /\ code'[d].state = code[d].state
      /\ code'[b].refs[g] = a
      /\ \A h \in Functions : h # g => code'[b].refs[h] = code[b].refs[h]
      /\ code' \in [Codes -> [fn : Functions \cup {NoFunction}, state : {"none", "emitting", "done", "freed"},
                              refs : [Functions -> Address]]]
  BY <1>1, <1>2, ResolveFields
<1>4. Goes(t, "emit", at, callee, callee, after, res)
  BY <1>1, StaysGoes
<1>5. TypeOK'
  BY <1>1, <1>3 DEF TypeOK, maps, uses
<1>6. Keeps(S, S)
  <2>1. b \notin S
    BY <1>2 DEF Right, Runnable, Live
  <2>. QED BY <1>3, <2>1 DEF Keeps, Leads, maps
<1>7. Compiling'
  <2>1. Phase' = "emit" /\ Asked' = callee /\ Phase' = Phase /\ Asked' = Asked
    <3>1. lock' = t
      BY <1>1
    <3>2. Phase' = "emit" /\ Asked' = callee
      <4>. HIDE DEF at, callee, after, res
      <4>. QED BY <1>4, <3>1, HolderPhaseNext
    <3>. QED BY <1>1, <3>2
  <2>2. Queue' = Queue /\ \A d \in Codes : Live(d)' <=> Live(d)
    BY <1>3 DEF Queue, maps, Live
  <2>3. JobRight'
    BY <1>1, <1>3, <2>1, <2>2 DEF Compiling, JobRight, maps
  <2>4. CodeRight'
    BY <1>1, <1>3, <2>1, <2>2 DEF Compiling, CodeRight, maps
  <2>5. MapRight'
    BY <1>1, <1>3, <2>1, <2>2 DEF Compiling, MapRight, maps
  <2>6. StubRight'
    BY <1>1, <1>3, <2>1, <2>2 DEF Compiling, StubRight, maps
  <2>7. QueueRight'
    BY <1>1, <1>3, <2>1 DEF Compiling, QueueRight, maps
  <2>8. RefsRight'
    <3>1. \A s \in Stubs : stub[s] # Unused => stub'[s] # Unused /\ StubToFunction'[s] = StubToFunction[s]
      BY DEF maps
    <3>2. \/ a = Outside /\ g \in External
          \/ a \in Codes /\ code[a].fn = g /\ (a = b \/ Live(a))
          \/ a \in Stubs /\ stub'[a] # Unused /\ StubToFunction'[a] = g
      BY DEF RefRight, maps
    <3>3. RefsRight
      BY <1>1 DEF Compiling
    <3>4. TypeOK /\ b \in Codes /\ code[b].state = "emitting"
      BY <1>1, <1>2
    <3>5. \A d \in Codes : /\ d # b => code'[d] = code[d]
                          /\ code'[d].fn = code[d].fn /\ code'[d].state = code[d].state
      BY <1>3
    <3>6. code'[b].refs[g] = a /\ \A h \in Functions : h # g => code'[b].refs[h] = code[b].refs[h]
      BY <1>3
    <3>. HIDE DEF at, callee, after, res, b
    <3>. QED BY <3>1, <3>2, <3>3, <3>4, <3>5, <3>6, RefsKept
  <2>. QED BY <2>3, <2>4, <2>5, <2>6, <2>7, <2>8 DEF Compiling
<1>8. "emit" \in PCs \ {"stub", "rejit", "free", "crashed", "null", "dead", "unknown"} /\ "emit" \in Holding
      /\ CurFnStubUses' = CurFnStubUses /\ lock' = t /\ lock \in {NoThread, t}
  BY <1>1 DEF PCs, Holding, uses
<1>. HIDE DEF at, callee, after, res
<1>. QED BY <1>1, <1>4, <1>5, <1>6, <1>7, <1>8, HolderStep

\* A stub is made for g while a body that calls it is emitted: it leads
\* outside, to the resolver, or nowhere yet, and then g is put on the work list.
LEMMA StubAddedRight ==
  ASSUME NEW S \in SUBSET Codes, Right(S), NEW t \in Threads, th[t].pc = "emit", job.todo # <<>>,
         NEW g \in Functions, FunctionToStub[g] = Null, ~LazyDisabled \/ GlobalAddress[g] = Null,
         NEW s \in FreshStubs, EmitStub(g, s), Resolve(g, s),
         UNCHANGED <<th, lock, LazyDisabled, FunctionBlock, uses>>
  PROVE  Right(S)' /\ Keeps(S, S)
<1>. DEFINE at == th[t].at
            callee == th[t].callee
            after == th[t].after
            res == th[t].res
            b == job.body
            f == job.fn
            v == ActualTarget(g)
<1>1. /\ TypeOK /\ Compiling /\ lock = t /\ Phase = "emit" /\ Asked = callee
      /\ th[t].want = callee /\ callee \in Functions /\ after \in {"call", "erase"}
      /\ f \in Functions \ External
      /\ PlaceRight(S, "emit", at, callee, callee, after, res)
  BY HolderKnown DEF Holding
<1>2. /\ b \in Codes /\ code[b].state = "emitting" /\ code[b].fn = f /\ GlobalAddress[f] = b
      /\ job.queued => FunctionToStub[f] \in Stubs /\ stub[FunctionToStub[f]] = Null
      /\ callee = f \/ (GlobalAddress[callee] \in Codes /\ Live(GlobalAddress[callee]))
  BY <1>1 DEF Compiling, JobRight
<1>3. s \in Stubs /\ stub[s] = Unused /\ s \in Address /\ s \notin Codes /\ s # Outside /\ s # Null
  BY Addresses DEF FreshStubs
<1>4. /\ job'.fn = job.fn /\ job'.body = b /\ job'.queued = job.queued
      /\ job' \in [fn : Functions \cup {NoFunction}, body : Codes \cup {Null}, todo : Seq(Functions),
                   queued : BOOLEAN, tries : Nat]
      /\ \A d \in Codes : /\ d # b => code'[d] = code[d]
                          /\ code'[d].fn = code[d].fn /\ code'[d].state = code[d].state
      /\ code'[b].refs[g] = s
      /\ \A h \in Functions : h # g => code'[b].refs[h] = code[b].refs[h]
      /\ code' \in [Codes -> [fn : Functions \cup {NoFunction}, state : {"none", "emitting", "done", "freed"},
                              refs : [Functions -> Address]]]
  BY <1>1, <1>2, <1>3, ResolveFields
<1>5. Goes(t, "emit", at, callee, callee, after, res)
  BY <1>1, StaysGoes
\* Where the stub leads.
<1>6. \/ v = Outside /\ g \in External
      \/ v = Resolver /\ g \notin External
      \/ v = Null /\ g \notin External /\ GlobalAddress[g] = Null
  <2>1. CASE g \in External
    <3>1. GlobalAddress[g] \in {Null, Outside}
      <4>1. GlobalAddress[g] \in Stubs => FunctionToStub[g] = GlobalAddress[g]
        BY <1>1 DEF Compiling, MapRight
      <4>2. GlobalAddress[g] \notin Stubs
        BY <4>1, Addresses
      <4>. QED BY <1>1, <2>1, <4>2 DEF Compiling, MapRight
    <3>. QED BY <2>1, <3>1 DEF ActualTarget
  <2>2. CASE g \notin External
    BY <2>2 DEF ActualTarget
  <2>. QED BY <2>1, <2>2
<1>. HIDE DEF v
<1>7. v \in Address \cup {Resolver} /\ v \notin Codes /\ v \notin Stubs /\ v # Unused
      /\ Outside # Null /\ Resolver # Null /\ Resolver # Outside
  BY <1>6, Addresses
<1>8. /\ stub'[s] = v /\ \A r \in Stubs : r # s => stub'[r] = stub[r]
      /\ stub' \in [Stubs -> Address \cup {Resolver, Torn, Unused}]
  BY <1>1, <1>3, <1>7 DEF EmitStub, TypeOK, v
<1>9. /\ FunctionToStub'[g] = s /\ \A h \in Functions : h # g => FunctionToStub'[h] = FunctionToStub[h]
      /\ FunctionToStub' \in [Functions -> Stubs \cup {Null}]
  BY <1>1, <1>3 DEF EmitStub, TypeOK
<1>10. /\ StubToFunction'[s] = g /\ \A r \in Stubs : r # s => StubToFunction'[r] = StubToFunction[r]
       /\ StubToFunction' \in [Stubs -> Functions \cup {NoFunction}]
  BY <1>1, <1>3 DEF EmitStub, Filed, TypeOK
<1>11. /\ \A h \in Functions : h # g => GlobalAddress'[h] = GlobalAddress[h]
       /\ GlobalAddress'[g] = IF v = Resolver THEN GlobalAddress[g] ELSE s
       /\ GlobalAddress' \in [Functions -> Address]
  BY <1>1, <1>3 DEF EmitStub, TypeOK, v
<1>12. /\ PendingFunctions' = IF v = Null THEN Append(PendingFunctions, g) ELSE PendingFunctions
       /\ PendingFunctions' \in Seq(Functions) /\ PendingFunctions \in Seq(Functions)
  BY <1>1 DEF EmitStub, Queued, TypeOK, v
<1>13. Queue' = IF v = Null THEN Queue \cup {g} ELSE Queue
  <2>1. CASE v # Null
    BY <1>12, <2>1 DEF Queue
  <2>2. CASE v = Null
    <3>1. PendingFunctions' = Append(PendingFunctions, g)
      BY <1>12, <2>2
    <3>2. /\ DOMAIN PendingFunctions = 1 .. Len(PendingFunctions)
          /\ DOMAIN PendingFunctions' = 1 .. Len(PendingFunctions) + 1
          /\ \A i \in 1 .. Len(PendingFunctions) : PendingFunctions'[i] = PendingFunctions[i]
          /\ PendingFunctions'[Len(PendingFunctions) + 1] = g /\ Len(PendingFunctions) \in Nat
      BY <1>12, <3>1
    <3>. QED BY <2>2, <3>2 DEF Queue
  <2>. QED BY <2>1, <2>2
<1>14. TypeOK'
  BY <1>1, <1>4, <1>8, <1>9, <1>10, <1>11, <1>12 DEF TypeOK, uses
<1>15. Keeps(S, S)
  <2>1. b \notin S
    BY <1>2 DEF Right, Runnable, Live
  <2>2. \A r \in Stubs : Leads(S, r) => r # s
    BY <1>3, LeadsUsed
  <2>. QED BY <1>3, <1>4, <1>8, <1>10, <2>1, <2>2 DEF Keeps, Leads
<1>16. Compiling'
  <2>1. Phase' = "emit" /\ Asked' = callee
    <3>1. lock' = t
      BY <1>1
    <3>. HIDE DEF at, callee, after, res
    <3>. QED BY <1>5, <3>1, HolderPhaseNext
  <2>2. \A d \in Codes : Live(d)' <=> Live(d)
    BY <1>4 DEF Live
  \* Addresses of code stay in the map.
  <2>3. \A h \in Functions : GlobalAddress[h] \in Codes => GlobalAddress'[h] = GlobalAddress[h]
    <3>1. GlobalAddress[g] \in Codes => v = Resolver
      <4>1. g \in External => GlobalAddress[g] \notin Codes
        BY <1>1, Addresses DEF Compiling, MapRight
      <4>2. Null \notin Codes
        BY Addresses
      <4>. QED BY <1>6, <4>1, <4>2
    <3>. QED BY <1>11, <3>1
  <2>4. JobRight'
    <3>1. GlobalAddress'[f] = b
      BY <1>1, <1>2, <2>3
    <3>2. job.queued => FunctionToStub'[f] \in Stubs /\ stub'[FunctionToStub'[f]] = Null
      <4>1. SUFFICES ASSUME job.queued PROVE FunctionToStub'[f] \in Stubs /\ stub'[FunctionToStub'[f]] = Null
        OBVIOUS
      <4>2. f # g /\ FunctionToStub[f] # s
        BY <1>2, <1>3, <4>1, Addresses DEF Address
      <4>. QED BY <1>1, <1>2, <1>8, <1>9, <4>1, <4>2
    <3>3. callee = f \/ (GlobalAddress'[callee] \in Codes /\ code'[GlobalAddress'[callee]].state = "done")
      <4>1. CASE GlobalAddress[callee] \in Codes /\ Live(GlobalAddress[callee])
        BY <1>1, <1>4, <2>3, <4>1 DEF Live
      <4>. QED BY <1>2, <4>1
    <3>4. JobRight' <=>
            /\ f \in Functions \ External
            /\ b \in Codes /\ GlobalAddress'[f] = b /\ code'[b].state = "emitting" /\ code'[b].fn = f
            /\ job.queued => FunctionToStub'[f] \in Stubs /\ stub'[FunctionToStub'[f]] = Null
            /\ callee = f \/ (GlobalAddress'[callee] \in Codes /\ code'[GlobalAddress'[callee]].state = "done")
      <4>. HIDE DEF callee, f, b
      <4>. QED BY <1>1, <1>4, <2>1 DEF JobRight, Live, f
    <3>. QED BY <1>1, <1>2, <1>4, <3>1, <3>2, <3>3, <3>4
  <2>5. CodeRight'
    <3>1. \A d \in Codes :
            /\ code[d].state = "emitting" => d = b
            /\ Live(d) => code[d].fn \in Functions \ External /\ GlobalAddress[code[d].fn] = d
      BY <1>1 DEF Compiling, CodeRight
    <3>. QED BY <1>4, <2>1, <2>2, <2>3, <3>1 DEF CodeRight
  <2>6. MapRight'
    <3>1. \A h \in Functions :
            /\ h \in External =>
                 GlobalAddress[h] \in {Null, Outside} \cup {r \in Stubs : stub[r] = Outside}
            /\ h \notin External =>
                 /\ GlobalAddress[h] # Outside
                 /\ GlobalAddress[h] \in Stubs => h \in Queue
            /\ GlobalAddress[h] \in Codes =>
                 /\ code[GlobalAddress[h]].fn = h
                 /\ Live(GlobalAddress[h]) \/ h = f
            /\ GlobalAddress[h] \in Stubs => FunctionToStub[h] = GlobalAddress[h]
      BY <1>1 DEF Compiling, MapRight
    <3>2. GlobalAddress[g] \notin Stubs
      BY <1>3, <3>1, Addresses
    <3>3. \A r \in Stubs : stub[r] = Outside => stub'[r] = Outside
      BY <1>3, <1>8, Addresses DEF Address
    <3>4. ASSUME NEW h \in Functions
          PROVE  /\ h \in External =>
                      GlobalAddress'[h] \in {Null, Outside} \cup {r \in Stubs : stub'[r] = Outside}
                 /\ h \notin External =>
                      /\ GlobalAddress'[h] # Outside
                      /\ GlobalAddress'[h] \in Stubs => h \in Queue'
                 /\ GlobalAddress'[h] \in Codes =>
                      /\ code'[GlobalAddress'[h]].fn = h
                      /\ Live(GlobalAddress[h])' \/ h = f
                 /\ GlobalAddress'[h] \in Stubs => FunctionToStub'[h] = GlobalAddress'[h]
      <4>1. CASE h # g
        BY <1>4, <1>9, <1>11, <1>13, <2>2, <3>1, <3>3, <4>1
      <4>2. CASE h = g /\ v = Resolver
        BY <1>4, <1>6, <1>7, <1>11, <2>2, <3>1, <3>2, <4>2
      <4>3. CASE h = g /\ v # Resolver
        BY <1>3, <1>6, <1>8, <1>9, <1>11, <1>13, <4>3
      <4>. QED BY <4>1, <4>2, <4>3
    <3>. QED BY <1>4, <2>1, <3>4 DEF MapRight
  <2>7. StubRight'
    <3>1. /\ \A h \in Functions : FunctionToStub[h] # Null =>
               /\ FunctionToStub[h] \in Stubs /\ FunctionToStub[h] # s
               /\ stub[FunctionToStub[h]] # Unused /\ StubToFunction[FunctionToStub[h]] = h
      BY <1>1, <1>3 DEF Compiling, StubRight, TypeOK
    <3>2. \A h \in Functions : FunctionToStub'[h] # Null =>
            stub'[FunctionToStub'[h]] # Unused /\ StubToFunction'[FunctionToStub'[h]] = h
      BY <1>7, <1>8, <1>9, <1>10, <3>1
    <3>3. \A r \in Stubs : r # s =>
       /\ stub[r] # Unused => StubToFunction[r] \in Functions
       /\ stub[r] \notin Stubs
       /\ stub[r] \in Codes => Live(stub[r]) /\ code[stub[r]].fn = StubToFunction[r]
       /\ stub[r] # Unused => (stub[r] = Outside <=> StubToFunction[r] \in External)
       /\ stub[r] = Null =>
            /\ FunctionToStub[StubToFunction[r]] = r
            /\ \/ StubToFunction[r] \in Queue
               \/ StubToFunction[r] = f /\ job.queued
      BY <1>1 DEF Compiling, StubRight
    <3>4. \A r \in Stubs : r # s /\ stub[r] = Null => StubToFunction[r] \in Functions /\ StubToFunction[r] # g
      BY <1>3, <3>3, Addresses DEF Address
    <3>5. \A r \in Stubs : r # s =>
       /\ stub'[r] # Unused => StubToFunction'[r] \in Functions
       /\ stub'[r] \notin Stubs
       /\ stub'[r] \in Codes => Live(stub[r])' /\ code'[stub'[r]].fn = StubToFunction'[r]
       /\ stub'[r] # Unused => (stub'[r] = Outside <=> StubToFunction'[r] \in External)
       /\ stub'[r] = Null =>
            /\ FunctionToStub'[StubToFunction'[r]] = r
            /\ \/ StubToFunction'[r] \in Queue'
               \/ StubToFunction'[r] = f /\ job.queued
      <4>1. SUFFICES ASSUME NEW r \in Stubs, r # s
                     PROVE  /\ stub'[r] # Unused => StubToFunction'[r] \in Functions
                            /\ stub'[r] \notin Stubs
                            /\ stub'[r] \in Codes => Live(stub[r])' /\ code'[stub'[r]].fn = StubToFunction'[r]
                            /\ stub'[r] # Unused => (stub'[r] = Outside <=> StubToFunction'[r] \in External)
                            /\ stub'[r] = Null =>
                                 /\ FunctionToStub'[StubToFunction'[r]] = r
                                 /\ \/ StubToFunction'[r] \in Queue'
                                    \/ StubToFunction'[r] = f /\ job.queued
        OBVIOUS
      <4>2. stub'[r] = stub[r] /\ StubToFunction'[r] = StubToFunction[r]
        BY <1>8, <1>10, <4>1
      <4>3. /\ stub'[r] # Unused => StubToFunction'[r] \in Functions
            /\ stub'[r] \notin Stubs
            /\ stub'[r] # Unused => (stub'[r] = Outside <=> StubToFunction'[r] \in External)
        BY <3>3, <4>1, <4>2
      <4>4. stub[r] \in Codes => Live(stub[r]) /\ code[stub[r]].fn = StubToFunction[r]
        BY <3>3, <4>1
      <4>5. stub'[r] \in Codes => Live(stub[r])' /\ code'[stub'[r]].fn = StubToFunction'[r]
        BY <1>4, <2>2, <4>2, <4>4
      <4>6. stub[r] = Null =>
              /\ StubToFunction[r] \in Functions /\ StubToFunction[r] # g
              /\ FunctionToStub[StubToFunction[r]] = r
              /\ \/ StubToFunction[r] \in Queue
                 \/ StubToFunction[r] = f /\ job.queued
        BY <3>3, <3>4, <4>1
      <4>7. stub'[r] = Null => FunctionToStub'[StubToFunction'[r]] = r
        BY <1>9, <4>2, <4>6
      <4>8. Queue \subseteq Queue'
        BY <1>13
      <4>9. stub'[r] = Null => \/ StubToFunction'[r] \in Queue'
                               \/ StubToFunction'[r] = f /\ job.queued
        BY <4>2, <4>6, <4>8
      <4>. QED BY <4>3, <4>5, <4>7, <4>9
    <3>6. /\ stub'[s] # Unused /\ StubToFunction'[s] \in Functions /\ stub'[s] \notin Stubs /\ stub'[s] \notin Codes
          /\ stub'[s] = Outside <=> StubToFunction'[s] \in External
          /\ stub'[s] = Null => FunctionToStub'[StubToFunction'[s]] = s /\ StubToFunction'[s] \in Queue'
      BY <1>6, <1>7, <1>8, <1>9, <1>10, <1>13
    <3>. HIDE DEF f
    <3>. QED BY <1>4, <2>1, <3>2, <3>5, <3>6 DEF StubRight, f
  <2>8. QueueRight'
    <3>1. \A i \in DOMAIN PendingFunctions :
            /\ PendingFunctions[i] \notin External /\ PendingFunctions[i] \in Functions
            /\ GlobalAddress[PendingFunctions[i]] \in Stubs /\ stub[GlobalAddress[PendingFunctions[i]]] = Null
            /\ FunctionToStub[PendingFunctions[i]] = GlobalAddress[PendingFunctions[i]]
      BY <1>1 DEF Compiling, QueueRight, MapRight, TypeOK
    <3>2. \A i \in DOMAIN PendingFunctions : PendingFunctions[i] # g /\ GlobalAddress[PendingFunctions[i]] # s
      BY <1>3, <3>1, Addresses DEF Address
    <3>3. \A i \in DOMAIN PendingFunctions :
            /\ PendingFunctions[i] \notin External /\ GlobalAddress'[PendingFunctions[i]] \in Stubs
            /\ stub'[GlobalAddress'[PendingFunctions[i]]] = Null
      BY <1>8, <1>11, <3>1, <3>2
    <3>4. \A i, j \in DOMAIN PendingFunctions : PendingFunctions[i] = PendingFunctions[j] => i = j
      BY <1>1 DEF Compiling, QueueRight
    <3>5. CASE v # Null
      BY <1>12, <2>1, <3>3, <3>4, <3>5 DEF QueueRight
    <3>6. CASE v = Null
      <4>1. PendingFunctions' = Append(PendingFunctions, g)
        BY <1>12, <3>6
      <4>. DEFINE n == Len(PendingFunctions)
      <4>2. /\ DOMAIN PendingFunctions = 1 .. n
            /\ DOMAIN PendingFunctions' = 1 .. n + 1
            /\ \A i \in 1 .. n : PendingFunctions'[i] = PendingFunctions[i]
            /\ PendingFunctions'[n + 1] = g /\ n \in Nat
        BY <1>12, <4>1
      <4>. HIDE DEF n
      <4>3. \A i \in DOMAIN PendingFunctions' : i \in DOMAIN PendingFunctions \/ i = n + 1
        BY <4>2
      <4>4. g \notin External /\ GlobalAddress'[g] = s /\ stub'[s] = Null /\ s \in Stubs
        BY <1>3, <1>6, <1>7, <1>8, <1>11, <3>6
      <4>5. \A i \in DOMAIN PendingFunctions' :
              /\ PendingFunctions'[i] \notin External /\ GlobalAddress'[PendingFunctions'[i]] \in Stubs
              /\ stub'[GlobalAddress'[PendingFunctions'[i]]] = Null
        BY <3>3, <4>2, <4>3, <4>4
      <4>6. \A i, j \in DOMAIN PendingFunctions' : PendingFunctions'[i] = PendingFunctions'[j] => i = j
        BY <3>2, <3>4, <4>2, <4>3
      <4>. QED BY <2>1, <4>5, <4>6 DEF QueueRight
    <3>. QED BY <3>5, <3>6
  <2>9. RefsRight'
    <3>1. \A r \in Stubs : stub[r] # Unused => stub'[r] # Unused /\ StubToFunction'[r] = StubToFunction[r]
      BY <1>3, <1>8, <1>10
    <3>2. stub'[s] # Unused /\ StubToFunction'[s] = g
      BY <1>7, <1>8, <1>10
    <3>3. RefsRight
      BY <1>1 DEF Compiling
    <3>4. TypeOK /\ b \in Codes /\ code[b].state = "emitting"
      BY <1>1, <1>2
    <3>5. \A d \in Codes : /\ d # b => code'[d] = code[d]
                          /\ code'[d].fn = code[d].fn /\ code'[d].state = code[d].state
      BY <1>4
    <3>6. code'[b].refs[g] = s /\ \A h \in Functions : h # g => code'[b].refs[h] = code[b].refs[h]
      BY <1>4
    <3>. HIDE DEF at, callee, after, res, b, f
    <3>. QED BY <1>3, <3>1, <3>2, <3>3, <3>4, <3>5, <3>6, RefsKept
  <2>. QED BY <2>4, <2>5, <2>6, <2>7, <2>8, <2>9 DEF Compiling
<1>17. "emit" \in PCs \ {"stub", "rejit", "free", "crashed", "null", "dead", "unknown"} /\ "emit" \in Holding
       /\ CurFnStubUses' = CurFnStubUses /\ lock' = t /\ lock \in {NoThread, t}
  BY <1>1 DEF PCs, Holding, uses
<1>. HIDE DEF at, callee, after, res
<1>. QED BY <1>1, <1>5, <1>14, <1>15, <1>16, <1>17, HolderStep

LEMMA RelocateRight ==
  ASSUME Plain, NEW S \in SUBSET Codes, Right(S), NEW t \in Threads, Relocate(t), UNCHANGED LazyDisabled
  PROVE  Right(S)' /\ Keeps(S, S)
<1>. DEFINE g == Head(job.todo)
            b == job.body
<1>1. /\ th[t].pc = "emit" /\ job.todo # <<>>
      /\ UNCHANGED <<th, lock, FunctionBlock, LazyDisabled>>
  BY DEF Relocate, At
<1>2. /\ TypeOK /\ Compiling /\ Phase = "emit" /\ job.fn \in Functions \ External
  BY <1>1, HolderKnown DEF Holding
<1>3. g \in Functions
  <2>1. job.todo \in Seq(Functions) /\ job.todo # <<>>
    BY <1>1, <1>2 DEF TypeOK
  <2>. QED BY <2>1
<1>4. b \in Codes /\ GlobalAddress[job.fn] = b
  BY <1>2 DEF Compiling, JobRight
<1>5. FunctionToStub[g] # Null => RefRight(b, g, FunctionToStub[g]) /\ FunctionToStub[g] \in Address
  BY <1>2, <1>3, Addresses DEF Compiling, StubRight, RefRight, TypeOK
<1>6. GlobalAddress[g] # Null => RefRight(b, g, GlobalAddress[g])
  <2>1. SUFFICES ASSUME GlobalAddress[g] # Null PROVE RefRight(b, g, GlobalAddress[g])
    OBVIOUS
  <2>2. GlobalAddress[g] \in {Outside} \cup Stubs \cup Codes
    BY <1>2, <1>3, <2>1, Addresses DEF TypeOK
  <2>3. CASE GlobalAddress[g] \in Stubs
    <3>1. FunctionToStub[g] = GlobalAddress[g]
      BY <1>2, <1>3, <2>3 DEF Compiling, MapRight
    <3>. QED BY <1>5, <2>1, <3>1
  <2>4. CASE GlobalAddress[g] = Outside
    BY <1>2, <1>3, <2>4 DEF Compiling, MapRight, RefRight
  <2>5. CASE GlobalAddress[g] \in Codes
    <3>1. code[GlobalAddress[g]].fn = g /\ (Live(GlobalAddress[g]) \/ g = job.fn)
      BY <1>2, <1>3, <2>5 DEF Compiling, MapRight
    <3>. QED BY <1>4, <2>5, <3>1 DEF RefRight
  <2>. QED BY <2>2, <2>3, <2>4, <2>5
<1>7. GlobalAddress[g] \in Address
  BY <1>2, <1>3 DEF TypeOK
<1>8. \A s : AddStub(job.fn, s) => UNCHANGED uses
  BY DEF AddStub, Plain
<1>9. CASE LazyDisabled /\ GlobalAddress[g] # Null /\ Resolve(g, GlobalAddress[g]) /\ UNCHANGED <<maps, stub, uses>>
  <2>. HIDE DEF g
  <2>. QED BY <1>1, <1>3, <1>6, <1>7, <1>9, RefAddedRight
<1>10. CASE /\ FunctionToStub[g] # Null /\ Resolve(g, FunctionToStub[g])
            /\ AddStub(job.fn, FunctionToStub[g]) /\ UNCHANGED <<maps, stub>>
  <2>. HIDE DEF g
  <2>. QED BY <1>1, <1>3, <1>5, <1>8, <1>10, RefAddedRight
<1>11. CASE /\ ~LazyDisabled \/ GlobalAddress[g] = Null
            /\ FunctionToStub[g] = Null
            /\ \E s \in FreshStubs : Resolve(g, s) /\ EmitStub(g, s) /\ AddStub(job.fn, s)
  <2>. HIDE DEF g
  <2>1. PICK s \in FreshStubs : Resolve(g, s) /\ EmitStub(g, s) /\ AddStub(job.fn, s)
    BY <1>11
  <2>2. UNCHANGED uses
    BY <1>8, <2>1
  <2>. QED BY <1>1, <1>3, <1>11, <2>1, <2>2, StubAddedRight
<1>. QED BY <1>9, <1>10, <1>11 DEF Relocate

LEMMA DeallocateFields ==
  ASSUME TypeOK, NoUses, NEW f \in Functions, NEW b \in Codes, Deallocate(f, b)
  PROVE  /\ code' = [code EXCEPT ![b].state = "freed"]
         /\ FunctionBlock' = [FunctionBlock EXCEPT ![f] = Null]
         /\ UNCHANGED <<CurFnStubUses, StubFnRefs, StubToFunction, FunctionToStub, GlobalAddress>>
<1>1. b # Null
  BY Addresses
<1>2. CurFnStubUses[f] = {} /\ Dropped(f) = {} /\ Orphans(f) = {}
  BY DEF NoUses, Dropped, Orphans
<1>3. code' = [code EXCEPT ![b].state = "freed"] /\ FunctionBlock' = [FunctionBlock EXCEPT ![f] = Null]
  BY <1>1 DEF Deallocate
<1>4. CurFnStubUses' = CurFnStubUses
  BY <1>2 DEF Deallocate, TypeOK
<1>5. StubFnRefs' = StubFnRefs
  <2>1. StubFnRefs' = [s \in Stubs |-> StubFnRefs[s] \ (IF s \in CurFnStubUses[f] THEN {f} ELSE {})]
    BY DEF Deallocate
  <2>2. \A s \in Stubs : StubFnRefs[s] \ (IF s \in CurFnStubUses[f] THEN {f} ELSE {}) = StubFnRefs[s]
    BY <1>2
  <2>3. StubFnRefs = [s \in Stubs |-> StubFnRefs[s]]
    BY DEF TypeOK
  <2>. QED BY <2>1, <2>2, <2>3
<1>6. StubToFunction' = StubToFunction
  <2>1. StubToFunction' = [s \in Stubs |-> IF s \in Dropped(f) THEN NoFunction ELSE StubToFunction[s]]
    BY DEF Deallocate
  <2>2. StubToFunction = [s \in Stubs |-> StubToFunction[s]]
    BY DEF TypeOK
  <2>. QED BY <1>2, <2>1, <2>2
<1>7. FunctionToStub' = FunctionToStub
  <2>1. FunctionToStub' = [g \in Functions |-> IF g \in Orphans(f) THEN Null ELSE FunctionToStub[g]]
    BY DEF Deallocate
  <2>2. FunctionToStub = [g \in Functions |-> FunctionToStub[g]]
    BY DEF TypeOK
  <2>. QED BY <1>2, <2>1, <2>2
<1>8. GlobalAddress' = GlobalAddress
  <2>1. GlobalAddress' = [g \in Functions |-> IF g \in Orphans(f) THEN Null ELSE GlobalAddress[g]]
    BY DEF Deallocate
  <2>2. GlobalAddress = [g \in Functions |-> GlobalAddress[g]]
    BY DEF TypeOK
  <2>. QED BY <1>2, <2>1, <2>2
<1>. QED BY <1>3, <1>4, <1>5, <1>6, <1>7, <1>8

\* A step of emission changes the state of a body and keeps everything else of it.
LEMMA StateFields ==
  ASSUME TypeOK, NEW b \in Codes, NEW x \in {"none", "emitting", "done", "freed"},
         code' = [code EXCEPT ![b].state = x]
  PROVE  /\ code'[b].state = x /\ \A d \in Codes : d # b => code'[d] = code[d]
         /\ \A d \in Codes : code'[d].fn = code[d].fn /\ code'[d].refs = code[d].refs
         /\ code' \in [Codes -> [fn : Functions \cup {NoFunction}, state : {"none", "emitting", "done", "freed"},
                                 refs : [Functions -> Address]]]
<1>. DEFINE Code == [fn : Functions \cup {NoFunction}, state : {"none", "emitting", "done", "freed"},
                     refs : [Functions -> Address]]
            r == [code[b] EXCEPT !.state = x]
<1>1. code \in [Codes -> Code] /\ code[b] \in Code
  BY DEF TypeOK
<1>2. r \in Code /\ r.fn = code[b].fn /\ r.refs = code[b].refs /\ r.state = x
  BY <1>1
<1>3. code' = [code EXCEPT ![b] = r]
  BY <1>1
<1>. HIDE DEF r, Code
<1>. QED BY <1>1, <1>2, <1>3 DEF Code

LEMMA RetryRight ==
  ASSUME NEW S \in SUBSET Codes, Right(S), NEW t \in Threads, RetryWithMoreMemory(t), UNCHANGED LazyDisabled
  PROVE  Right(S)' /\ Keeps(S, S)
<1>. DEFINE at == th[t].at
            callee == th[t].callee
            after == th[t].after
            res == th[t].res
            b == job.body
            f == job.fn
<1>1. /\ TypeOK /\ Compiling /\ lock = t /\ Phase = "emit" /\ Asked = callee /\ th[t].pc = "emit"
      /\ th[t].want = callee /\ callee \in Functions /\ after \in {"call", "erase"}
      /\ f \in Functions \ External
      /\ PlaceRight(S, "start", at, callee, callee, after, res)
  <2>1. th[t].pc = "emit"
    BY DEF RetryWithMoreMemory, At
  <2>. QED BY <2>1, HolderKnown DEF Holding
<1>2. /\ b \in Codes /\ code[b].state = "emitting" /\ code[b].fn = f /\ GlobalAddress[f] = b
      /\ job.queued => FunctionToStub[f] \in Stubs /\ stub[FunctionToStub[f]] = Null
      /\ callee = f \/ (GlobalAddress[callee] \in Codes /\ Live(GlobalAddress[callee]))
  BY <1>1 DEF Compiling, JobRight
<1>3. Goes(t, "start", at, callee, callee, after, res)
  <2>1. "start" \in PCs /\ Goto(t, "start")
    BY DEF PCs, RetryWithMoreMemory
  <2>. QED BY <1>1, <2>1, GotoGoes
<1>4. /\ code' = [code EXCEPT ![b].state = "freed"]
      /\ FunctionBlock' = [FunctionBlock EXCEPT ![f] = Null]
      /\ UNCHANGED <<lock, CurFnStubUses, StubFnRefs, StubToFunction, FunctionToStub, GlobalAddress,
                     PendingFunctions, stub, LazyDisabled>>
  <2>1. Deallocate(f, b) /\ NoUses /\ UNCHANGED <<lock, PendingFunctions, stub>>
    BY DEF RetryWithMoreMemory, Right
  <2>2. f \in Functions
    BY <1>1
  <2>. HIDE DEF f, b
  <2>. QED BY <1>1, <1>2, <2>1, <2>2, DeallocateFields
<1>5. /\ code'[b].state = "freed" /\ \A d \in Codes : d # b => code'[d] = code[d]
      /\ \A d \in Codes : code'[d].fn = code[d].fn /\ code'[d].refs = code[d].refs
      /\ code' \in [Codes -> [fn : Functions \cup {NoFunction}, state : {"none", "emitting", "done", "freed"},
                              refs : [Functions -> Address]]]
  BY <1>1, <1>2, <1>4, StateFields
<1>6. /\ job'.fn = f /\ job'.queued = job.queued
      /\ job' \in [fn : Functions \cup {NoFunction}, body : Codes \cup {Null}, todo : Seq(Functions),
                   queued : BOOLEAN, tries : Nat]
  <2>1. job' = [job EXCEPT !.tries = job.tries + 1]
    BY DEF RetryWithMoreMemory
  <2>2. job \in [fn : Functions \cup {NoFunction}, body : Codes \cup {Null}, todo : Seq(Functions),
                 queued : BOOLEAN, tries : Nat]
    BY <1>1 DEF TypeOK
  <2>3. job.tries + 1 \in Nat
    BY <2>2
  <2>. QED BY <2>1, <2>2, <2>3
<1>7. TypeOK'
  <2>1. FunctionBlock' \in [Functions -> Codes \cup {Null}]
    BY <1>1, <1>4 DEF TypeOK
  <2>. QED BY <1>1, <1>3, <1>4, <1>5, <1>6, <2>1 DEF TypeOK, Goes
<1>8. Keeps(S, S)
  <2>1. b \notin S
    BY <1>2 DEF Right, Runnable, Live
  <2>. QED BY <1>4, <1>5, <2>1 DEF Keeps, Leads, Right
<1>9. Compiling'
  <2>1. Phase' = "start" /\ Asked' = callee
    <3>1. lock' = t
      BY <1>1, <1>4
    <3>. HIDE DEF at, callee, after, res
    <3>. QED BY <1>3, <3>1, HolderPhaseNext
  <2>2. Queue' = Queue
    BY <1>4 DEF Queue
  <2>3. ~Live(b) /\ (\A d \in Codes : Live(d)' <=> Live(d)) /\ \A d \in Codes : code'[d].state # "emitting"
    <3>1. \A d \in Codes : code[d].state = "emitting" => d = b
      BY <1>1 DEF Compiling, CodeRight
    <3>. QED BY <1>2, <1>5, <3>1 DEF Live
  <2>4. JobRight'
    <3>1. \A c \in Codes : GlobalAddress'[f] = c => ~Live(c)'
      BY <1>2, <1>4, <2>3
    <3>2. callee = f \/ (GlobalAddress'[callee] \in Codes /\ code'[GlobalAddress'[callee]].state = "done")
      <4>1. GlobalAddress[callee] \in Codes /\ Live(GlobalAddress[callee]) =>
              GlobalAddress[callee] # b /\ code'[GlobalAddress[callee]] = code[GlobalAddress[callee]]
        BY <1>5, <2>3
      <4>. QED BY <1>2, <1>4, <4>1 DEF Live
    <3>3. JobRight' <=>
            /\ f \in Functions \ External
            /\ \A c \in Codes : GlobalAddress'[f] = c => ~Live(c)'
            /\ job.queued => FunctionToStub'[f] \in Stubs /\ stub'[FunctionToStub'[f]] = Null
            /\ callee = f \/ (GlobalAddress'[callee] \in Codes /\ code'[GlobalAddress'[callee]].state = "done")
      <4>. HIDE DEF callee, f
      <4>. QED BY <1>1, <1>6, <2>1 DEF JobRight, Live
    <3>. QED BY <1>1, <1>2, <1>4, <3>1, <3>2, <3>3
  <2>5. CodeRight'
    <3>1. \A d \in Codes : Live(d) => code[d].fn \in Functions \ External /\ GlobalAddress[code[d].fn] = d
      BY <1>1 DEF Compiling, CodeRight
    <3>. QED BY <1>4, <1>5, <2>3, <3>1 DEF CodeRight
  <2>6. MapRight'
    BY <1>1, <1>4, <1>5, <1>6, <2>1, <2>2, <2>3 DEF Compiling, MapRight
  <2>7. StubRight'
    BY <1>1, <1>4, <1>5, <1>6, <2>1, <2>2, <2>3 DEF Compiling, StubRight
  <2>8. QueueRight'
    <3>1. \A i \in DOMAIN PendingFunctions : PendingFunctions[i] # f
      BY <1>1, <1>2, Addresses DEF Compiling, QueueRight
    <3>. QED BY <1>1, <1>4, <1>6, <2>1, <3>1 DEF Compiling, QueueRight
  <2>9. RefsRight'
    <3>1. \A d \in Codes, g \in Functions : d # b =>
            /\ code[d].state = "none" => code[d].refs[g] = Null
            /\ code[d].state \in {"emitting", "done"} => RefRight(d, g, code[d].refs[g])
      BY <1>1 DEF Compiling, RefsRight
    <3>2. \A d \in Codes, g \in Functions, a \in Address : RefRight(d, g, a) => RefRight(d, g, a)'
      BY <1>4, <1>5, <2>3 DEF RefRight
    <3>3. \A d \in Codes, g \in Functions : code[d].refs[g] \in Address
      BY <1>1 DEF TypeOK
    <3>4. ASSUME NEW d \in Codes, NEW g \in Functions, d # b, code[d].state \in {"emitting", "done"}
          PROVE  RefRight(d, g, code[d].refs[g])'
      <4>1. PICK a \in Address : a = code[d].refs[g]
        BY <3>3
      <4>2. RefRight(d, g, a)'
        BY <3>1, <3>2, <3>4, <4>1
      <4>. QED BY <1>5, <4>1, <4>2 DEF RefRight
    <3>. QED BY <1>5, <3>1, <3>4 DEF RefsRight
  <2>. QED BY <2>4, <2>5, <2>6, <2>7, <2>8, <2>9 DEF Compiling
<1>10. "start" \in PCs \ {"stub", "rejit", "free", "crashed", "null", "dead", "unknown"} /\ "start" \in Holding
       /\ CurFnStubUses' = CurFnStubUses /\ lock' = t /\ lock \in {NoThread, t}
  BY <1>1, <1>4 DEF PCs, Holding
<1>. HIDE DEF at, callee, after, res
<1>. QED BY <1>1, <1>3, <1>7, <1>8, <1>9, <1>10, HolderStep

LEMMA FinishFunctionRight ==
  ASSUME NEW S \in SUBSET Codes, Right(S), NEW t \in Threads, FinishFunction(t), UNCHANGED LazyDisabled
  PROVE  Right(S)' /\ Keeps(S, S)
<1>. DEFINE at == th[t].at
            callee == th[t].callee
            after == th[t].after
            res == th[t].res
            b == job.body
            f == job.fn
            pc == IF job.queued THEN "restub" ELSE "next"
<1>1. /\ TypeOK /\ Compiling /\ lock = t /\ Phase = "emit" /\ Asked = callee /\ th[t].pc = "emit"
      /\ th[t].want = callee /\ callee \in Functions /\ after \in {"call", "erase"}
      /\ f \in Functions \ External
      /\ PlaceRight(S, pc, at, callee, callee, after, res)
  <2>1. th[t].pc = "emit"
    BY DEF FinishFunction, At
  <2>. QED BY <2>1, HolderKnown DEF Holding
<1>2. /\ b \in Codes /\ code[b].state = "emitting" /\ code[b].fn = f /\ GlobalAddress[f] = b
      /\ job.queued => FunctionToStub[f] \in Stubs /\ stub[FunctionToStub[f]] = Null
      /\ callee = f \/ (GlobalAddress[callee] \in Codes /\ Live(GlobalAddress[callee]))
  BY <1>1 DEF Compiling, JobRight
<1>3. Goes(t, pc, at, callee, callee, after, res)
  BY <1>1, FinishGoes
<1>4. /\ code' = [code EXCEPT ![b].state = "done"]
      /\ FunctionBlock' = [FunctionBlock EXCEPT ![f] = b]
      /\ UNCHANGED <<compiler, maps, stub, uses, LazyDisabled>>
  BY DEF FinishFunction
<1>5. /\ code'[b].state = "done" /\ \A d \in Codes : d # b => code'[d] = code[d]
      /\ \A d \in Codes : code'[d].fn = code[d].fn /\ code'[d].refs = code[d].refs
      /\ code' \in [Codes -> [fn : Functions \cup {NoFunction}, state : {"none", "emitting", "done", "freed"},
                              refs : [Functions -> Address]]]
  BY <1>1, <1>2, <1>4, StateFields
<1>6. TypeOK'
  <2>1. FunctionBlock' \in [Functions -> Codes \cup {Null}]
    BY <1>1, <1>2, <1>4 DEF TypeOK
  <2>. QED BY <1>1, <1>3, <1>4, <1>5, <2>1 DEF TypeOK, Goes, compiler, maps, uses
<1>7. Keeps(S, S)
  <2>1. b \notin S
    BY <1>2 DEF Right, Runnable, Live
  <2>. QED BY <1>4, <1>5, <2>1 DEF Keeps, Leads, maps
<1>. HIDE DEF pc
<1>8. pc \in {"restub", "next"} /\ (pc = "restub" <=> job.queued)
  BY DEF pc
<1>9. Compiling'
  <2>1. Phase' = pc /\ Asked' = callee
    <3>1. lock' = t
      BY <1>1, <1>4 DEF compiler
    <3>. HIDE DEF at, callee, after, res
    <3>. QED BY <1>3, <3>1, HolderPhaseNext
  <2>2. Queue' = Queue
    BY <1>4 DEF Queue, maps
  <2>3. /\ ~Live(b) /\ Live(b)' /\ \A d \in Codes : Live(d)' <=> Live(d) \/ d = b
        /\ \A d \in Codes : code'[d].state # "emitting"
    <3>1. \A d \in Codes : code[d].state = "emitting" => d = b
      BY <1>1 DEF Compiling, CodeRight
    <3>. QED BY <1>2, <1>4, <1>5, <3>1 DEF Live, compiler
  <2>4. JobRight'
    <3>1. GlobalAddress'[f] \in Codes /\ code'[GlobalAddress'[f]].state = "done"
      BY <1>2, <1>4, <1>5 DEF maps
    <3>2. callee = f \/ (GlobalAddress'[callee] \in Codes /\ code'[GlobalAddress'[callee]].state = "done")
      <4>1. GlobalAddress[callee] \in Codes /\ Live(GlobalAddress[callee]) =>
              GlobalAddress[callee] # b /\ code'[GlobalAddress[callee]] = code[GlobalAddress[callee]]
        BY <1>5, <2>3
      <4>. QED BY <1>2, <1>4, <4>1 DEF Live, maps
    <3>3. JobRight' <=>
            /\ f \in Functions \ External
            /\ GlobalAddress'[f] \in Codes /\ code'[GlobalAddress'[f]].state = "done"
            /\ pc # "next" /\ job.queued => FunctionToStub'[f] \in Stubs /\ stub'[FunctionToStub'[f]] = Null
            /\ pc = "restub" => job.queued
            /\ callee = f \/ (GlobalAddress'[callee] \in Codes /\ code'[GlobalAddress'[callee]].state = "done")
      <4>. HIDE DEF callee, f
      <4>. QED BY <1>1, <1>4, <1>8, <2>1 DEF JobRight, Live, compiler, f
    <3>. QED BY <1>1, <1>2, <1>4, <1>8, <3>1, <3>2, <3>3 DEF maps
  <2>5. CodeRight'
    <3>1. \A d \in Codes : Live(d) => code[d].fn \in Functions \ External /\ GlobalAddress[code[d].fn] = d
      BY <1>1 DEF Compiling, CodeRight
    <3>. QED BY <1>1, <1>2, <1>4, <1>5, <2>3, <3>1 DEF CodeRight, maps
  <2>6. MapRight'
    BY <1>1, <1>2, <1>4, <1>5, <1>8, <2>1, <2>2, <2>3 DEF Compiling, MapRight, maps, compiler
  <2>7. StubRight'
    BY <1>1, <1>4, <1>5, <1>8, <2>1, <2>2, <2>3 DEF Compiling, StubRight, maps, compiler
  <2>8. QueueRight'
    BY <1>1, <1>4, <1>8, <2>1 DEF Compiling, QueueRight, maps
  <2>9. RefsRight'
    <3>1. \A d \in Codes, g \in Functions :
            /\ code'[d].state = "none" => code[d].refs[g] = Null
            /\ code'[d].state \in {"emitting", "done"} => RefRight(d, g, code[d].refs[g])
      BY <1>1, <1>2, <1>5 DEF Compiling, RefsRight
    <3>2. \A d \in Codes, g \in Functions, a \in Address : RefRight(d, g, a) => RefRight(d, g, a)'
      BY <1>4, <1>5, <2>3 DEF RefRight, maps
    <3>3. \A d \in Codes, g \in Functions : code[d].refs[g] \in Address
      BY <1>1 DEF TypeOK
    <3>4. ASSUME NEW d \in Codes, NEW g \in Functions, code'[d].state \in {"emitting", "done"}
          PROVE  RefRight(d, g, code[d].refs[g])'
      <4>1. PICK a \in Address : a = code[d].refs[g]
        BY <3>3
      <4>2. RefRight(d, g, a)'
        BY <3>1, <3>2, <3>4, <4>1
      <4>. QED BY <1>5, <4>1, <4>2 DEF RefRight
    <3>. QED BY <1>5, <3>1, <3>4 DEF RefsRight
  <2>. QED BY <2>4, <2>5, <2>6, <2>7, <2>8, <2>9 DEF Compiling
<1>10. pc \in PCs \ {"stub", "rejit", "free", "crashed", "null", "dead", "unknown"} /\ pc \in Holding
       /\ CurFnStubUses' = CurFnStubUses /\ lock' = t /\ lock \in {NoThread, t}
  BY <1>1, <1>4, <1>8 DEF PCs, Holding, compiler, uses
<1>. HIDE DEF at, callee, after, res
<1>. QED BY <1>1, <1>3, <1>6, <1>7, <1>9, <1>10, HolderStep

LEMMA UpdateFunctionStubRight ==
  ASSUME NEW S \in SUBSET Codes, Right(S), NEW t \in Threads, UpdateFunctionStub(t), UNCHANGED LazyDisabled
  PROVE  Right(S)' /\ Keeps(S, S)
<1>. DEFINE at == th[t].at
            callee == th[t].callee
            after == th[t].after
            res == th[t].res
            f == job.fn
            s == FunctionToStub[f]
            c == GlobalAddress[f]
<1>1. /\ TypeOK /\ Compiling /\ lock = t /\ Phase = "restub" /\ Asked = callee /\ th[t].pc = "restub"
      /\ th[t].want = callee /\ callee \in Functions /\ after \in {"call", "erase"}
      /\ f \in Functions \ External
      /\ PlaceRight(S, "next", at, callee, callee, after, res)
  <2>1. th[t].pc = "restub"
    BY DEF UpdateFunctionStub, At
  <2>. QED BY <2>1, HolderKnown DEF Holding
<1>2. /\ c \in Codes /\ Live(c) /\ code[c].fn = f /\ job.queued
      /\ s \in Stubs /\ stub[s] = Null
      /\ callee = f \/ (GlobalAddress[callee] \in Codes /\ Live(GlobalAddress[callee]))
  BY <1>1 DEF Compiling, JobRight, MapRight
<1>3. StubToFunction[s] = f
  BY <1>1, <1>2, Addresses DEF Compiling, StubRight
<1>4. Goes(t, "next", at, callee, callee, after, res)
  <2>1. "next" \in PCs /\ Goto(t, "next")
    BY DEF PCs, UpdateFunctionStub
  <2>. QED BY <1>1, <2>1, GotoGoes
<1>5. /\ stub' = [stub EXCEPT ![s] = c]
      /\ UNCHANGED <<compiler, maps, code, FunctionBlock, uses, LazyDisabled>>
  BY DEF UpdateFunctionStub
<1>6. /\ stub'[s] = c /\ \A r \in Stubs : r # s => stub'[r] = stub[r]
      /\ stub' \in [Stubs -> Address \cup {Resolver, Torn, Unused}]
  BY <1>1, <1>2, <1>5, Addresses DEF TypeOK
<1>7. c \notin {Null, Outside, Unused, Resolver, Torn} \cup Stubs
  BY <1>2, Addresses DEF Address
<1>8. \A r \in Stubs : /\ stub'[r] = Unused <=> stub[r] = Unused
                       /\ stub'[r] = Outside <=> stub[r] = Outside
                       /\ stub'[r] = Null <=> stub[r] = Null /\ r # s
  BY <1>2, <1>6, <1>7, Addresses DEF Address
<1>9. TypeOK'
  BY <1>1, <1>4, <1>5, <1>6 DEF TypeOK, Goes, compiler, maps, uses
<1>10. Keeps(S, S)
  <2>1. ~Leads(S, s)
    BY <1>2, Addresses DEF Leads, Address
  <2>. QED BY <1>5, <1>6, <2>1 DEF Keeps, Leads, maps
<1>11. Compiling'
  <2>1. Phase' = "next" /\ Asked' = callee
    <3>1. lock' = t
      BY <1>1, <1>5 DEF compiler
    <3>. HIDE DEF at, callee, after, res
    <3>. QED BY <1>4, <3>1, HolderPhaseNext
  <2>2. Queue' = Queue /\ \A d \in Codes : Live(d)' <=> Live(d)
    BY <1>5 DEF Queue, maps, Live
  <2>3. JobRight'
    <3>1. JobRight' <=>
            /\ f \in Functions \ External
            /\ c \in Codes /\ Live(c)
            /\ callee = f \/ (GlobalAddress[callee] \in Codes /\ Live(GlobalAddress[callee]))
      <4>. HIDE DEF callee
      <4>. QED BY <1>1, <1>5, <2>1 DEF JobRight, Live, compiler, maps
    <3>. QED BY <1>1, <1>2, <3>1
  <2>4. CodeRight'
    BY <1>1, <1>5, <2>1, <2>2 DEF Compiling, CodeRight, maps
  <2>5. MapRight'
    BY <1>1, <1>5, <1>8, <2>1, <2>2 DEF Compiling, MapRight, maps, compiler
  <2>6. StubRight'
    <3>1. \A g \in Functions : FunctionToStub[g] # Null =>
            /\ FunctionToStub[g] \in Stubs /\ stub[FunctionToStub[g]] # Unused
            /\ StubToFunction[FunctionToStub[g]] = g
      BY <1>1 DEF Compiling, StubRight, TypeOK
    <3>2. \A r \in Stubs : r # s =>
            /\ stub[r] # Unused => StubToFunction[r] \in Functions
            /\ stub[r] \notin Stubs
            /\ stub[r] \in Codes => Live(stub[r]) /\ code[stub[r]].fn = StubToFunction[r]
            /\ stub[r] # Unused => (stub[r] = Outside <=> StubToFunction[r] \in External)
            /\ stub[r] = Null => FunctionToStub[StubToFunction[r]] = r /\ StubToFunction[r] \in Queue
      BY <1>1 DEF Compiling, StubRight
    <3>3. \A r \in Stubs :
            /\ stub'[r] # Unused => StubToFunction[r] \in Functions
            /\ stub'[r] \notin Stubs
            /\ stub'[r] \in Codes => Live(stub'[r]) /\ code[stub'[r]].fn = StubToFunction[r]
            /\ stub'[r] # Unused => (stub'[r] = Outside <=> StubToFunction[r] \in External)
            /\ stub'[r] = Null => FunctionToStub[StubToFunction[r]] = r /\ StubToFunction[r] \in Queue
      BY <1>1, <1>2, <1>3, <1>6, <1>7, <1>8, <3>2
    <3>4. \A g \in Functions : FunctionToStub[g] # Null =>
            stub'[FunctionToStub[g]] # Unused /\ StubToFunction[FunctionToStub[g]] = g
      BY <1>8, <3>1
    <3>. HIDE DEF f, s, c
    <3>. QED BY <1>5, <2>2, <3>3, <3>4 DEF StubRight, maps, Live
  <2>7. QueueRight'
    <3>1. \A i \in DOMAIN PendingFunctions :
            /\ PendingFunctions[i] \notin External /\ PendingFunctions[i] \in Functions
            /\ GlobalAddress[PendingFunctions[i]] \in Stubs /\ stub[GlobalAddress[PendingFunctions[i]]] = Null
            /\ FunctionToStub[PendingFunctions[i]] = GlobalAddress[PendingFunctions[i]]
      BY <1>1 DEF Compiling, QueueRight, MapRight, TypeOK
    <3>2. \A i \in DOMAIN PendingFunctions : StubToFunction[GlobalAddress[PendingFunctions[i]]] = PendingFunctions[i]
      BY <1>1, <3>1, Addresses DEF Compiling, StubRight
    <3>3. \A i \in DOMAIN PendingFunctions : GlobalAddress[PendingFunctions[i]] # s
      BY <1>2, <1>3, <1>7, <3>1, <3>2
    <3>4. \A i \in DOMAIN PendingFunctions : stub'[GlobalAddress[PendingFunctions[i]]] = Null
      BY <1>6, <3>1, <3>3
    <3>. HIDE DEF f, s, c
    <3>. QED BY <1>1, <1>5, <2>1, <3>1, <3>4 DEF Compiling, QueueRight, maps
  <2>8. RefsRight'
    BY <1>1, <1>5, <1>8, <2>2 DEF Compiling, RefsRight, RefRight, maps
  <2>. QED BY <2>3, <2>4, <2>5, <2>6, <2>7, <2>8 DEF Compiling
<1>12. "next" \in PCs \ {"stub", "rejit", "free", "crashed", "null", "dead", "unknown"} /\ "next" \in Holding
       /\ CurFnStubUses' = CurFnStubUses /\ lock' = t /\ lock \in {NoThread, t}
  BY <1>1, <1>5 DEF PCs, Holding, compiler, uses
<1>. HIDE DEF at, callee, after, res
<1>. QED BY <1>1, <1>4, <1>9, <1>10, <1>11, <1>12, HolderStep

LEMMA NextPendingRight ==
  ASSUME NEW S \in SUBSET Codes, Right(S), NEW t \in Threads, NextPending(t), UNCHANGED LazyDisabled
  PROVE  Right(S)' /\ Keeps(S, S)
<1>. DEFINE at == th[t].at
            callee == th[t].callee
            after == th[t].after
            res == th[t].res
            n == Len(PendingFunctions)
            f == PendingFunctions[n]
<1>1. /\ TypeOK /\ Compiling /\ lock = t /\ Phase = "next" /\ Asked = callee /\ th[t].pc = "next"
      /\ th[t].want = callee /\ callee \in Functions /\ after \in {"call", "erase"}
      /\ PlaceRight(S, "start", at, callee, callee, after, res)
  <2>1. th[t].pc = "next"
    BY DEF NextPending, At
  <2>. QED BY <2>1, HolderKnown DEF Holding
<1>2. GlobalAddress[callee] \in Codes /\ Live(GlobalAddress[callee])
  BY <1>1 DEF Compiling, JobRight
<1>3. Goes(t, "start", at, callee, callee, after, res)
  <2>1. "start" \in PCs /\ Goto(t, "start")
    BY DEF PCs, NextPending
  <2>. QED BY <1>1, <2>1, GotoGoes
<1>4. /\ n > 0 /\ job' = [Begin(f) EXCEPT !.queued = TRUE]
      /\ PendingFunctions' = SubSeq(PendingFunctions, 1, n - 1)
      /\ UNCHANGED <<lock, GlobalAddress, FunctionToStub, StubToFunction, memory, uses, LazyDisabled>>
  BY DEF NextPending
<1>5. /\ PendingFunctions \in Seq(Functions) /\ n \in DOMAIN PendingFunctions /\ f \in Functions
      /\ PendingFunctions' \in Seq(Functions)
      /\ DOMAIN PendingFunctions = 1 .. n /\ DOMAIN PendingFunctions' = 1 .. n - 1 /\ n \in Nat
      /\ \A i \in 1 .. n - 1 : PendingFunctions'[i] = PendingFunctions[i]
  <2>1. PendingFunctions \in Seq(Functions)
    BY <1>1 DEF TypeOK
  <2>. QED BY <1>4, <2>1
<1>6. /\ f \notin External /\ GlobalAddress[f] \in Stubs /\ stub[GlobalAddress[f]] = Null
      /\ FunctionToStub[f] = GlobalAddress[f]
  BY <1>1, <1>5 DEF Compiling, QueueRight, MapRight
<1>. HIDE DEF f, n
<1>7. /\ job'.fn = f /\ job'.queued = TRUE
      /\ job' \in [fn : Functions \cup {NoFunction}, body : Codes \cup {Null}, todo : Seq(Functions),
                   queued : BOOLEAN, tries : Nat]
  <2>1. PICK r : r = Begin(f)
    OBVIOUS
  <2>2. /\ r \in [fn : Functions \cup {NoFunction}, body : Codes \cup {Null}, todo : Seq(Functions),
                 queued : BOOLEAN, tries : Nat]
        /\ r.fn = f
    BY <1>5, <2>1, BeginFields
  <2>3. job' = [r EXCEPT !.queued = TRUE]
    BY <1>4, <2>1
  <2>. QED BY <2>2, <2>3
<1>8. Queue = Queue' \cup {f}
  <2>1. \A i \in 1 .. n : i \in 1 .. n - 1 \/ i = n
    BY <1>5
  <2>2. 1 .. n - 1 \subseteq 1 .. n
    BY <1>5
  <2>. QED BY <1>5, <2>1, <2>2 DEF Queue, f
<1>9. TypeOK'
  BY <1>1, <1>3, <1>4, <1>5, <1>7 DEF TypeOK, Goes, memory, uses
<1>10. Keeps(S, S)
  BY <1>4 DEF Keeps, Leads, memory
<1>11. Compiling'
  <2>1. Phase' = "start" /\ Asked' = callee
    <3>1. lock' = t
      BY <1>1, <1>4
    <3>. HIDE DEF at, callee, after, res
    <3>. QED BY <1>3, <3>1, HolderPhaseNext
  <2>2. \A d \in Codes : Live(d)' <=> Live(d)
    BY <1>4 DEF memory, Live
  <2>3. JobRight'
    <3>1. JobRight' <=>
            /\ f \in Functions \ External
            /\ \A c \in Codes : GlobalAddress[f] = c => ~Live(c)
            /\ FunctionToStub[f] \in Stubs /\ stub[FunctionToStub[f]] = Null
            /\ callee = f \/ (GlobalAddress[callee] \in Codes /\ Live(GlobalAddress[callee]))
      <4>. HIDE DEF callee
      <4>. QED BY <1>1, <1>4, <1>7, <2>1, <2>2 DEF JobRight, Live, memory
    <3>. QED BY <1>1, <1>2, <1>5, <1>6, <3>1, Addresses
  <2>4. CodeRight'
    BY <1>1, <1>4, <2>1, <2>2 DEF Compiling, CodeRight, memory
  <2>5. MapRight'
    BY <1>1, <1>4, <1>7, <1>8, <2>1, <2>2 DEF Compiling, MapRight, memory
  <2>6. StubRight'
    BY <1>1, <1>4, <1>7, <1>8, <2>1, <2>2 DEF Compiling, StubRight, memory
  <2>7. QueueRight'
    <3>1. \A i \in 1 .. n - 1 : PendingFunctions[i] # f /\ i \in DOMAIN PendingFunctions
      <4>1. \A i \in 1 .. n - 1 : i \in DOMAIN PendingFunctions /\ i # n
        BY <1>5
      <4>. QED BY <1>1, <1>5, <4>1 DEF Compiling, QueueRight, f
    <3>. QED BY <1>1, <1>4, <1>5, <1>7, <2>1, <3>1 DEF Compiling, QueueRight, memory
  <2>8. RefsRight'
    BY <1>1, <1>4, <2>2 DEF Compiling, RefsRight, RefRight, memory
  <2>. QED BY <2>3, <2>4, <2>5, <2>6, <2>7, <2>8 DEF Compiling
<1>12. "start" \in PCs \ {"stub", "rejit", "free", "crashed", "null", "dead", "unknown"} /\ "start" \in Holding
       /\ CurFnStubUses' = CurFnStubUses /\ lock' = t /\ lock \in {NoThread, t}
  BY <1>1, <1>4 DEF PCs, Holding, uses
<1>. HIDE DEF at, callee, after, res
<1>. QED BY <1>1, <1>3, <1>9, <1>10, <1>11, <1>12, HolderStep

\* When the work list is done, all finished code may run.
LEMMA SettledRight ==
  ASSUME NEW S \in SUBSET Codes, Right(S), Phase = "next", PendingFunctions = <<>>,
         NEW T \in SUBSET Codes, T = {c \in Codes : Live(c)}
  PROVE  Right(T) /\ S \subseteq T
<1>1. S \subseteq T
  BY DEF Right, Runnable
<1>2. \A s \in Stubs : stub[s] # Unused => Leads(T, s)
  <2>1. Queue = {}
    BY DEF Queue
  <2>2. \A s \in Stubs : /\ stub[s] # Null /\ stub[s] \notin Stubs
                         /\ stub[s] \in Codes => Live(stub[s])
    BY <2>1 DEF Right, Compiling, StubRight
  <2>3. \A s \in Stubs : stub[s] \in {Null, Outside, Resolver, Torn, Unused} \cup Stubs \cup Codes
    BY Addresses DEF Right, TypeOK
  <2>. QED BY <2>2, <2>3 DEF Leads
<1>3. ASSUME NEW c \in T, NEW g \in Functions, code[c].refs[g] # Null
      PROVE  Good(T, code[c].refs[g], g)
  <2>1. RefRight(c, g, code[c].refs[g])
    BY DEF Right, Compiling, RefsRight, Live
  <2>2. Live(c)
    OBVIOUS
  <2>. QED BY <1>2, <1>3, <2>1, <2>2 DEF RefRight, Good
<1>4. Runnable(T)
  BY <1>3 DEF Runnable
<1>5. ThreadsRight(T)
  <2>1. \A s : Leads(S, s) => Leads(T, s)
    BY <1>1 DEF Leads
  <2>2. \A a, g : Good(S, a, g) => Good(T, a, g)
    BY <1>1, <2>1 DEF Good
  <2>3. ASSUME NEW u \in Threads PROVE ThreadRight(T, u)
    <3>1. ThreadRight(S, u)
      BY DEF Right, ThreadsRight
    <3>. QED BY <1>1, <2>1, <2>2, <3>1 DEF ThreadRight, PlaceRight
  <2>. QED BY <2>3 DEF ThreadsRight
<1>. QED BY <1>1, <1>4, <1>5 DEF Right

LEMMA CompiledRight ==
  ASSUME NEW S \in SUBSET Codes, Right(S), NEW t \in Threads, Compiled(t), UNCHANGED LazyDisabled
  PROVE  \E T \in SUBSET Codes : Right(T)' /\ Keeps(S, T)
<1>. DEFINE at == th[t].at
            callee == th[t].callee
            after == th[t].after
            res == th[t].res
            a == GlobalAddress[th[t].want]
<1>1. /\ TypeOK /\ Compiling /\ lock = t /\ Phase = "next" /\ Asked = callee /\ th[t].pc = "next"
      /\ th[t].want = callee /\ callee \in Functions /\ after \in {"call", "erase"}
      /\ PlaceRight(S, "next", at, callee, callee, after, res)
  <2>1. th[t].pc = "next"
    BY DEF Compiled, At
  <2>. QED BY <2>1, HolderKnown DEF Holding
<1>2. /\ PendingFunctions = <<>> /\ lock' = NoThread /\ job' = NoJob /\ Return(t, a)
      /\ UNCHANGED <<maps, memory, uses, LazyDisabled>>
  BY DEF Compiled
<1>3. PICK T \in SUBSET Codes : T = {c \in Codes : Live(c)}
  OBVIOUS
<1>4. Right(T) /\ S \subseteq T
  BY <1>1, <1>2, <1>3, SettledRight
<1>5. a \in Codes /\ Live(a) /\ code[a].fn = callee /\ a \in T /\ a \in Address
  <2>1. GlobalAddress[callee] \in Codes /\ Live(GlobalAddress[callee]) /\ code[GlobalAddress[callee]].fn = callee
    BY <1>1 DEF Compiling, JobRight, MapRight
  <2>. QED BY <1>1, <1>3, <2>1, Addresses
<1>6. Keeps(T, T) /\ Keeps(S, T)
  BY <1>2, <1>4 DEF Keeps, Leads, maps, memory
<1>7. Compiling'
  <2>1. Phase' = "free"
    BY <1>2 DEF Phase
  <2>2. Queue = {} /\ Queue' = {}
    BY <1>2 DEF Queue, maps
  <2>3. \A d \in Codes : Live(d)' <=> Live(d)
    BY <1>2 DEF memory, Live
  <2>4. JobRight'
    BY <2>1 DEF JobRight
  <2>5. CodeRight'
    BY <1>1, <1>2, <2>1, <2>3 DEF Compiling, CodeRight, memory, maps
  <2>6. MapRight'
    BY <1>1, <1>2, <2>1, <2>2, <2>3 DEF Compiling, MapRight, memory, maps
  <2>7. StubRight'
    BY <1>1, <1>2, <2>1, <2>2, <2>3 DEF Compiling, StubRight, memory, maps
  <2>8. QueueRight'
    BY <1>2 DEF QueueRight, maps
  <2>9. RefsRight'
    BY <1>1, <1>2, <2>3 DEF Compiling, RefsRight, RefRight, memory, maps
  <2>. QED BY <2>4, <2>5, <2>6, <2>7, <2>8, <2>9 DEF Compiling
<1>8. Runnable(T)' /\ NoUses'
  <2>1. Phase' = "free" => \A c \in Codes : Live(c)' => c \in T
    BY <1>2, <1>3 DEF Live, memory
  <2>2. Runnable(T)'
    BY <1>4, <1>6, <2>1, RunnableKept DEF Right
  <2>. QED BY <1>2, <2>2 DEF Right, NoUses, uses
<1>9. job' \in [fn : Functions \cup {NoFunction}, body : Codes \cup {Null}, todo : Seq(Functions),
                queued : BOOLEAN, tries : Nat]
  <2>1. <<>> \in Seq(Functions)
    OBVIOUS
  <2>. QED BY <1>2, <2>1 DEF NoJob
<1>10. ASSUME NEW pc \in {"run", "erase"}, NEW x, NEW y, Goes(t, pc, x, callee, callee, after, y),
              PlaceRight(T, pc, x, callee, callee, after, y)
       PROVE  Right(T)'
  <2>1. TypeOK'
    BY <1>1, <1>2, <1>9, <1>10 DEF TypeOK, Goes, maps, memory, uses
  <2>2. LockRight'
    <3>1. pc \in PCs /\ pc \notin {"stub", "rejit", "free", "crashed", "null", "dead", "unknown"} \cup Holding
      BY DEF PCs, Holding
    <3>2. \A u \in Threads : u # t => (lock' = u <=> lock = u)
      BY <1>1, <1>2, JITResolverAssumption
    <3>3. lock' # t /\ LockRight
      BY <1>2, JITResolverAssumption DEF Right
    <3>. HIDE DEF at, callee, after, res
    <3>. QED BY <1>1, <1>10, <3>1, <3>2, <3>3, LockKept
  <2>3. ThreadsRight(T)'
    <3>. HIDE DEF at, callee, after, res
    <3>. QED BY <1>4, <1>6, <1>10, StepRight DEF Right
  <2>. QED BY <1>7, <1>8, <2>1, <2>2, <2>3 DEF Right
<1>11. CASE after = "call"
  <2>1. Goes(t, "run", a, callee, callee, after, res)
    BY <1>1, <1>2, <1>5, <1>11, ReturnGoes
  <2>2. PlaceRight(T, "run", a, callee, callee, after, res)
    BY <1>1, <1>5 DEF PlaceRight, InStub, Holding, Good
  <2>. HIDE DEF at, callee, after, res, a
  <2>. QED BY <1>6, <1>10, <2>1, <2>2
<1>12. CASE after = "erase"
  <2>1. Goes(t, "erase", at, callee, callee, after, a)
    BY <1>1, <1>2, <1>5, <1>12, ReturnGoes
  <2>2. PlaceRight(T, "erase", at, callee, callee, after, a)
    <3>1. ThreadRight(T, t)
      BY <1>4 DEF Right, ThreadsRight
    <3>. QED BY <1>1, <1>5, <1>12, <3>1 DEF ThreadRight, PlaceRight, InStub, Holding
  <2>. HIDE DEF at, callee, after, res, a
  <2>. QED BY <1>6, <1>10, <2>1, <2>2
<1>. QED BY <1>1, <1>11, <1>12

-----------------------------------------------------------------------------
(***************************************************************************)
(* The invariant.                                                          *)
(***************************************************************************)
LEMMA InitRight == Init => Right({})
<1>. SUFFICES ASSUME Init PROVE Right({})
  OBVIOUS
<1>0. Null \in Address /\ Unused # Null /\ \A c \in Codes : Null # c
  BY Addresses
<1>1. TypeOK
  <2>1. Idle \in ThreadState
    BY <1>0 DEF Idle, ThreadState
  <2>2. NoJob \in [fn : Functions \cup {NoFunction}, body : Codes \cup {Null}, todo : Seq(Functions),
                   queued : BOOLEAN, tries : Nat]
    <3>1. <<>> \in Seq(Functions)
      OBVIOUS
    <3>. QED BY <3>1 DEF NoJob
  <2>3. LazyDisabled \in BOOLEAN /\ PendingFunctions \in Seq(Functions)
    BY JITResolverAssumption DEF Init
  <2>4. code \in [Codes -> [fn : Functions \cup {NoFunction}, state : {"none", "emitting", "done", "freed"},
                            refs : [Functions -> Address]]]
    BY <1>0 DEF Init
  <2>. QED BY <1>0, <2>1, <2>2, <2>3, <2>4 DEF Init, TypeOK
<1>2. \A t \in Threads : th[t].pc = "idle" /\ th[t].after = "call" /\ lock # t
  BY JITResolverAssumption DEF Init, Idle
<1>3. LockRight
  BY <1>2 DEF LockRight, Holding
<1>4. NoUses
  BY DEF Init, NoUses
<1>5. Phase = "free" /\ PendingFunctions = <<>> /\ Queue = {}
  BY DEF Init, Phase, Queue
<1>6. \A c \in Codes : code[c].state = "none" /\ \A g \in Functions : code[c].refs[g] = Null
  BY DEF Init
<1>7. Compiling
  <2>1. JobRight
    BY <1>5 DEF JobRight
  <2>2. CodeRight
    BY <1>6 DEF CodeRight, Live
  <2>3. MapRight
    BY Addresses DEF MapRight, Init
  <2>4. StubRight
    BY <1>0, Addresses DEF StubRight, Init, Address
  <2>5. QueueRight
    BY <1>5 DEF QueueRight
  <2>6. RefsRight
    BY <1>6 DEF RefsRight
  <2>. QED BY <2>1, <2>2, <2>3, <2>4, <2>5, <2>6 DEF Compiling
<1>8. Runnable({})
  BY <1>6 DEF Runnable, Live
<1>9. ThreadsRight({})
  BY <1>2 DEF ThreadsRight, ThreadRight, PlaceRight, InStub, Holding
<1>. QED BY <1>1, <1>3, <1>4, <1>7, <1>8, <1>9 DEF Right

\* What clients that are Plain make the engine do.
LEMMA PlainNext ==
  ASSUME Plain, LockRight, Next
  PROVE  /\ UNCHANGED LazyDisabled
         /\ \E t \in Threads :
              \/ \E f \in Functions : GetPointerToFunction(t, f)
              \/ Acquire(t) \/ StartFunction(t) \/ Relocate(t) \/ FinishFunction(t)
              \/ UpdateFunctionStub(t) \/ NextPending(t) \/ Compiled(t) \/ RetryWithMoreMemory(t)
              \/ Run(t) \/ FindStub(t) \/ CheckCompiled(t) \/ EraseStub(t) \/ TearStub(t) \/ MendStub(t)
              \/ Call(t) \/ ReturnFromBody(t)
<1>1. ASSUME NEW t \in Threads, NEW f \in Functions, Request(t, f) PROVE GetPointerToFunction(t, f)
  BY <1>1 DEF Request, Plain, GetPointerToFunctionOrStub, RunJITOnFunction, RecompileAndRelinkFunction,
              FreeMachineCode
<1>2. ASSUME NEW t \in Threads PROVE ~GetFunctionStub(t) /\ ~Rejit(t) /\ ~DeallocateMem(t)
  BY DEF LockRight, GetFunctionStub, Rejit, DeallocateMem, At
<1>. QED BY <1>1, <1>2 DEF Next, Step, Leave

LEMMA NextRight ==
  ASSUME Plain, NEW S \in SUBSET Codes, Right(S), Next
  PROVE  \E T \in SUBSET Codes : Right(T)' /\ Keeps(S, T)
<1>1. UNCHANGED LazyDisabled
  BY DEF Next
<1>2. PICK t \in Threads :
        \/ \E f \in Functions : GetPointerToFunction(t, f)
        \/ Acquire(t) \/ StartFunction(t) \/ Relocate(t) \/ FinishFunction(t)
        \/ UpdateFunctionStub(t) \/ NextPending(t) \/ Compiled(t) \/ RetryWithMoreMemory(t)
        \/ Run(t) \/ FindStub(t) \/ CheckCompiled(t) \/ EraseStub(t) \/ TearStub(t) \/ MendStub(t)
        \/ Call(t) \/ ReturnFromBody(t)
  BY PlainNext DEF Right
<1>3. CASE \E f \in Functions : GetPointerToFunction(t, f)
  BY <1>1, <1>3, GetPointerRight
<1>4. CASE Acquire(t) \/ StartFunction(t) \/ Relocate(t) \/ FinishFunction(t)
  BY <1>1, <1>4, AcquireRight, StartFunctionRight, RelocateRight, FinishFunctionRight
<1>5. CASE UpdateFunctionStub(t) \/ NextPending(t) \/ Compiled(t) \/ RetryWithMoreMemory(t)
  BY <1>1, <1>5, UpdateFunctionStubRight, NextPendingRight, CompiledRight, RetryRight
<1>6. CASE Run(t) \/ FindStub(t) \/ CheckCompiled(t) \/ Call(t) \/ ReturnFromBody(t)
  BY <1>1, <1>6, RunRight, FindStubRight, CheckCompiledRight, CallRight, ReturnFromBodyRight
<1>7. CASE EraseStub(t) \/ TearStub(t) \/ MendStub(t)
  BY <1>1, <1>7, EraseStubRight, TearStubRight, MendStubRight
<1>. QED BY <1>2, <1>3, <1>4, <1>5, <1>6, <1>7

LEMMA StutterRight ==
  ASSUME NEW S \in SUBSET Codes, Right(S), UNCHANGED vars
  PROVE  Right(S)'
<1>1. UNCHANGED <<th, lock, job, LazyDisabled, maps, memory, uses>>
  BY DEF vars, compiler
<1>2. Phase' = Phase /\ Asked' = Asked
  BY <1>1 DEF Phase, Asked
<1>3. TypeOK' /\ LockRight' /\ NoUses'
  BY <1>1 DEF Right, TypeOK, LockRight, NoUses, maps, memory, uses
<1>4. Compiling'
  BY <1>1, <1>2, SameCompiling DEF Right
<1>5. Keeps(S, S)
  BY <1>1, SameKeeps
<1>6. Runnable(S)'
  <2>1. Phase' = "free" => \A c \in Codes : Live(c)' => c \in S
    BY <1>1, <1>2 DEF Live, memory, Right, Runnable
  <2>. QED BY <1>5, <2>1, RunnableKept DEF Right
<1>7. ThreadsRight(S)'
  <2>1. ASSUME NEW u \in Threads PROVE ThreadRight(S, u)'
    BY <1>1, <1>5, OthersRight DEF Right, ThreadsRight
  <2>. QED BY <2>1 DEF ThreadsRight
<1>. QED BY <1>3, <1>4, <1>6, <1>7 DEF Right

LEMMA InitInv == Init => IInv
BY InitRight DEF IInv

LEMMA NextInv ==
  ASSUME Plain, IInv, [Next]_vars
  PROVE  IInv'
<1>1. PICK S \in SUBSET Codes : Right(S)
  BY DEF IInv
<1>2. CASE Next
  BY <1>1, <1>2, NextRight DEF IInv
<1>3. CASE UNCHANGED vars
  BY <1>1, <1>3, StutterRight DEF IInv
<1>. QED BY <1>2, <1>3

-----------------------------------------------------------------------------
(***************************************************************************)
(* What the invariant says.                                                *)
(***************************************************************************)
LEMMA InvSays == IInv => NoCallLost /\ OneBody /\ StubsAgree /\ Settled /\ PendingNotGenerated
<1>. SUFFICES ASSUME NEW S \in SUBSET Codes, Right(S)
              PROVE  NoCallLost /\ OneBody /\ StubsAgree /\ Settled /\ PendingNotGenerated
  BY DEF IInv
<1>1. NoCallLost
  BY DEF Right, LockRight, NoCallLost
<1>2. OneBody
  BY DEF Right, Compiling, CodeRight, OneBody
<1>3. StubsAgree
  BY DEF Right, Compiling, StubRight, StubsAgree
<1>4. Settled
  <2>1. SUFFICES ASSUME lock = NoThread
                 PROVE  /\ PendingFunctions = <<>>
                        /\ \A c \in Codes : Live(c) => \A g \in Functions :
                             code[c].refs[g] \in Stubs => stub[code[c].refs[g]] \notin {Null, Unused}
    BY DEF Settled
  <2>2. PendingFunctions = <<>> /\ \A c \in Codes : Live(c) => c \in S
    BY <2>1, FreeLock DEF Right, Compiling, QueueRight, Runnable
  <2>3. ASSUME NEW c \in Codes, Live(c), NEW g \in Functions, code[c].refs[g] \in Stubs
        PROVE  stub[code[c].refs[g]] \notin {Null, Unused}
    <3>1. Good(S, code[c].refs[g], g)
      BY <2>2, <2>3, Addresses DEF Right, Runnable
    <3>2. Leads(S, code[c].refs[g])
      BY <2>3, <3>1, Addresses DEF Good
    <3>. QED BY <3>2, Addresses DEF Leads, Address
  <2>. QED BY <2>2, <2>3
<1>5. PendingNotGenerated
  <2>1. ASSUME NEW i \in DOMAIN PendingFunctions, NEW c \in Codes, code[c].fn = PendingFunctions[i], Live(c)
        PROVE  FALSE
    <3>1. GlobalAddress[PendingFunctions[i]] = c
      BY <2>1 DEF Right, Compiling, CodeRight
    <3>2. GlobalAddress[PendingFunctions[i]] \in Stubs
      BY DEF Right, Compiling, QueueRight
    <3>. QED BY <3>1, <3>2, Addresses
  <2>. QED BY <2>1 DEF PendingNotGenerated
<1>. QED BY <1>1, <1>2, <1>3, <1>4, <1>5

LEMMA AlwaysRight ==
  ASSUME Plain
  PROVE  Spec => [](NoCallLost /\ StubsAgree /\ Settled)
BY InitInv, NextInv, InvSays, PTL DEF Spec

\* A function has at most one finished body, whoever asks for it at once.
THEOREM CompiledOnce == ASSUME Plain PROVE Spec => []OneBody
BY InitInv, NextInv, InvSays, PTL DEF Spec

\* What is on the work list has not been compiled.
THEOREM PendingFresh == ASSUME Plain PROVE Spec => []PendingNotGenerated
BY InitInv, NextInv, InvSays, PTL DEF Spec

-----------------------------------------------------------------------------
(***************************************************************************)
(* The promise of OnDemandCalls.  Most steps are taken underway, between   *)
(* the call of a function and its code, and OnDemandCalls sees none of     *)
(* them.                                                                   *)
(***************************************************************************)
HasCode == {f \in Functions : \E c \in Codes : Live(c) /\ code[c].fn = f}

Underway(pc) == pc \notin {"idle", "body", "null", "dead", "unknown"}

LEMMA Sees ==
  ASSUME NEW t \in Threads
  PROVE  /\ th[t].pc = "idle" => where[t] = <<"client">>
         /\ th[t].pc = "body" => where[t] = <<"in", code[th[t].at].fn>>
         /\ Underway(th[t].pc) => where[t] = <<"calling", th[t].callee>>
BY DEF where, At, Underway

LEMMA SeesNext ==
  ASSUME NEW t \in Threads
  PROVE  /\ th'[t].pc = "idle" => where'[t] = <<"client">>
         /\ th'[t].pc = "body" => where'[t] = <<"in", code'[th'[t].at].fn>>
         /\ Underway(th'[t].pc) => where'[t] = <<"calling", th'[t].callee>>
BY DEF where, At, Underway

\* Only t may have gone elsewhere.
Moves(t) == \A u \in Threads : u # t => th'[u] = th[u]

LEMMA OnlyMoves ==
  ASSUME NEW S \in SUBSET Codes, NEW T \in SUBSET Codes, Right(S), Keeps(S, T), NEW t \in Threads, Moves(t)
  PROVE  where' = [where EXCEPT ![t] = where'[t]]
<1>1. ASSUME NEW u \in Threads, u # t PROVE where'[u] = where[u]
  <2>1. th'[u] = th[u]
    BY <1>1 DEF Moves
  <2>2. th[u].pc = "body" => th[u].at \in S /\ code'[th[u].at] = code[th[u].at]
    BY DEF Right, ThreadsRight, ThreadRight, PlaceRight, Keeps
  <2>. QED BY <2>1, <2>2 DEF where, At
<1>2. DOMAIN where = Threads /\ DOMAIN where' = Threads
  BY DEF where
<1>3. where = [u \in Threads |-> where[u]] /\ where' = [u \in Threads |-> where'[u]]
  BY DEF where
<1>. QED BY <1>1, <1>2, <1>3

LEMMA SameHasCode ==
  ASSUME \A c \in Codes : (Live(c)' <=> Live(c)) /\ (Live(c) => code'[c].fn = code[c].fn)
  PROVE  HasCode' = HasCode
BY DEF HasCode

\* A step of a thread that is underway, and stays so.
Proceeds(t) ==
  /\ Moves(t) /\ Underway(th[t].pc)
  /\ th'[t].callee = th[t].callee /\ th'[t].pc \notin {"idle", "body"}

LEMMA ProceedsSame ==
  ASSUME NEW S \in SUBSET Codes, NEW T \in SUBSET Codes, Right(S), Right(T)', Keeps(S, T),
         NEW t \in Threads, Proceeds(t)
  PROVE  where' = where
<1>1. where' = [where EXCEPT ![t] = where'[t]]
  BY OnlyMoves DEF Proceeds
<1>2. Underway(th'[t].pc)
  BY DEF Right, LockRight, Proceeds, Underway
<1>3. where'[t] = where[t]
  BY <1>2, Sees, SeesNext DEF Proceeds
<1>. QED BY <1>1, <1>3 DEF where

LEMMA GotoProceeds ==
  ASSUME TypeOK, NEW t \in Threads, NEW pc \in PCs, Goto(t, pc), Underway(th[t].pc), Underway(pc)
  PROVE  Proceeds(t)
<1>1. Goes(t, pc, th[t].at, th[t].callee, th[t].want, th[t].after, th[t].res)
  BY GotoGoes
<1>. QED BY <1>1 DEF Goes, Proceeds, Moves, Underway

LEMMA ReturnProceeds ==
  ASSUME TypeOK, NEW t \in Threads, NEW a \in Address, Return(t, a), Underway(th[t].pc),
         th[t].after \in {"call", "erase"}
  PROVE  Proceeds(t)
<1>1. CASE th[t].after = "call"
  <2>1. Goes(t, "run", a, th[t].callee, th[t].want, th[t].after, th[t].res)
    BY <1>1, ReturnGoes
  <2>. QED BY <2>1 DEF Goes, Proceeds, Moves
<1>2. CASE th[t].after = "erase"
  <2>1. Goes(t, "erase", th[t].at, th[t].callee, th[t].want, th[t].after, a)
    BY <1>2, ReturnGoes
  <2>. QED BY <2>1 DEF Goes, Proceeds, Moves
<1>. QED BY <1>1, <1>2

LEMMA ActionsProceed ==
  ASSUME NEW S \in SUBSET Codes, Right(S), NEW t \in Threads,
         \/ Acquire(t) \/ StartFunction(t) \/ Relocate(t) \/ FinishFunction(t)
         \/ UpdateFunctionStub(t) \/ NextPending(t) \/ Compiled(t) \/ RetryWithMoreMemory(t)
         \/ FindStub(t) \/ CheckCompiled(t) \/ EraseStub(t) \/ TearStub(t) \/ MendStub(t)
  PROVE  Proceeds(t)
<1>1. TypeOK /\ th[t].after \in {"call", "erase"} /\ Outside \in Address
  BY Addresses DEF Right, LockRight
<1>2. /\ th[t].pc \in Holding \cup {"acquire", "check"} => th[t].want \in Functions
      /\ \A f \in Functions : GlobalAddress[f] \in Address
  BY DEF Right, TypeOK, ThreadsRight, ThreadRight, PlaceRight, Holding
<1>3. CASE Acquire(t)
  <2>1. th[t].pc = "acquire"
    BY <1>3 DEF Acquire, At
  <2>2. Goto(t, "start") \/ Return(t, Outside) \/ Return(t, GlobalAddress[th[t].want])
    BY <1>3 DEF Acquire
  <2>. QED BY <1>1, <1>2, <2>1, <2>2, GotoProceeds, ReturnProceeds DEF Underway, PCs
<1>4. CASE StartFunction(t) \/ RetryWithMoreMemory(t) \/ UpdateFunctionStub(t) \/ NextPending(t)
  <2>1. \E pc \in {"start", "emit", "next"} : Goto(t, pc) /\ th[t].pc \in Holding
    BY <1>4 DEF StartFunction, RetryWithMoreMemory, UpdateFunctionStub, NextPending, At, Holding
  <2>. QED BY <1>1, <2>1, GotoProceeds DEF Underway, PCs, Holding
<1>5. CASE Relocate(t)
  BY <1>5 DEF Relocate, At, Proceeds, Moves, Underway
<1>6. CASE FinishFunction(t)
  <2>1. th[t].pc = "emit"
    BY <1>6 DEF FinishFunction, At
  <2>2. \E pc \in {"restub", "next"} : Goes(t, pc, th[t].at, th[t].callee, th[t].want, th[t].after, th[t].res)
    BY <1>1, <1>6, FinishGoes
  <2>. QED BY <2>1, <2>2 DEF Goes, Proceeds, Moves, Underway
<1>7. CASE Compiled(t)
  <2>1. th[t].pc = "next" /\ Return(t, GlobalAddress[th[t].want])
    BY <1>7 DEF Compiled, At
  <2>. QED BY <1>1, <1>2, <2>1, ReturnProceeds DEF Underway, Holding
<1>8. CASE FindStub(t)
  <2>1. th[t].pc = "lookup"
    BY <1>8 DEF FindStub, At
  <2>2. CASE Goto(t, "unknown")
    BY <1>1, <2>1, <2>2, GotoGoes DEF Goes, Proceeds, Moves, Underway, PCs
  <2>3. CASE \E s \in Stubs : th' = [th EXCEPT ![t].pc = "check", ![t].want = StubToFunction[s]]
    <3>1. th \in [Threads -> ThreadState]
      BY <1>1 DEF TypeOK
    <3>. QED BY <2>1, <2>3, <3>1 DEF Proceeds, Moves, Underway, ThreadState
  <2>. QED BY <1>8, <2>2, <2>3 DEF FindStub, Candidates
<1>9. CASE CheckCompiled(t)
  <2>1. th[t].pc = "check"
    BY <1>9 DEF CheckCompiled, At
  <2>. QED BY <1>1, <1>2, <1>9, <2>1, CheckCompiledGoes DEF Goes, Proceeds, Moves, Underway
<1>10. CASE EraseStub(t) \/ TearStub(t) \/ MendStub(t)
  <2>1. \E pc \in {"patch", "mend", "run"} : Goto(t, pc) /\ th[t].pc \in {"erase", "patch", "mend"}
    BY <1>10 DEF EraseStub, TearStub, MendStub, At
  <2>. QED BY <1>1, <2>1, GotoProceeds DEF Underway, PCs
<1>. QED BY <1>3, <1>4, <1>5, <1>6, <1>7, <1>8, <1>9, <1>10

\* Emission touches no finished code, and ends in it.
LEMMA ActionsKeepCode ==
  ASSUME NEW S \in SUBSET Codes, Right(S), NEW t \in Threads,
         \/ Acquire(t) \/ StartFunction(t) \/ Relocate(t)
         \/ UpdateFunctionStub(t) \/ NextPending(t) \/ Compiled(t) \/ RetryWithMoreMemory(t)
         \/ FindStub(t) \/ CheckCompiled(t) \/ EraseStub(t) \/ TearStub(t) \/ MendStub(t)
  PROVE  HasCode' = HasCode
<1>1. TypeOK /\ NoUses
  BY DEF Right
<1>2. CASE code' = code
  BY <1>2 DEF HasCode, Live
<1>3. CASE StartFunction(t)
  <2>1. PICK c \in Codes : code[c].state = "none" /\ code' = [code EXCEPT ![c].fn = job.fn, ![c].state = "emitting"]
    BY <1>3 DEF StartFunction, FreshCodes
  <2>2. \A d \in Codes : d # c => code'[d] = code[d]
    BY <1>1, <2>1 DEF TypeOK
  <2>3. code'[c].state = "emitting"
    BY <1>1, <2>1 DEF TypeOK
  <2>. QED BY <2>1, <2>2, <2>3, SameHasCode DEF Live
<1>4. CASE Relocate(t)
  <2>1. PICK g, a : code' = [code EXCEPT ![job.body].refs[g] = a]
    BY <1>4 DEF Relocate, Resolve
  <2>2. \A d \in Codes : code'[d].fn = code[d].fn /\ code'[d].state = code[d].state
    BY <1>1, <2>1 DEF TypeOK
  <2>. QED BY <2>2, SameHasCode DEF Live
<1>5. CASE RetryWithMoreMemory(t)
  <2>1. th[t].pc = "emit" /\ Deallocate(job.fn, job.body)
    BY <1>5 DEF RetryWithMoreMemory, At
  <2>2. job.body \in Codes /\ code[job.body].state = "emitting" /\ job.fn \in Functions
    BY <2>1, HolderKnown DEF Holding, Compiling, JobRight
  <2>3. code' = [code EXCEPT ![job.body].state = "freed"]
    BY <1>1, <2>1, <2>2, DeallocateFields
  <2>4. /\ code'[job.body].state = "freed" /\ \A d \in Codes : d # job.body => code'[d] = code[d]
    BY <1>1, <2>2, <2>3, StateFields
  <2>. QED BY <2>2, <2>4, SameHasCode DEF Live
<1>6. CASE \/ Acquire(t) \/ UpdateFunctionStub(t) \/ NextPending(t) \/ Compiled(t)
           \/ FindStub(t) \/ CheckCompiled(t) \/ EraseStub(t) \/ TearStub(t) \/ MendStub(t)
  <2>1. code' = code
    BY <1>6 DEF Acquire, UpdateFunctionStub, NextPending, Compiled, FindStub, CheckCompiled, EraseStub,
               TearStub, MendStub, memory
  <2>. QED BY <1>2, <2>1
<1>. QED BY <1>3, <1>4, <1>5, <1>6

LEMMA FinishAddsCode ==
  ASSUME NEW S \in SUBSET Codes, Right(S), NEW t \in Threads, FinishFunction(t)
  PROVE  \E f \in Functions : f \notin External \cup HasCode /\ HasCode' = HasCode \cup {f}
<1>. DEFINE b == job.body
            f == job.fn
<1>1. th[t].pc = "emit"
  BY DEF FinishFunction, At
<1>2. TypeOK /\ Compiling /\ Phase = "emit" /\ f \in Functions \ External
  BY <1>1, HolderKnown DEF Holding
<1>3. b \in Codes /\ code[b].state = "emitting" /\ code[b].fn = f /\ GlobalAddress[f] = b
  BY <1>2 DEF Compiling, JobRight
<1>4. code' = [code EXCEPT ![b].state = "done"]
  BY DEF FinishFunction
<1>5. /\ code'[b].state = "done" /\ \A d \in Codes : d # b => code'[d] = code[d]
      /\ \A d \in Codes : code'[d].fn = code[d].fn
  BY <1>2, <1>3, <1>4, StateFields
<1>. HIDE DEF f, b
<1>6. f \notin HasCode
  <2>1. \A c \in Codes : Live(c) => GlobalAddress[code[c].fn] = c
    BY <1>2 DEF Compiling, CodeRight
  <2>2. \A c \in Codes : Live(c) => c # b
    BY <1>3 DEF Live
  <2>. QED BY <1>3, <2>1, <2>2 DEF HasCode
<1>7. HasCode' = HasCode \cup {f}
  <2>1. \A d \in Codes : (code'[d].state = "done" <=> Live(d) \/ d = b) /\ code'[d].fn = code[d].fn
    BY <1>5 DEF Live
  <2>2. ASSUME NEW g \in Functions
        PROVE  (\E c \in Codes : code'[c].state = "done" /\ code'[c].fn = g)
                 <=> (\E c \in Codes : Live(c) /\ code[c].fn = g) \/ g = f
    BY <1>3, <2>1
  <2>3. HasCode' = {g \in Functions : \E c \in Codes : code'[c].state = "done" /\ code'[c].fn = g}
    BY DEF HasCode, Live
  <2>. QED BY <1>2, <2>2, <2>3 DEF HasCode
<1>. QED BY <1>2, <1>6, <1>7

LEMMA CallsInit == Init => Promised!Init
<1>. SUFFICES ASSUME Init PROVE Promised!Init
  OBVIOUS
<1>1. \A t \in Threads : th[t].pc = "idle"
  BY DEF Init, Idle
<1>2. where = [t \in Threads |-> <<"client">>]
  BY <1>1 DEF where, At
<1>3. HasCode = {}
  BY DEF Init, HasCode, Live
<1>. QED BY <1>2, <1>3 DEF Promised!Init, Promised!Client, HasCode

\* The steps of OnDemandCalls, as steps of one thread.
LEMMA CallsSteps ==
  ASSUME NEW t \in Threads, where' = [where EXCEPT ![t] = where'[t]], HasCode' = HasCode,
         \/ \E f \in Functions : /\ \A g \in Functions : where[t] # <<"calling", g>>
                                 /\ where'[t] = <<"calling", f>>
         \/ \E f \in HasCode : where[t] = <<"calling", f>> /\ where'[t] = <<"in", f>>
         \/ \E f \in Functions : where[t] = <<"in", f>> /\ where'[t] = <<"client">>
         \/ \E f \in External : where[t] = <<"calling", f>> /\ where'[t] = <<"client">>
  PROVE  Promised!Next
<1>1. CASE \E f \in Functions : /\ \A g \in Functions : where[t] # <<"calling", g>>
                                /\ where'[t] = <<"calling", f>>
  <2>1. \E f \in Functions : Promised!Ask(t, f)
    BY <1>1 DEF Promised!Ask, HasCode
  <2>. QED BY <2>1 DEF Promised!Next
<1>2. CASE \E f \in HasCode : where[t] = <<"calling", f>> /\ where'[t] = <<"in", f>>
  <2>1. \E f \in Functions : Promised!Arrive(t, f)
    BY <1>2 DEF Promised!Arrive, HasCode
  <2>. QED BY <2>1 DEF Promised!Next
<1>3. CASE \/ \E f \in Functions : where[t] = <<"in", f>> /\ where'[t] = <<"client">>
           \/ \E f \in External : where[t] = <<"calling", f>> /\ where'[t] = <<"client">>
  <2>1. \E f \in Functions : Promised!Leave(t, f)
    BY <1>3, JITResolverAssumption DEF Promised!Leave, Promised!Client, HasCode
  <2>. QED BY <2>1 DEF Promised!Next
<1>. QED BY <1>1, <1>2, <1>3

LEMMA RunCalls ==
  ASSUME NEW S \in SUBSET Codes, Right(S), Right(S)', Keeps(S, S), NEW t \in Threads, Run(t)
  PROVE  Promised!Next \/ (where' = where /\ HasCode' = HasCode)
<1>1. TypeOK /\ th[t].pc = "run"
  BY DEF Run, At, Right
<1>2. Good(S, th[t].at, th[t].callee) /\ th[t].callee \in Functions
  BY <1>1 DEF Right, ThreadsRight, ThreadRight, PlaceRight
<1>3. code' = code /\ HasCode' = HasCode
  BY DEF Run, memory, HasCode, Live
<1>4. where[t] = <<"calling", th[t].callee>>
  BY <1>1, Sees DEF Underway
<1>5. CASE th[t].at = Outside /\ th[t].callee \in External
  <2>1. Goes(t, "idle", Null, NoFunction, NoFunction, "call", Null)
    BY <1>1, <1>5, RunGoes
  <2>2. where'[t] = <<"client">> /\ Moves(t)
    BY <2>1, SeesNext DEF Goes, Moves
  <2>. QED BY <1>3, <1>4, <1>5, <2>2, OnlyMoves, CallsSteps
<1>6. CASE th[t].at \in S /\ code[th[t].at].fn = th[t].callee
  <2>1. th[t].at \in Codes /\ Live(th[t].at)
    BY <1>6 DEF Right, Runnable
  <2>2. Goes(t, "body", th[t].at, th[t].callee, th[t].want, th[t].after, th[t].res)
    BY <1>1, <2>1, RunGoes
  <2>3. where'[t] = <<"in", th[t].callee>> /\ Moves(t)
    BY <1>3, <1>6, <2>2, SeesNext DEF Goes, Moves
  <2>4. th[t].callee \in HasCode
    BY <1>2, <1>6, <2>1 DEF HasCode
  <2>. QED BY <1>3, <1>4, <2>3, <2>4, OnlyMoves, CallsSteps
<1>7. CASE th[t].at \in Stubs /\ Leads(S, th[t].at)
  <2>1. S \subseteq Address /\ Outside \in Address
    BY Addresses DEF Right, Runnable
  <2>2. \E pc \in {"lookup", "torn", "run"} : \E a : Goes(t, pc, a, th[t].callee, th[t].want, th[t].after, th[t].res)
    BY <1>1, <1>7, <2>1, RunGoes DEF Leads
  <2>3. Proceeds(t)
    BY <1>1, <2>2 DEF Goes, Proceeds, Moves, Underway
  <2>. QED BY <1>3, <2>3, ProceedsSame
<1>. QED BY <1>2, <1>5, <1>6, <1>7 DEF Good

LEMMA CallsNext ==
  ASSUME Plain, IInv, IInv', [Next]_vars
  PROVE  Promised!Next \/ (where' = where /\ HasCode' = HasCode)
<1>1. CASE UNCHANGED vars
  <2>1. th' = th /\ code' = code
    BY <1>1 DEF vars, memory
  <2>. QED BY <2>1 DEF where, At, HasCode, Live
<1>2. CASE Next
  <2>1. PICK S \in SUBSET Codes : Right(S)
    BY DEF IInv
  <2>2. UNCHANGED LazyDisabled
    BY <1>2 DEF Next
  <2>3. PICK T \in SUBSET Codes : Right(T)' /\ Keeps(S, T)
    BY <1>2, <2>1, NextRight
  <2>4. PICK t \in Threads :
          \/ \E f \in Functions : GetPointerToFunction(t, f)
          \/ Acquire(t) \/ StartFunction(t) \/ Relocate(t) \/ FinishFunction(t)
          \/ UpdateFunctionStub(t) \/ NextPending(t) \/ Compiled(t) \/ RetryWithMoreMemory(t)
          \/ Run(t) \/ FindStub(t) \/ CheckCompiled(t) \/ EraseStub(t) \/ TearStub(t) \/ MendStub(t)
          \/ Call(t) \/ ReturnFromBody(t)
    BY <1>2, <2>1, PlainNext DEF Right
  <2>5. CASE \/ Acquire(t) \/ StartFunction(t) \/ Relocate(t)
             \/ UpdateFunctionStub(t) \/ NextPending(t) \/ Compiled(t) \/ RetryWithMoreMemory(t)
             \/ FindStub(t) \/ CheckCompiled(t) \/ EraseStub(t) \/ TearStub(t) \/ MendStub(t)
    <3>1. Proceeds(t)
      BY <2>1, <2>5, ActionsProceed
    <3>2. HasCode' = HasCode
      BY <2>1, <2>5, ActionsKeepCode
    <3>. QED BY <2>1, <2>3, <3>1, <3>2, ProceedsSame
  <2>6. CASE FinishFunction(t)
    <3>1. where' = where
      BY <2>1, <2>3, <2>6, ActionsProceed, ProceedsSame
    <3>2. PICK f \in Functions : f \notin External \cup HasCode /\ HasCode' = HasCode \cup {f}
      BY <2>1, <2>6, FinishAddsCode
    <3>3. Promised!Compile(f)
      BY <3>1, <3>2 DEF Promised!Compile, HasCode
    <3>. QED BY <3>3 DEF Promised!Next
  <2>7. CASE \E f \in Functions : GetPointerToFunction(t, f)
    <3>1. PICK f \in Functions : GetPointerToFunction(t, f)
      BY <2>7
    <3>2. th[t].pc = "idle" /\ code' = code /\ TypeOK
      BY <2>1, <3>1 DEF GetPointerToFunction, At, memory, Right
    <3>3. \E pc \in {"run", "acquire"} : \E a, w, r : Goes(t, pc, a, f, w, "call", r)
      BY <3>1, <3>2, GetPointerGoes
    <3>4. Moves(t) /\ th'[t].callee = f /\ Underway(th'[t].pc)
      BY <3>3 DEF Goes, Moves, Underway
    <3>5. where[t] = <<"client">> /\ where'[t] = <<"calling", f>>
      BY <3>2, <3>4, Sees, SeesNext
    <3>6. HasCode' = HasCode
      BY <3>2 DEF HasCode, Live
    <3>7. \A g \in Functions : where[t] # <<"calling", g>>
      BY <3>5
    <3>. QED BY <2>1, <2>3, <3>4, <3>5, <3>6, <3>7, OnlyMoves, CallsSteps
  <2>8. CASE Call(t)
    <3>1. th[t].pc = "body" /\ code' = code /\ TypeOK
      BY <2>1, <2>8 DEF Call, At, memory, Right
    <3>2. th[t].at \in Codes
      BY <2>1, <3>1 DEF Right, ThreadsRight, ThreadRight, PlaceRight
    <3>3. PICK g \in Functions : Goes(t, "run", code[th[t].at].refs[g], g, NoFunction, "call", Null)
      BY <2>8, <3>1, <3>2, CallGoes
    <3>4. Moves(t) /\ th'[t].callee = g /\ Underway(th'[t].pc)
      BY <3>3 DEF Goes, Moves, Underway
    <3>5. where[t] = <<"in", code[th[t].at].fn>> /\ where'[t] = <<"calling", g>>
      BY <3>1, <3>4, Sees, SeesNext
    <3>6. HasCode' = HasCode
      BY <3>1 DEF HasCode, Live
    <3>7. \A h \in Functions : where[t] # <<"calling", h>>
      BY <3>5
    <3>. QED BY <2>1, <2>3, <3>4, <3>5, <3>6, <3>7, OnlyMoves, CallsSteps
  <2>9. CASE ReturnFromBody(t)
    <3>1. th[t].pc = "body" /\ code' = code /\ TypeOK
      BY <2>1, <2>9 DEF ReturnFromBody, At, memory, Right
    <3>2. th[t].at \in Codes /\ Live(th[t].at)
      BY <2>1, <3>1 DEF Right, ThreadsRight, ThreadRight, PlaceRight, Runnable
    <3>3. code[th[t].at].fn \in Functions
      BY <2>1, <3>2 DEF Right, Compiling, CodeRight
    <3>4. Goes(t, "idle", Null, NoFunction, NoFunction, "call", Null)
      BY <2>9, <3>1, ReturnFromBodyGoes
    <3>5. Moves(t) /\ where[t] = <<"in", code[th[t].at].fn>> /\ where'[t] = <<"client">>
      BY <3>1, <3>4, Sees, SeesNext DEF Goes, Moves
    <3>6. HasCode' = HasCode
      BY <3>1 DEF HasCode, Live
    <3>. QED BY <2>1, <2>3, <3>3, <3>5, <3>6, OnlyMoves, CallsSteps
  <2>10. CASE Run(t)
    BY <2>1, <2>2, <2>10, RunRight, RunCalls
  <2>. QED BY <2>4, <2>5, <2>6, <2>7, <2>8, <2>9, <2>10
<1>. QED BY <1>1, <1>2

\* Threads that call one another's functions through stubs, work lists and one
\* lock see what OnDemandCalls promises: each function is compiled at most
\* once, and calls end in the code of what they call.
THEOREM ImplementsCalls == ASSUME Plain PROVE Spec => CallsSpec
<1>1. IInv /\ IInv' /\ [Next]_vars =>
        [Promised!Next]_<<where, {f \in Functions : \E c \in Codes : Live(c) /\ code[c].fn = f}>>
  BY CallsNext DEF HasCode
<1>. QED BY <1>1, InitInv, NextInv, CallsInit, PTL DEF Spec, CallsSpec, Promised!Spec

-----------------------------------------------------------------------------
(***************************************************************************)
(* All that clients may do: code is freed, compiled again and reported,    *)
(* stubs are asked for and go with their last reference.  What holds then  *)
(* of the threads, the compilation, the bodies and the stubs.              *)
(***************************************************************************)
Locks == Holding \cup {"crashed"}

\* An address that is one of a stub is one of a stub that was emitted.
Built(st, a) == a \in Stubs => st[a] # Unused

\* The locals r of t, where l has the lock and the stubs are st.
Local(l, st, t, r) ==
  /\ r \in ThreadState
  /\ r.pc \in Locks <=> l = t
  /\ r.pc \in Holding \cup {"acquire", "rejit", "free", "check", "erase"} => r.want \in Functions
  /\ r.pc = "stub" => r.callee \in Functions
  /\ r.pc = "free" => "free" \in ClientOps
  /\ r.pc = "body" => r.at \in Codes
  /\ r.after = "relink" => r.pc \in {"start", "emit", "crashed"}
  /\ r.after = "report" => r.pc \in Holding \cup {"idle"}
  /\ Built(st, r.at) /\ Built(st, r.res)

LocalsRight == \A t \in Threads : Local(lock, stub, t, th[t])

CompilationRight == \A t \in Threads :
  /\ th[t].pc \in Holding => job.fn \in Functions
  /\ th[t].pc = "emit" => job.body \in Codes /\ code[job.body].state = "emitting"

\* One body is emitted at a time, and what the memory manager knows was finished.
BodiesRight ==
  /\ \A c \in Codes : code[c].state = "emitting" =>
       c = job.body /\ code[c].fn = job.fn /\ \E t \in Threads : th[t].pc = "emit"
  /\ \A c \in Codes : code[c].state = "none" => \A g \in Functions : code[c].refs[g] = Null
  /\ \A f \in Functions : FunctionBlock[f] # Null =>
       code[FunctionBlock[f]].fn = f /\ code[FunctionBlock[f]].state \in {"done", "freed"}

AllBuilt ==
  /\ \A f \in Functions : Built(stub, GlobalAddress[f])
  /\ \A s \in Stubs : Built(stub, stub[s])
  /\ \A c \in Codes, g \in Functions : Built(stub, code[c].refs[g])

\* The maps of stubs agree: the two of the resolver, and the two of references.
Filings ==
  /\ \A g \in Functions : FunctionToStub[g] # Null =>
       StubToFunction[FunctionToStub[g]] = g /\ stub[FunctionToStub[g]] # Unused
  /\ \A f \in Functions, s \in Stubs : s \in CurFnStubUses[f] <=> f \in StubFnRefs[s]
  /\ ~DlsymStubs => \A f \in Functions : CurFnStubUses[f] = {}

Base == TypeOK /\ LocalsRight /\ CompilationRight /\ BodiesRight /\ AllBuilt /\ Filings

-----------------------------------------------------------------------------
(***************************************************************************)
(* Steps that compile nothing: they move a thread, and take addresses and  *)
(* stubs out of the maps or find out where an external function is.        *)
(***************************************************************************)
Passes(t) ==
  /\ Moves(t) /\ th' \in [Threads -> ThreadState] /\ Local(lock, stub, t, th'[t])
  /\ th[t].pc \notin Locks /\ th'[t].pc \notin Locks /\ th'[t].after \in {"call", "erase"}
  /\ th'[t].pc = "free" => GlobalAddress'[th'[t].want] = Null
  /\ GlobalAddress' \in [Functions -> Address] /\ FunctionToStub' \in [Functions -> Stubs \cup {Null}]
  /\ \A f \in Functions : /\ GlobalAddress'[f] \in {GlobalAddress[f], Null, Outside}
                          /\ FunctionToStub'[f] \in {FunctionToStub[f], Null}
  /\ UNCHANGED <<lock, job, LazyDisabled, StubToFunction, PendingFunctions, memory, uses>>

LEMMA Becomes ==
  ASSUME TypeOK, NEW t \in Threads, NEW r \in ThreadState, th' = [th EXCEPT ![t] = r]
  PROVE  Moves(t) /\ th' \in [Threads -> ThreadState] /\ th'[t] = r
BY DEF TypeOK, Moves

\* Only th changes.
LEMMA PassesBy ==
  ASSUME TypeOK, NEW t \in Threads, NEW r \in ThreadState, th' = [th EXCEPT ![t] = r],
         Local(lock, stub, t, r), th[t].pc \notin Locks, r.pc \notin Locks \cup {"free"},
         r.after \in {"call", "erase"},
         UNCHANGED <<compiler, LazyDisabled, maps, memory, uses>>
  PROVE  Passes(t)
<1>1. Moves(t) /\ th' \in [Threads -> ThreadState] /\ th'[t] = r
  BY Becomes
<1>2. UNCHANGED <<lock, job, LazyDisabled, GlobalAddress, FunctionToStub, StubToFunction, PendingFunctions,
                  memory, uses>>
  BY DEF compiler, maps
<1>3. GlobalAddress' \in [Functions -> Address] /\ FunctionToStub' \in [Functions -> Stubs \cup {Null}]
  BY <1>2 DEF TypeOK
<1>. QED BY <1>1, <1>2, <1>3 DEF Passes

LEMMA NullBuilt == /\ Null \in Address /\ \A st : Built(st, Null) /\ Built(st, Outside)
                   /\ Outside \in Address
BY Addresses DEF Built

\* A thread that runs has no compilation of its own.
LEMMA OwnLocal ==
  ASSUME LocalsRight, NEW t \in Threads
  PROVE  Local(lock, stub, t, th[t])
BY DEF LocalsRight

LEMMA GetPointerPasses ==
  ASSUME Base, NEW t \in Threads, NEW f \in Functions, GetPointerToFunction(t, f), UNCHANGED LazyDisabled
  PROVE  Passes(t)
<1>. DEFINE r == IF GlobalAddress[f] # Null
                 THEN [Idle EXCEPT !.callee = f, !.pc = "run", !.at = GlobalAddress[f]]
                 ELSE [Idle EXCEPT !.callee = f, !.pc = "acquire", !.want = f]
<1>1. /\ TypeOK /\ th' = [th EXCEPT ![t] = r] /\ th[t].pc = "idle"
      /\ UNCHANGED <<compiler, LazyDisabled, maps, memory, uses>>
  BY DEF Base, GetPointerToFunction, At
<1>2. GlobalAddress[f] \in Address /\ Built(stub, GlobalAddress[f]) /\ lock # t
  BY <1>1 DEF Base, TypeOK, AllBuilt, LocalsRight, Local, Locks, Holding
<1>3. /\ r \in ThreadState /\ r.pc \in {"run", "acquire"} /\ r.after = "call"
      /\ r.pc = "acquire" => r.want \in Functions
      /\ Built(stub, r.at) /\ Built(stub, r.res)
  BY <1>2, NullBuilt DEF Idle, ThreadState
<1>. HIDE DEF r
<1>4. Local(lock, stub, t, r)
  BY <1>2, <1>3 DEF Local, Locks, Holding
<1>. QED BY <1>1, <1>3, <1>4, PassesBy DEF Locks, Holding

LEMMA GetStubPasses ==
  ASSUME Base, NEW t \in Threads, NEW f \in Functions, GetPointerToFunctionOrStub(t, f), UNCHANGED LazyDisabled
  PROVE  Passes(t)
<1>. DEFINE r == IF GlobalAddress[f] # Null
                 THEN [Idle EXCEPT !.callee = f, !.pc = "run", !.at = GlobalAddress[f]]
                 ELSE [Idle EXCEPT !.callee = f, !.pc = "stub"]
<1>1. /\ TypeOK /\ th' = [th EXCEPT ![t] = r] /\ th[t].pc = "idle"
      /\ UNCHANGED <<compiler, LazyDisabled, maps, memory, uses>>
  BY DEF Base, GetPointerToFunctionOrStub, At
<1>2. GlobalAddress[f] \in Address /\ Built(stub, GlobalAddress[f]) /\ lock # t
  BY <1>1 DEF Base, TypeOK, AllBuilt, LocalsRight, Local, Locks, Holding
<1>3. /\ r \in ThreadState /\ r.pc \in {"run", "stub"} /\ r.after = "call"
      /\ r.callee \in Functions
      /\ Built(stub, r.at) /\ Built(stub, r.res)
  BY <1>2, NullBuilt DEF Idle, ThreadState
<1>. HIDE DEF r
<1>4. Local(lock, stub, t, r)
  BY <1>2, <1>3 DEF Local, Locks, Holding
<1>. QED BY <1>1, <1>3, <1>4, PassesBy DEF Locks, Holding

LEMMA RunPasses ==
  ASSUME Base, NEW t \in Threads, Run(t), UNCHANGED LazyDisabled
  PROVE  Passes(t)
<1>. DEFINE a == th[t].at
            r == CASE a = Null    -> [th[t] EXCEPT !.pc = "null"]
                   [] a = Outside -> Idle
                   [] a \in Codes -> [th[t] EXCEPT !.pc = IF code[a].state = "done" THEN "body" ELSE "dead"]
                   [] a \in Stubs -> CASE stub[a] = Resolver -> [th[t] EXCEPT !.pc = "lookup"]
                                       [] stub[a] = Torn     -> [th[t] EXCEPT !.pc = "torn"]
                                       [] OTHER              -> [th[t] EXCEPT !.at = stub[a]]
<1>1. /\ TypeOK /\ th' = [th EXCEPT ![t] = r] /\ th[t].pc = "run"
      /\ UNCHANGED <<compiler, LazyDisabled, maps, memory, uses>>
  BY DEF Base, Run, At
<1>2. /\ th[t] \in ThreadState /\ a \in Address /\ Built(stub, a) /\ Built(stub, th[t].res) /\ lock # t
      /\ th[t].after \in {"call", "erase"}
  <2>1. Local(lock, stub, t, th[t])
    BY DEF Base, LocalsRight
  <2>. QED BY <1>1, <2>1 DEF Local, Locks, Holding, ThreadState
<1>3. a \in Stubs => stub[a] \in Address \cup {Resolver, Torn} /\ Built(stub, stub[a])
  BY <1>1, <1>2 DEF TypeOK, Base, AllBuilt, Built
<1>4. /\ r \in ThreadState /\ r.pc \in {"null", "idle", "body", "dead", "lookup", "torn", "run"}
      /\ r.after \in {"call", "erase"} /\ (r.pc = "body" => r.at \in Codes)
      /\ Built(stub, r.at) /\ Built(stub, r.res)
  <2>1. CASE a = Null
    BY <1>1, <1>2, <2>1, Addresses DEF ThreadState
  <2>2. CASE a = Outside
    BY <2>2, NullBuilt, Addresses DEF Idle, ThreadState
  <2>3. CASE a \in Codes
    BY <1>1, <1>2, <2>3, Addresses DEF ThreadState
  <2>4. CASE a \in Stubs /\ stub[a] = Resolver
    BY <1>1, <1>2, <2>4, Addresses DEF ThreadState
  <2>5. CASE a \in Stubs /\ stub[a] = Torn
    BY <1>1, <1>2, <2>5, Addresses DEF ThreadState
  <2>6. CASE a \in Stubs /\ stub[a] \in Address
    <3>1. r = [th[t] EXCEPT !.at = stub[a]]
      BY <2>6, Addresses
    <3>2. /\ r \in ThreadState /\ r.pc = "run" /\ r.after = th[t].after /\ r.at = stub[a] /\ r.res = th[t].res
      <4>. HIDE DEF r
      <4>. QED BY <1>1, <1>2, <2>6, <3>1 DEF ThreadState
    <3>. QED BY <1>2, <1>3, <2>6, <3>2
  <2>7. /\ a \in {Null, Outside} \cup Codes \cup Stubs
        /\ a \in Stubs => stub[a] \in {Resolver, Torn} \/ stub[a] \in Address
    BY <1>2, <1>3, Addresses
  <2>. HIDE DEF r, a
  <2>. QED BY <2>1, <2>2, <2>3, <2>4, <2>5, <2>6, <2>7
<1>. HIDE DEF r
<1>5. Local(lock, stub, t, r)
  BY <1>2, <1>4 DEF Local, Locks, Holding
<1>. QED BY <1>1, <1>4, <1>5, PassesBy DEF Locks, Holding

LEMMA CallPasses ==
  ASSUME Base, NEW t \in Threads, Call(t), UNCHANGED LazyDisabled
  PROVE  Passes(t)
<1>1. /\ TypeOK /\ th[t].pc = "body" /\ UNCHANGED <<compiler, LazyDisabled, maps, memory, uses>>
  BY DEF Base, Call, At
<1>2. th[t].at \in Codes /\ lock # t
  <2>1. Local(lock, stub, t, th[t])
    BY DEF Base, LocalsRight
  <2>. QED BY <1>1, <2>1 DEF Local, Locks, Holding
<1>3. PICK g \in Functions :
        th' = [th EXCEPT ![t] = [Idle EXCEPT !.pc = "run", !.callee = g, !.at = code[th[t].at].refs[g]]]
  BY DEF Call
<1>. DEFINE a == code[th[t].at].refs[g]
            r == [Idle EXCEPT !.pc = "run", !.callee = g, !.at = a]
<1>4. a \in Address /\ Built(stub, a)
  BY <1>1, <1>2 DEF TypeOK, Base, AllBuilt
<1>5. th' = [th EXCEPT ![t] = r]
  BY <1>3
<1>. HIDE DEF a
<1>6. r \in ThreadState /\ r.pc = "run" /\ r.after = "call" /\ Built(stub, r.at) /\ Built(stub, r.res)
  BY <1>4, NullBuilt DEF Idle, ThreadState
<1>. HIDE DEF r
<1>7. Local(lock, stub, t, r)
  BY <1>2, <1>6 DEF Local, Locks, Holding
<1>. QED BY <1>1, <1>5, <1>6, <1>7, PassesBy DEF Locks, Holding

LEMMA ReturnFromBodyPasses ==
  ASSUME Base, NEW t \in Threads, ReturnFromBody(t), UNCHANGED LazyDisabled
  PROVE  Passes(t)
<1>1. /\ TypeOK /\ th[t].pc = "body" /\ UNCHANGED <<compiler, LazyDisabled, maps, memory, uses>>
      /\ th' = [th EXCEPT ![t] = Idle] /\ lock # t
  BY DEF Base, ReturnFromBody, At, LocalsRight, Local, Locks, Holding
<1>2. Idle \in ThreadState /\ Idle.pc = "idle" /\ Idle.after = "call" /\ Idle.at = Null /\ Idle.res = Null
  BY NullBuilt DEF Idle, ThreadState
<1>3. Local(lock, stub, t, Idle)
  BY <1>1, <1>2, NullBuilt DEF Local, Locks, Holding
<1>. QED BY <1>1, <1>2, <1>3, PassesBy DEF Locks, Holding

LEMMA FindStubPasses ==
  ASSUME Base, NEW t \in Threads, FindStub(t), UNCHANGED LazyDisabled
  PROVE  Passes(t)
<1>1. /\ TypeOK /\ th[t].pc = "lookup" /\ UNCHANGED <<compiler, LazyDisabled, maps, memory, uses>>
  BY DEF Base, FindStub, At
<1>2. /\ th[t] \in ThreadState /\ Built(stub, th[t].at) /\ Built(stub, th[t].res) /\ lock # t
      /\ th[t].after \in {"call", "erase"}
  <2>1. Local(lock, stub, t, th[t])
    BY DEF Base, LocalsRight
  <2>. QED BY <1>1, <2>1 DEF Local, Locks, Holding, ThreadState
<1>3. CASE Goto(t, "unknown")
  <2>. DEFINE r == [th[t] EXCEPT !.pc = "unknown"]
  <2>1. th' = [th EXCEPT ![t] = r]
    BY <1>3 DEF Goto
  <2>2. /\ r \in ThreadState /\ r.pc = "unknown" /\ r.after = th[t].after
        /\ r.at = th[t].at /\ r.res = th[t].res
    BY <1>2 DEF ThreadState
  <2>. HIDE DEF r
  <2>3. Local(lock, stub, t, r)
    BY <1>2, <2>2 DEF Local, Locks, Holding
  <2>. QED BY <1>1, <1>2, <2>1, <2>2, <2>3, PassesBy DEF Locks, Holding
<1>4. CASE \E s \in Candidates(th[t].at) : th' = [th EXCEPT ![t].pc = "check", ![t].want = StubToFunction[s]]
  <2>1. PICK s \in Candidates(th[t].at) : th' = [th EXCEPT ![t].pc = "check", ![t].want = StubToFunction[s]]
    BY <1>4
  <2>2. StubToFunction[s] \in Functions
    BY <1>1 DEF Candidates, TypeOK
  <2>. DEFINE r == [th[t] EXCEPT !.pc = "check", !.want = StubToFunction[s]]
  <2>3. th' = [th EXCEPT ![t] = r]
    BY <1>1, <2>1 DEF TypeOK
  <2>4. /\ r \in ThreadState /\ r.pc = "check" /\ r.after = th[t].after /\ r.want \in Functions
        /\ r.at = th[t].at /\ r.res = th[t].res
    BY <1>2, <2>2 DEF ThreadState
  <2>. HIDE DEF r
  <2>5. Local(lock, stub, t, r)
    BY <1>2, <2>4 DEF Local, Locks, Holding
  <2>. QED BY <1>1, <1>2, <2>3, <2>4, <2>5, PassesBy DEF Locks, Holding
<1>. QED BY <1>3, <1>4 DEF FindStub

LEMMA CheckCompiledPasses ==
  ASSUME Base, NEW t \in Threads, CheckCompiled(t), UNCHANGED LazyDisabled
  PROVE  Passes(t)
<1>1. /\ TypeOK /\ th[t].pc = "check" /\ UNCHANGED <<compiler, LazyDisabled, maps, memory, uses>>
  BY DEF Base, CheckCompiled, At
<1>2. /\ th[t] \in ThreadState /\ Built(stub, th[t].at) /\ Built(stub, th[t].res) /\ lock # t
      /\ th[t].after \in {"call", "erase"} /\ th[t].want \in Functions
  <2>1. Local(lock, stub, t, th[t])
    BY DEF Base, LocalsRight
  <2>. QED BY <1>1, <2>1 DEF Local, Locks, Holding, ThreadState
<1>. DEFINE a == GlobalAddress[th[t].want]
            r == IF a # Null THEN [th[t] EXCEPT !.pc = "erase", !.res = a]
                 ELSE [th[t] EXCEPT !.pc = "acquire", !.after = "erase"]
<1>3. a \in Address /\ Built(stub, a)
  BY <1>1, <1>2 DEF TypeOK, Base, AllBuilt
<1>4. th' = [th EXCEPT ![t] = r]
  BY DEF CheckCompiled
<1>. HIDE DEF a
<1>5. /\ r \in ThreadState /\ r.pc \in {"erase", "acquire"} /\ r.after \in {"call", "erase"}
      /\ r.want \in Functions /\ r.at = th[t].at /\ r.res \in {a, th[t].res}
  BY <1>2, <1>3 DEF ThreadState
<1>. HIDE DEF r
<1>6. Local(lock, stub, t, r)
  BY <1>2, <1>3, <1>5 DEF Local, Locks, Holding
<1>. QED BY <1>1, <1>4, <1>5, <1>6, PassesBy DEF Locks, Holding

\* The steps that change the maps.
LEMMA KeptMaps ==
  ASSUME TypeOK, UNCHANGED GlobalAddress
  PROVE  GlobalAddress' \in [Functions -> Address] /\ \A f \in Functions : GlobalAddress'[f] = GlobalAddress[f]
BY DEF TypeOK

LEMMA Forgets ==
  ASSUME TypeOK, NEW f \in Functions, NEW a \in {Null, Outside}, GlobalAddress' = [GlobalAddress EXCEPT ![f] = a]
  PROVE  /\ GlobalAddress' \in [Functions -> Address] /\ GlobalAddress'[f] = a
         /\ \A g \in Functions : GlobalAddress'[g] \in {GlobalAddress[g], Null, Outside}
BY NullBuilt DEF TypeOK

LEMMA RecompilePasses ==
  ASSUME Base, NEW t \in Threads, NEW f \in Functions, RecompileAndRelinkFunction(t, f), UNCHANGED LazyDisabled
  PROVE  Passes(t)
<1>. DEFINE r == [Idle EXCEPT !.callee = f, !.want = f,
                    !.pc = IF GlobalAddress[f] = Null THEN "acquire" ELSE "rejit"]
<1>1. /\ TypeOK /\ th' = [th EXCEPT ![t] = r] /\ th[t].pc = "idle"
      /\ GlobalAddress' = [GlobalAddress EXCEPT ![f] = Null]
      /\ UNCHANGED <<lock, job, LazyDisabled, FunctionToStub, StubToFunction, PendingFunctions, memory, uses>>
  BY DEF Base, RecompileAndRelinkFunction, At, compiler
<1>2. lock # t
  BY <1>1 DEF Base, LocalsRight, Local, Locks, Holding
<1>3. /\ r \in ThreadState /\ r.pc \in {"acquire", "rejit"} /\ r.after = "call"
      /\ r.want \in Functions /\ r.at = Null /\ r.res = Null
  BY NullBuilt DEF Idle, ThreadState
<1>. HIDE DEF r
<1>4. Local(lock, stub, t, r)
  BY <1>2, <1>3, NullBuilt DEF Local, Locks, Holding
<1>5. FunctionToStub' \in [Functions -> Stubs \cup {Null}]
  BY <1>1 DEF TypeOK
<1>6. Moves(t) /\ th' \in [Threads -> ThreadState] /\ th'[t] = r
  BY <1>1, <1>3, Becomes
<1>. QED BY <1>1, <1>3, <1>4, <1>5, <1>6, Forgets DEF Passes, Locks, Holding

LEMMA FreePasses ==
  ASSUME Base, NEW t \in Threads, NEW f \in Functions, FreeMachineCode(t, f), UNCHANGED LazyDisabled
  PROVE  Passes(t)
<1>. DEFINE r == [Idle EXCEPT !.pc = "free", !.want = f]
<1>1. /\ TypeOK /\ th' = [th EXCEPT ![t] = r] /\ th[t].pc = "idle" /\ "free" \in ClientOps
      /\ GlobalAddress' = [GlobalAddress EXCEPT ![f] = Null]
      /\ UNCHANGED <<lock, job, LazyDisabled, FunctionToStub, StubToFunction, PendingFunctions, memory, uses>>
  BY DEF Base, FreeMachineCode, At, compiler
<1>2. lock # t
  BY <1>1 DEF Base, LocalsRight, Local, Locks, Holding
<1>3. /\ r \in ThreadState /\ r.pc = "free" /\ r.after = "call"
      /\ r.want = f /\ r.at = Null /\ r.res = Null
  BY NullBuilt DEF Idle, ThreadState
<1>. HIDE DEF r
<1>4. Local(lock, stub, t, r)
  BY <1>1, <1>2, <1>3, NullBuilt DEF Local, Locks, Holding
<1>5. FunctionToStub' \in [Functions -> Stubs \cup {Null}]
  BY <1>1 DEF TypeOK
<1>6. Moves(t) /\ th' \in [Threads -> ThreadState] /\ th'[t] = r
  BY <1>1, <1>3, Becomes
<1>. QED BY <1>1, <1>3, <1>4, <1>5, <1>6, Forgets DEF Passes, Locks, Holding

LEMMA EraseStubPasses ==
  ASSUME Base, NEW t \in Threads, EraseStub(t), UNCHANGED LazyDisabled
  PROVE  Passes(t)
<1>. DEFINE r == [th[t] EXCEPT !.pc = "patch"]
            f == th[t].want
<1>1. /\ TypeOK /\ th' = [th EXCEPT ![t] = r] /\ th[t].pc = "erase"
      /\ FunctionToStub' = [FunctionToStub EXCEPT ![f] = Null]
      /\ UNCHANGED <<lock, job, LazyDisabled, GlobalAddress, StubToFunction, PendingFunctions, memory, uses>>
  BY DEF Base, EraseStub, Goto, At, compiler
<1>2. /\ th[t] \in ThreadState /\ Built(stub, th[t].at) /\ Built(stub, th[t].res) /\ lock # t
      /\ th[t].after \in {"call", "erase"} /\ f \in Functions
  <2>1. Local(lock, stub, t, th[t])
    BY DEF Base, LocalsRight
  <2>. QED BY <1>1, <2>1 DEF Local, Locks, Holding, ThreadState
<1>3. /\ r \in ThreadState /\ r.pc = "patch" /\ r.after = th[t].after
      /\ r.at = th[t].at /\ r.res = th[t].res
  BY <1>2 DEF ThreadState
<1>. HIDE DEF r
<1>4. Local(lock, stub, t, r)
  BY <1>2, <1>3 DEF Local, Locks, Holding
<1>5. /\ FunctionToStub' \in [Functions -> Stubs \cup {Null}]
      /\ \A g \in Functions : FunctionToStub'[g] \in {FunctionToStub[g], Null}
  BY <1>1, <1>2 DEF TypeOK
<1>6. Moves(t) /\ th' \in [Threads -> ThreadState] /\ th'[t] = r
  BY <1>1, <1>3, Becomes
<1>. QED BY <1>1, <1>2, <1>3, <1>4, <1>5, <1>6, KeptMaps DEF Passes, Locks, Holding

\* What a thread that has no lock does with the address it asked for.
LEMMA ReturnPasses ==
  ASSUME Base, NEW t \in Threads, th[t].pc = "acquire", NEW a \in Address, Built(stub, a), Return(t, a)
  PROVE  /\ Moves(t) /\ th' \in [Threads -> ThreadState] /\ Local(lock, stub, t, th'[t])
         /\ th'[t].pc \in {"run", "erase"} /\ th'[t].after \in {"call", "erase"}
<1>1. TypeOK
  BY DEF Base
<1>2. /\ th[t] \in ThreadState /\ Built(stub, th[t].at) /\ Built(stub, th[t].res) /\ lock # t
      /\ th[t].after \in {"call", "erase"} /\ th[t].want \in Functions
  <2>1. Local(lock, stub, t, th[t])
    BY DEF Base, LocalsRight
  <2>. QED BY <2>1 DEF Local, Locks, Holding, ThreadState
<1>. DEFINE r == IF th[t].after = "call" THEN [th[t] EXCEPT !.pc = "run", !.at = a]
                 ELSE [th[t] EXCEPT !.pc = "erase", !.res = a]
<1>3. th' = [th EXCEPT ![t] = r]
  BY <1>2 DEF Return
<1>4. /\ r \in ThreadState /\ r.pc \in {"run", "erase"} /\ r.after \in {"call", "erase"}
      /\ r.want \in Functions /\ r.at \in {a, th[t].at} /\ r.res \in {a, th[t].res}
  BY <1>2 DEF ThreadState
<1>. HIDE DEF r
<1>5. Local(lock, stub, t, r)
  BY <1>2, <1>4 DEF Local, Locks, Holding
<1>. QED BY <1>1, <1>3, <1>4, <1>5, Becomes

LEMMA AcquirePasses ==
  ASSUME Base, NEW t \in Threads, Acquire(t), UNCHANGED LazyDisabled,
         GlobalAddress[th[t].want] # Null \/ th[t].want \in External
  PROVE  Passes(t)
<1>. DEFINE f == th[t].want
<1>1. /\ TypeOK /\ th[t].pc = "acquire" /\ UNCHANGED <<LazyDisabled, memory, uses>>
  BY DEF Base, Acquire, At
<1>2. f \in Functions
  BY <1>1 DEF Base, LocalsRight, Local
<1>3. CASE GlobalAddress[f] # Null
  <2>1. Return(t, GlobalAddress[f]) /\ UNCHANGED <<compiler, maps>>
    BY <1>3 DEF Acquire
  <2>2. GlobalAddress[f] \in Address /\ Built(stub, GlobalAddress[f])
    BY <1>1, <1>2 DEF TypeOK, Base, AllBuilt
  <2>3. /\ Moves(t) /\ th' \in [Threads -> ThreadState] /\ Local(lock, stub, t, th'[t])
        /\ th'[t].pc \in {"run", "erase"} /\ th'[t].after \in {"call", "erase"}
    BY <1>1, <2>1, <2>2, ReturnPasses
  <2>4. UNCHANGED <<lock, job, GlobalAddress, FunctionToStub, StubToFunction, PendingFunctions>>
    BY <2>1 DEF compiler, maps
  <2>5. FunctionToStub' \in [Functions -> Stubs \cup {Null}]
    BY <1>1, <2>4 DEF TypeOK
  <2>. QED BY <1>1, <2>3, <2>4, <2>5, KeptMaps DEF Passes, Locks, Holding
<1>4. CASE GlobalAddress[f] = Null /\ f \in External
  <2>1. /\ Return(t, Outside) /\ GlobalAddress' = [GlobalAddress EXCEPT ![f] = Outside]
        /\ UNCHANGED <<lock, job, FunctionToStub, StubToFunction, PendingFunctions>>
    BY <1>4 DEF Acquire, compiler
  <2>2. /\ Moves(t) /\ th' \in [Threads -> ThreadState] /\ Local(lock, stub, t, th'[t])
        /\ th'[t].pc \in {"run", "erase"} /\ th'[t].after \in {"call", "erase"}
    BY <1>1, <2>1, NullBuilt, ReturnPasses
  <2>3. FunctionToStub' \in [Functions -> Stubs \cup {Null}]
    BY <1>1, <2>1 DEF TypeOK
  <2>4. /\ GlobalAddress' \in [Functions -> Address]
        /\ \A g \in Functions : GlobalAddress'[g] \in {GlobalAddress[g], Null, Outside}
    BY <1>1, <1>2, <2>1, Forgets
  <2>. QED BY <1>1, <2>1, <2>2, <2>3, <2>4 DEF Passes, Locks, Holding
<1>. QED BY <1>3, <1>4

\* A stub is asked for that there is.
LEMMA StubFoundPasses ==
  ASSUME Base, NEW t \in Threads, GetFunctionStub(t), UNCHANGED LazyDisabled,
         FunctionToStub[th[t].callee] # Null
  PROVE  Passes(t)
<1>. DEFINE a == FunctionToStub[th[t].callee]
            r == [th[t] EXCEPT !.pc = "run", !.at = a]
<1>1. /\ TypeOK /\ th[t].pc = "stub" /\ UNCHANGED <<compiler, LazyDisabled, stub, maps, code, FunctionBlock, uses>>
      /\ th' = [th EXCEPT ![t] = r]
  BY DEF Base, GetFunctionStub, At
<1>2. /\ th[t] \in ThreadState /\ Built(stub, th[t].res) /\ lock # t
      /\ th[t].after \in {"call", "erase"} /\ th[t].callee \in Functions
  <2>1. Local(lock, stub, t, th[t])
    BY DEF Base, LocalsRight
  <2>. QED BY <1>1, <2>1 DEF Local, Locks, Holding, ThreadState
<1>3. a \in Address /\ Built(stub, a)
  BY <1>1, <1>2, Addresses DEF TypeOK, Base, Filings, Built
<1>. HIDE DEF a
<1>4. /\ r \in ThreadState /\ r.pc = "run" /\ r.after = th[t].after
      /\ r.at = a /\ r.res = th[t].res
  BY <1>2, <1>3 DEF ThreadState
<1>. HIDE DEF r
<1>5. Local(lock, stub, t, r)
  BY <1>2, <1>3, <1>4 DEF Local, Locks, Holding
<1>. QED BY <1>1, <1>2, <1>4, <1>5, PassesBy DEF Locks, Holding, memory

-----------------------------------------------------------------------------
(***************************************************************************)
(* Steps that begin a compilation, and steps that rewrite a stub.          *)
(***************************************************************************)
Begins(t) ==
  /\ Moves(t) /\ th' \in [Threads -> ThreadState] /\ Local(t, stub, t, th'[t])
  /\ th[t].pc \notin Locks /\ th'[t].pc = "start"
  /\ lock = NoThread /\ lock' = t /\ job' = Begin(th'[t].want)
  /\ UNCHANGED <<LazyDisabled, maps, memory, uses>>

LEMMA BeginsBy ==
  ASSUME TypeOK, NEW t \in Threads, NEW r \in ThreadState, th' = [th EXCEPT ![t] = r],
         th[t].pc \notin Locks, lock = NoThread, lock' = t, job' = Begin(r.want), r.pc = "start",
         r.want \in Functions, Built(stub, r.at), Built(stub, r.res),
         UNCHANGED <<LazyDisabled, maps, memory, uses>>
  PROVE  Begins(t)
<1>1. Moves(t) /\ th' \in [Threads -> ThreadState] /\ th'[t] = r
  BY Becomes
<1>2. Local(t, stub, t, r)
  BY DEF Local, Locks, Holding
<1>. QED BY <1>1, <1>2 DEF Begins

LEMMA RunJITBegins ==
  ASSUME Base, NEW t \in Threads, NEW f \in Functions, RunJITOnFunction(t, f), UNCHANGED LazyDisabled
  PROVE  Begins(t)
<1>. DEFINE r == [Idle EXCEPT !.pc = "start", !.want = f, !.after = "report"]
<1>1. /\ TypeOK /\ th' = [th EXCEPT ![t] = r] /\ th[t].pc = "idle" /\ lock = NoThread /\ lock' = t
      /\ job' = Begin(f) /\ UNCHANGED <<LazyDisabled, maps, memory, uses>>
  BY DEF Base, RunJITOnFunction, At
<1>2. r \in ThreadState /\ r.pc = "start" /\ r.want = f /\ r.at = Null /\ r.res = Null
  BY NullBuilt DEF Idle, ThreadState
<1>. HIDE DEF r
<1>. QED BY <1>1, <1>2, NullBuilt, BeginsBy DEF Locks, Holding

LEMMA RejitBegins ==
  ASSUME Base, NEW t \in Threads, Rejit(t), UNCHANGED LazyDisabled
  PROVE  Begins(t)
<1>. DEFINE r == [th[t] EXCEPT !.pc = "start", !.after = "relink"]
<1>1. /\ TypeOK /\ th[t].pc = "rejit" /\ lock = NoThread /\ lock' = t
      /\ job' = Begin(th[t].want) /\ UNCHANGED <<LazyDisabled, maps, memory, uses>>
  BY DEF Base, Rejit, At
<1>2. th' = [th EXCEPT ![t] = r]
  BY <1>1 DEF Rejit, TypeOK
<1>3. /\ th[t] \in ThreadState /\ Built(stub, th[t].at) /\ Built(stub, th[t].res)
      /\ th[t].want \in Functions
  BY <1>1 DEF Base, LocalsRight, Local
<1>4. r \in ThreadState /\ r.pc = "start" /\ r.want = th[t].want /\ r.at = th[t].at /\ r.res = th[t].res
  BY <1>3 DEF ThreadState
<1>. HIDE DEF r
<1>. QED BY <1>1, <1>2, <1>3, <1>4, BeginsBy DEF Locks, Holding

LEMMA AcquireBegins ==
  ASSUME Base, NEW t \in Threads, Acquire(t), UNCHANGED LazyDisabled,
         GlobalAddress[th[t].want] = Null, th[t].want \notin External
  PROVE  Begins(t)
<1>. DEFINE r == [th[t] EXCEPT !.pc = "start"]
<1>1. /\ TypeOK /\ th[t].pc = "acquire" /\ lock = NoThread /\ lock' = t /\ th' = [th EXCEPT ![t] = r]
      /\ job' = Begin(th[t].want) /\ UNCHANGED <<LazyDisabled, maps, memory, uses>>
  BY DEF Base, Acquire, At, Goto
<1>2. /\ th[t] \in ThreadState /\ Built(stub, th[t].at) /\ Built(stub, th[t].res)
      /\ th[t].want \in Functions
  BY <1>1 DEF Base, LocalsRight, Local
<1>3. r \in ThreadState /\ r.pc = "start" /\ r.want = th[t].want /\ r.at = th[t].at /\ r.res = th[t].res
  BY <1>2 DEF ThreadState
<1>. HIDE DEF r
<1>. QED BY <1>1, <1>2, <1>3, BeginsBy DEF Locks, Holding

\* Whoever holds the lock compiles on when its stub is rewritten.
Rewrites(t) ==
  /\ Moves(t) /\ th' \in [Threads -> ThreadState] /\ Local(lock, stub', t, th'[t])
  /\ \/ th[t].pc = "restub" /\ th'[t].pc = "next"
     \/ th[t].pc \in {"patch", "mend"} /\ th'[t].pc \in {"mend", "run"}
  /\ th'[t].after = th[t].after /\ th'[t].res = th[t].res /\ th'[t].want = th[t].want
  /\ stub' \in [Stubs -> Address \cup {Resolver, Torn, Unused}]
  /\ \A s \in Stubs : /\ stub'[s] = Unused <=> stub[s] = Unused
                      /\ stub'[s] = stub[s] \/ Built(stub, stub'[s])
  /\ UNCHANGED <<lock, job, LazyDisabled, maps, code, FunctionBlock, uses>>

LEMMA BuiltOn ==
  ASSUME NEW st, NEW su, \A s \in Stubs : st[s] # Unused => su[s] # Unused
  PROVE  \A a : Built(st, a) => Built(su, a)
BY DEF Built

\* The stub s is made to jump to a.
LEMMA RewritesBy ==
  ASSUME Base, NEW t \in Threads, NEW pc, Goto(t, pc), NEW s, NEW a,
         \/ th[t].pc = "restub" /\ pc = "next"
         \/ th[t].pc \in {"patch", "mend"} /\ pc \in {"mend", "run"},
         s \in Stubs => stub[s] # Unused,
         a \in Address \cup {Resolver, Torn}, Built(stub, a),
         stub' = [stub EXCEPT ![s] = a],
         UNCHANGED <<compiler, LazyDisabled, maps, code, FunctionBlock, uses>>
  PROVE  Rewrites(t)
<1>1. TypeOK /\ UNCHANGED <<lock, job>>
  BY DEF Base, compiler
<1>2. /\ th[t] \in ThreadState /\ Local(lock, stub, t, th[t])
  BY DEF Base, LocalsRight, Local
<1>. DEFINE r == [th[t] EXCEPT !.pc = pc]
<1>3. /\ r \in ThreadState /\ r.pc = pc /\ r.at = th[t].at /\ r.callee = th[t].callee
      /\ r.want = th[t].want /\ r.after = th[t].after /\ r.res = th[t].res
  BY <1>2 DEF ThreadState
<1>4. th' = [th EXCEPT ![t] = r]
  BY DEF Goto
<1>. HIDE DEF r
<1>5. Moves(t) /\ th' \in [Threads -> ThreadState] /\ th'[t] = r
  BY <1>1, <1>3, <1>4, Becomes
<1>6. /\ stub' \in [Stubs -> Address \cup {Resolver, Torn, Unused}]
      /\ \A x \in Stubs : /\ stub'[x] = Unused <=> stub[x] = Unused
                          /\ stub'[x] = stub[x] \/ Built(stub, stub'[x])
  BY <1>1, Addresses DEF TypeOK
<1>7. Built(stub', th[t].at) /\ Built(stub', th[t].res)
  BY <1>2, <1>6 DEF Local, Built
<1>8. Local(lock, stub', t, r)
  BY <1>2, <1>3, <1>7 DEF Local, Locks, Holding
<1>. QED BY <1>1, <1>3, <1>5, <1>6, <1>8 DEF Rewrites

LEMMA UpdateRewrites ==
  ASSUME Base, NEW t \in Threads, UpdateFunctionStub(t), UNCHANGED LazyDisabled
  PROVE  Rewrites(t)
<1>. DEFINE s == FunctionToStub[job.fn]
            a == GlobalAddress[job.fn]
<1>1. /\ th[t].pc = "restub" /\ Goto(t, "next") /\ s # Null /\ stub' = [stub EXCEPT ![s] = a]
      /\ UNCHANGED <<compiler, LazyDisabled, maps, code, FunctionBlock, uses>>
  BY DEF UpdateFunctionStub, At
<1>2. job.fn \in Functions
  BY <1>1 DEF Base, CompilationRight, Holding
<1>3. /\ s \in Stubs => stub[s] # Unused
      /\ a \in Address /\ Built(stub, a)
  BY <1>1, <1>2 DEF Base, Filings, TypeOK, AllBuilt
<1>. HIDE DEF s, a
<1>. QED BY <1>1, <1>3, RewritesBy

LEMMA TearRewrites ==
  ASSUME Base, NEW t \in Threads, TearStub(t), UNCHANGED LazyDisabled
  PROVE  Rewrites(t)
<1>. DEFINE s == th[t].at
            a == IF stub[s] = Resolver THEN Torn ELSE stub[s]
<1>1. /\ th[t].pc = "patch" /\ Goto(t, "mend") /\ stub' = [stub EXCEPT ![s] = a]
      /\ UNCHANGED <<compiler, LazyDisabled, maps, code, FunctionBlock, uses>>
  BY DEF TearStub, At
<1>2. Built(stub, s) /\ TypeOK
  BY DEF Base, LocalsRight, Local
<1>3. CASE s \in Stubs
  <2>1. a \in Address \cup {Resolver, Torn} /\ Built(stub, a) /\ stub[s] # Unused
    BY <1>2, <1>3, Addresses DEF TypeOK, Base, AllBuilt, Built, Address
  <2>. HIDE DEF s, a
  <2>. QED BY <1>1, <2>1, RewritesBy
<1>4. CASE s \notin Stubs
  <2>1. stub' = [stub EXCEPT ![s] = Null]
    BY <1>1, <1>2, <1>4 DEF TypeOK
  <2>. HIDE DEF s, a
  <2>. QED BY <1>1, <1>4, <2>1, NullBuilt, RewritesBy
<1>. QED BY <1>3, <1>4

LEMMA MendRewrites ==
  ASSUME Base, NEW t \in Threads, MendStub(t), UNCHANGED LazyDisabled
  PROVE  Rewrites(t)
<1>. DEFINE s == th[t].at
            a == th[t].res
<1>1. /\ th[t].pc = "mend" /\ Goto(t, "run") /\ stub' = [stub EXCEPT ![s] = a]
      /\ UNCHANGED <<compiler, LazyDisabled, maps, code, FunctionBlock, uses>>
  BY DEF MendStub, At
<1>2. /\ s \in Stubs => stub[s] # Unused
      /\ a \in Address /\ Built(stub, a)
  BY DEF Base, LocalsRight, Local, Built, ThreadState
<1>. HIDE DEF s, a
<1>. QED BY <1>1, <1>2, RewritesBy

-----------------------------------------------------------------------------
(***************************************************************************)
(* What emitting a stub, filing a reference to it and dropping the         *)
(* references of a body change.                                            *)
(***************************************************************************)
LEMMA StubEmitted ==
  ASSUME Base, NEW g \in Functions, NEW s \in FreshStubs, EmitStub(g, s)
  PROVE  /\ GlobalAddress' \in [Functions -> Address] /\ PendingFunctions' \in Seq(Functions)
         /\ FunctionToStub' \in [Functions -> Stubs \cup {Null}]
         /\ StubToFunction' \in [Stubs -> Functions \cup {NoFunction}]
         /\ stub' \in [Stubs -> Address \cup {Resolver, Torn, Unused}]
         /\ s \in Stubs /\ stub[s] = Unused /\ stub'[s] # Unused
         /\ \A r \in Stubs : r # s => stub'[r] = stub[r] /\ StubToFunction'[r] = StubToFunction[r]
         /\ \A f \in Functions : GlobalAddress'[f] \in {GlobalAddress[f], s}
         /\ FunctionToStub'[g] = s /\ StubToFunction'[s] = g
         /\ \A f \in Functions : f # g => FunctionToStub'[f] = FunctionToStub[f]
         /\ stub'[s] = Resolver \/ Built(stub, stub'[s])
         /\ ~LazyDisabled => PendingFunctions' = PendingFunctions
<1>1. /\ TypeOK /\ s \in Stubs /\ stub[s] = Unused
  BY DEF Base, FreshStubs
<1>. DEFINE a == ActualTarget(g)
<1>2. a \in Address \cup {Resolver} /\ (a = Resolver \/ Built(stub, a)) /\ (a = Null => g \in External \/ LazyDisabled)
  BY <1>1, NullBuilt, Addresses DEF ActualTarget, TypeOK, Base, AllBuilt
<1>3. a # Unused /\ (~LazyDisabled => a # Null)
  BY <1>2, Addresses DEF ActualTarget, Null, Resolver
<1>4. /\ stub' = [stub EXCEPT ![s] = a]
      /\ FunctionToStub' = [FunctionToStub EXCEPT ![g] = s]
      /\ StubToFunction' = [StubToFunction EXCEPT ![s] = g]
      /\ GlobalAddress' = IF a = Resolver THEN GlobalAddress ELSE [GlobalAddress EXCEPT ![g] = s]
      /\ PendingFunctions' = IF a = Null THEN Append(PendingFunctions, g) ELSE PendingFunctions
  BY DEF EmitStub, Filed, Queued
<1>. HIDE DEF a
<1>5. PendingFunctions' \in Seq(Functions) /\ (~LazyDisabled => PendingFunctions' = PendingFunctions)
  BY <1>1, <1>3, <1>4 DEF TypeOK
<1>6. /\ stub' \in [Stubs -> Address \cup {Resolver, Torn, Unused}] /\ stub'[s] = a
      /\ \A r \in Stubs : r # s => stub'[r] = stub[r]
  BY <1>1, <1>2, <1>4 DEF TypeOK
<1>7. /\ GlobalAddress' \in [Functions -> Address]
      /\ \A f \in Functions : GlobalAddress'[f] \in {GlobalAddress[f], s}
  BY <1>1, <1>4, Addresses DEF TypeOK
<1>8. /\ FunctionToStub' \in [Functions -> Stubs \cup {Null}]
      /\ StubToFunction' \in [Stubs -> Functions \cup {NoFunction}]
      /\ FunctionToStub'[g] = s /\ StubToFunction'[s] = g
      /\ \A f \in Functions : f # g => FunctionToStub'[f] = FunctionToStub[f]
      /\ \A r \in Stubs : r # s => StubToFunction'[r] = StubToFunction[r]
  BY <1>1, <1>4 DEF TypeOK
<1>. QED BY <1>1, <1>2, <1>3, <1>5, <1>6, <1>7, <1>8

\* It agrees with what is filed, and keeps what was built.
LEMMA StubFiled ==
  ASSUME Base, NEW g \in Functions, NEW s \in FreshStubs, EmitStub(g, s)
  PROVE  /\ \A h \in Functions : FunctionToStub'[h] # Null =>
              StubToFunction'[FunctionToStub'[h]] = h /\ stub'[FunctionToStub'[h]] # Unused
         /\ \A a : Built(stub, a) => Built(stub', a)
         /\ \A f \in Functions : Built(stub', GlobalAddress'[f])
         /\ \A r \in Stubs : Built(stub', stub'[r])
<1>1. /\ s \in Stubs /\ stub[s] = Unused /\ stub'[s] # Unused
      /\ \A r \in Stubs : r # s => stub'[r] = stub[r] /\ StubToFunction'[r] = StubToFunction[r]
      /\ \A f \in Functions : GlobalAddress'[f] \in {GlobalAddress[f], s}
      /\ FunctionToStub'[g] = s /\ StubToFunction'[s] = g
      /\ \A f \in Functions : f # g => FunctionToStub'[f] = FunctionToStub[f]
      /\ stub'[s] = Resolver \/ Built(stub, stub'[s])
  BY StubEmitted
<1>2. \A a : Built(stub, a) => Built(stub', a)
  BY <1>1 DEF Built
<1>3. \A f \in Functions : Built(stub', GlobalAddress'[f])
  BY <1>1, <1>2 DEF Base, AllBuilt, Built
<1>4. \A r \in Stubs : Built(stub', stub'[r])
  BY <1>1, <1>2, Addresses DEF Base, AllBuilt, Built, Address
<1>5. ASSUME NEW h \in Functions, FunctionToStub'[h] # Null
      PROVE  StubToFunction'[FunctionToStub'[h]] = h /\ stub'[FunctionToStub'[h]] # Unused
  <2>1. CASE h = g
    BY <1>1, <2>1
  <2>2. CASE h # g
    <3>1. /\ FunctionToStub'[h] = FunctionToStub[h] /\ FunctionToStub[h] \in Stubs
          /\ StubToFunction[FunctionToStub[h]] = h /\ stub[FunctionToStub[h]] # Unused
      BY <1>1, <1>5, <2>2 DEF Base, TypeOK, Filings
    <3>. QED BY <1>1, <3>1
  <2>. QED BY <2>1, <2>2
<1>. QED BY <1>2, <1>3, <1>4, <1>5

LEMMA StubAdded ==
  ASSUME Base, NEW f \in Functions, NEW s \in Stubs, AddStub(f, s)
  PROVE  /\ CurFnStubUses' \in [Functions -> SUBSET Stubs] /\ StubFnRefs' \in [Stubs -> SUBSET Functions]
         /\ \A h \in Functions, r \in Stubs : r \in CurFnStubUses'[h] <=> h \in StubFnRefs'[r]
         /\ ~DlsymStubs => \A h \in Functions : CurFnStubUses'[h] = {}
         /\ DlsymStubs => s \in CurFnStubUses'[f]
         /\ \A h \in Functions : CurFnStubUses[h] \subseteq CurFnStubUses'[h]
<1>1. /\ CurFnStubUses \in [Functions -> SUBSET Stubs] /\ StubFnRefs \in [Stubs -> SUBSET Functions]
      /\ \A h \in Functions, r \in Stubs : r \in CurFnStubUses[h] <=> h \in StubFnRefs[r]
      /\ ~DlsymStubs => \A h \in Functions : CurFnStubUses[h] = {}
  BY DEF Base, TypeOK, Filings
<1>2. CASE ~DlsymStubs
  BY <1>1, <1>2 DEF AddStub, uses
<1>3. CASE DlsymStubs
  <2>1. /\ CurFnStubUses' = [CurFnStubUses EXCEPT ![f] = @ \cup {s}]
        /\ StubFnRefs' = [StubFnRefs EXCEPT ![s] = @ \cup {f}]
    BY <1>3 DEF AddStub
  <2>2. CurFnStubUses' \in [Functions -> SUBSET Stubs] /\ StubFnRefs' \in [Stubs -> SUBSET Functions]
    BY <1>1, <2>1
  <2>3. /\ CurFnStubUses'[f] = CurFnStubUses[f] \cup {s} /\ StubFnRefs'[s] = StubFnRefs[s] \cup {f}
        /\ \A h \in Functions : h # f => CurFnStubUses'[h] = CurFnStubUses[h]
        /\ \A r \in Stubs : r # s => StubFnRefs'[r] = StubFnRefs[r]
    BY <1>1, <2>1
  <2>4. \A h \in Functions : CurFnStubUses[h] \subseteq CurFnStubUses'[h]
    BY <2>3
  <2>5. ASSUME NEW h \in Functions, NEW r \in Stubs PROVE r \in CurFnStubUses'[h] <=> h \in StubFnRefs'[r]
    <3>1. CASE h = f /\ r = s
      BY <2>3, <3>1
    <3>2. CASE h = f /\ r # s
      BY <1>1, <2>3, <3>2
    <3>3. CASE h # f /\ r = s
      BY <1>1, <2>3, <3>3
    <3>4. CASE h # f /\ r # s
      BY <1>1, <2>3, <3>4
    <3>. QED BY <3>1, <3>2, <3>3, <3>4
  <2>. QED BY <1>3, <2>2, <2>3, <2>4, <2>5
<1>. QED BY <1>2, <1>3

\* The references of f are dropped, and its stubs with the last of them.
LEMMA Dropping ==
  ASSUME Base, NEW f \in Functions, NEW b \in Codes \cup {Null}, Deallocate(f, b)
  PROVE  /\ GlobalAddress' \in [Functions -> Address]
         /\ FunctionToStub' \in [Functions -> Stubs \cup {Null}]
         /\ StubToFunction' \in [Stubs -> Functions \cup {NoFunction}]
         /\ FunctionBlock' \in [Functions -> Codes \cup {Null}]
         /\ CurFnStubUses' \in [Functions -> SUBSET Stubs] /\ StubFnRefs' \in [Stubs -> SUBSET Functions]
         /\ FunctionBlock'[f] = Null /\ \A h \in Functions : h # f => FunctionBlock'[h] = FunctionBlock[h]
         /\ \A h \in Functions : GlobalAddress'[h] \in {GlobalAddress[h], Null}
         /\ \A h \in Functions : h # f => CurFnStubUses'[h] = CurFnStubUses[h]
         /\ \A s \in Stubs : StubToFunction'[s] # StubToFunction[s] => StubFnRefs[s] = {f}
<1>0. TypeOK
  BY DEF Base
<1>1. /\ FunctionBlock' = [FunctionBlock EXCEPT ![f] = Null]
      /\ CurFnStubUses' = [CurFnStubUses EXCEPT ![f] = {}]
      /\ StubFnRefs' = [s \in Stubs |-> StubFnRefs[s] \ (IF s \in CurFnStubUses[f] THEN {f} ELSE {})]
      /\ StubToFunction' = [s \in Stubs |-> IF s \in Dropped(f) THEN NoFunction ELSE StubToFunction[s]]
      /\ FunctionToStub' = [g \in Functions |-> IF g \in Orphans(f) THEN Null ELSE FunctionToStub[g]]
      /\ GlobalAddress' = [g \in Functions |-> IF g \in Orphans(f) THEN Null ELSE GlobalAddress[g]]
  BY DEF Deallocate
<1>2. /\ GlobalAddress' \in [Functions -> Address]
      /\ \A h \in Functions : GlobalAddress'[h] \in {GlobalAddress[h], Null}
  BY <1>0, <1>1, Addresses DEF TypeOK
<1>3. /\ FunctionToStub' \in [Functions -> Stubs \cup {Null}]
      /\ StubToFunction' \in [Stubs -> Functions \cup {NoFunction}]
  BY <1>0, <1>1 DEF TypeOK
<1>4. /\ FunctionBlock' \in [Functions -> Codes \cup {Null}]
      /\ FunctionBlock'[f] = Null /\ \A h \in Functions : h # f => FunctionBlock'[h] = FunctionBlock[h]
  BY <1>0, <1>1 DEF TypeOK
<1>5. /\ CurFnStubUses' \in [Functions -> SUBSET Stubs]
      /\ \A h \in Functions : h # f => CurFnStubUses'[h] = CurFnStubUses[h]
  BY <1>0, <1>1 DEF TypeOK
<1>6. StubFnRefs' \in [Stubs -> SUBSET Functions]
  <2>1. StubFnRefs \in [Stubs -> SUBSET Functions]
    BY <1>0 DEF TypeOK
  <2>. QED BY <1>1, <2>1
<1>7. \A s \in Stubs : StubToFunction'[s] # StubToFunction[s] => StubFnRefs[s] = {f}
  BY <1>1 DEF Dropped
<1>. QED BY <1>2, <1>3, <1>4, <1>5, <1>6, <1>7

LEMMA DroppingFiled ==
  ASSUME Base, NEW f \in Functions, NEW b \in Codes \cup {Null}, Deallocate(f, b), UNCHANGED stub
  PROVE  Filings'
<1>0. /\ TypeOK /\ Filings
  BY DEF Base
<1>1. /\ CurFnStubUses' = [CurFnStubUses EXCEPT ![f] = {}]
      /\ StubFnRefs' = [s \in Stubs |-> StubFnRefs[s] \ (IF s \in CurFnStubUses[f] THEN {f} ELSE {})]
      /\ StubToFunction' = [s \in Stubs |-> IF s \in Dropped(f) THEN NoFunction ELSE StubToFunction[s]]
      /\ FunctionToStub' = [g \in Functions |-> IF g \in Orphans(f) THEN Null ELSE FunctionToStub[g]]
  BY DEF Deallocate
<1>2. ASSUME NEW g \in Functions, FunctionToStub'[g] # Null
      PROVE  StubToFunction'[FunctionToStub'[g]] = g /\ stub'[FunctionToStub'[g]] # Unused
  <2>1. FunctionToStub'[g] = FunctionToStub[g] /\ g \notin Orphans(f)
    BY <1>1, <1>2
  <2>2. PICK s \in Stubs : s = FunctionToStub[g] /\ StubToFunction[s] = g /\ stub[s] # Unused
    BY <1>0, <1>2, <2>1 DEF TypeOK, Filings
  <2>3. s \notin Dropped(f)
    BY <2>1, <2>2 DEF Orphans
  <2>. QED BY <1>1, <2>1, <2>2, <2>3
<1>3. ASSUME NEW h \in Functions, NEW s \in Stubs
      PROVE  s \in CurFnStubUses'[h] <=> h \in StubFnRefs'[s]
  <2>1. /\ CurFnStubUses'[h] = IF h = f THEN {} ELSE CurFnStubUses[h]
        /\ StubFnRefs'[s] = StubFnRefs[s] \ (IF s \in CurFnStubUses[f] THEN {f} ELSE {})
    BY <1>0, <1>1 DEF TypeOK
  <2>2. /\ s \in CurFnStubUses[h] <=> h \in StubFnRefs[s]
        /\ s \in CurFnStubUses[f] <=> f \in StubFnRefs[s]
    BY <1>0 DEF Filings
  <2>. QED BY <2>1, <2>2
<1>4. ~DlsymStubs => \A h \in Functions : CurFnStubUses'[h] = {}
  BY <1>0, <1>1 DEF TypeOK, Filings
<1>. QED BY <1>2, <1>3, <1>4 DEF Filings

-----------------------------------------------------------------------------
(***************************************************************************)
(* What holds stays: the parts that a step does not disturb.               *)
(***************************************************************************)
LEMMA LocalsKept ==
  ASSUME LocalsRight, NEW t \in Threads, Moves(t), Local(lock', stub', t, th'[t]),
         \A u \in Threads : u # t => (lock' = u <=> lock = u),
         \A s \in Stubs : stub[s] # Unused => stub'[s] # Unused
  PROVE  LocalsRight'
<1>1. ASSUME NEW u \in Threads PROVE Local(lock', stub', u, th'[u])
  <2>1. CASE u = t
    BY <2>1
  <2>2. CASE u # t
    <3>1. th'[u] = th[u] /\ Local(lock, stub, u, th[u])
      BY <2>2 DEF Moves, LocalsRight
    <3>2. Built(stub', th[u].at) /\ Built(stub', th[u].res)
      BY <3>1 DEF Local, Built
    <3>. QED BY <2>2, <3>1, <3>2 DEF Local
  <2>. QED BY <2>1, <2>2
<1>. QED BY <1>1 DEF LocalsRight

\* Whoever holds the lock is the only one that compiles.
LEMMA OneCompiles ==
  ASSUME LocalsRight, NEW t \in Threads, lock \in {t, NoThread}
  PROVE  \A u \in Threads : u # t => th[u].pc \notin Locks
BY JITResolverAssumption DEF LocalsRight, Local

LEMMA HasLock ==
  ASSUME LocalsRight, NEW t \in Threads, th[t].pc \in Locks
  PROVE  lock = t
BY DEF LocalsRight, Local

LEMMA NotEmitting ==
  ASSUME LocalsRight, BodiesRight, NEW t \in Threads, lock \in {t, NoThread}, th[t].pc # "emit"
  PROVE  \A c \in Codes : code[c].state # "emitting"
BY OneCompiles DEF BodiesRight, Locks, Holding

LEMMA BodiesKept ==
  ASSUME BodiesRight, UNCHANGED <<code, FunctionBlock>>,
         \/ \A c \in Codes : code[c].state # "emitting"
         \/ UNCHANGED job /\ \A u \in Threads : th[u].pc = "emit" => th'[u].pc = "emit"
  PROVE  BodiesRight'
<1>1. /\ \A c \in Codes : code[c].state = "none" => \A g \in Functions : code[c].refs[g] = Null
      /\ \A f \in Functions : FunctionBlock[f] # Null =>
           code[FunctionBlock[f]].fn = f /\ code[FunctionBlock[f]].state \in {"done", "freed"}
  BY DEF BodiesRight
<1>2. ASSUME NEW c \in Codes, code'[c].state = "emitting"
      PROVE  c = job'.body /\ code'[c].fn = job'.fn /\ \E u \in Threads : th'[u].pc = "emit"
  BY <1>2 DEF BodiesRight
<1>. QED BY <1>1, <1>2 DEF BodiesRight

LEMMA BuiltKept ==
  ASSUME AllBuilt, UNCHANGED code, \A a : Built(stub, a) => Built(stub', a),
         \A f \in Functions : Built(stub', GlobalAddress'[f]),
         \A s \in Stubs : Built(stub', stub'[s])
  PROVE  AllBuilt'
BY DEF AllBuilt

\* The compilation goes on for whoever does not move.
LEMMA CompilationKept ==
  ASSUME CompilationRight, NEW t \in Threads, Moves(t), UNCHANGED <<code, job>>,
         th'[t].pc \in Holding => th[t].pc \in Holding, th'[t].pc = "emit" => th[t].pc = "emit"
  PROVE  CompilationRight'
<1>1. ASSUME NEW u \in Threads
      PROVE  /\ th'[u].pc \in Holding => job'.fn \in Functions
             /\ th'[u].pc = "emit" => job'.body \in Codes /\ code'[job'.body].state = "emitting"
  BY DEF CompilationRight, Moves
<1>. QED BY <1>1 DEF CompilationRight

LEMMA PassesBase ==
  ASSUME Base, NEW t \in Threads, Passes(t)
  PROVE  Base'
<1>1. TypeOK /\ LocalsRight /\ CompilationRight /\ BodiesRight /\ AllBuilt /\ Filings
  BY DEF Base
<1>2. UNCHANGED <<stub, code, FunctionBlock, CurFnStubUses, StubFnRefs>>
  BY DEF Passes, memory, uses
<1>3. TypeOK'
  BY <1>1, <1>2 DEF TypeOK, Passes
<1>4. LocalsRight'
  BY <1>1, <1>2, LocalsKept DEF Passes
<1>5. CompilationRight'
  BY <1>1, <1>2, CompilationKept DEF Passes, Locks, Holding
<1>6. BodiesRight'
  <2>1. UNCHANGED job /\ \A u \in Threads : th[u].pc = "emit" => th'[u].pc = "emit"
    BY DEF Passes, Moves, Locks, Holding
  <2>. QED BY <1>1, <1>2, <2>1, BodiesKept
<1>7. AllBuilt'
  <2>1. \A f \in Functions : Built(stub, GlobalAddress'[f])
    BY <1>1, NullBuilt DEF Passes, AllBuilt
  <2>. QED BY <1>1, <1>2, <2>1 DEF AllBuilt
<1>8. Filings'
  <2>1. /\ StubToFunction' = StubToFunction
        /\ \A g \in Functions : FunctionToStub'[g] # Null => FunctionToStub'[g] = FunctionToStub[g]
    BY DEF Passes
  <2>. QED BY <1>1, <1>2, <2>1 DEF Filings
<1>. QED BY <1>3, <1>4, <1>5, <1>6, <1>7, <1>8 DEF Base

LEMMA BeginsBase ==
  ASSUME Base, NEW t \in Threads, Begins(t)
  PROVE  Base'
<1>1. TypeOK /\ LocalsRight /\ CompilationRight /\ BodiesRight /\ AllBuilt /\ Filings
  BY DEF Base
<1>2. UNCHANGED <<LazyDisabled, GlobalAddress, FunctionToStub, StubToFunction, PendingFunctions,
                  stub, code, FunctionBlock, CurFnStubUses, StubFnRefs>>
  BY DEF Begins, maps, memory, uses
<1>3. th'[t].want \in Functions
  BY DEF Begins, Local, Holding
<1>4. TypeOK'
  <2>1. job' \in [fn : Functions \cup {NoFunction}, body : Codes \cup {Null}, todo : Seq(Functions),
                  queued : BOOLEAN, tries : Nat]
    BY <1>3, BeginFields DEF Begins
  <2>2. lock' \in Threads /\ th' \in [Threads -> ThreadState]
    BY DEF Begins
  <2>. QED BY <1>1, <1>2, <2>1, <2>2 DEF TypeOK
<1>5. LocalsRight'
  <2>1. \A u \in Threads : u # t => (lock' = u <=> lock = u)
    BY JITResolverAssumption DEF Begins
  <2>. QED BY <1>1, <1>2, <2>1, LocalsKept DEF Begins
<1>6. CompilationRight'
  <2>1. \A u \in Threads : u # t => th'[u].pc \notin Holding
    BY <1>1, OneCompiles DEF Begins, Moves, Locks
  <2>2. job'.fn \in Functions
    BY <1>3, BeginFields DEF Begins
  <2>3. th'[t].pc = "start"
    BY DEF Begins
  <2>. QED BY <2>1, <2>2, <2>3 DEF CompilationRight, Holding
<1>7. BodiesRight'
  BY <1>1, <1>2, NotEmitting, BodiesKept DEF Begins, Locks, Holding
<1>8. AllBuilt' /\ Filings'
  BY <1>1, <1>2 DEF AllBuilt, Filings
<1>. QED BY <1>4, <1>5, <1>6, <1>7, <1>8 DEF Base

LEMMA RewritesBase ==
  ASSUME Base, NEW t \in Threads, Rewrites(t)
  PROVE  Base'
<1>1. TypeOK /\ LocalsRight /\ CompilationRight /\ BodiesRight /\ AllBuilt /\ Filings
  BY DEF Base
<1>2. UNCHANGED <<lock, job, LazyDisabled, GlobalAddress, FunctionToStub, StubToFunction, PendingFunctions,
                  code, FunctionBlock, CurFnStubUses, StubFnRefs>>
  BY DEF Rewrites, maps, uses
<1>3. /\ \A a : Built(stub, a) <=> Built(stub', a)
      /\ \A s \in Stubs : stub[s] # Unused <=> stub'[s] # Unused
  BY DEF Rewrites, Built
<1>4. TypeOK'
  BY <1>1, <1>2 DEF TypeOK, Rewrites
<1>5. LocalsRight'
  BY <1>1, <1>2, <1>3, LocalsKept DEF Rewrites
<1>6. CompilationRight'
  BY <1>1, <1>2, CompilationKept DEF Rewrites, Holding
<1>7. BodiesRight'
  <2>1. \A u \in Threads : th[u].pc = "emit" => th'[u].pc = "emit"
    BY DEF Rewrites, Moves
  <2>. QED BY <1>1, <1>2, <2>1, BodiesKept
<1>8. AllBuilt'
  <2>1. \A f \in Functions : Built(stub', GlobalAddress'[f])
    BY <1>1, <1>2, <1>3 DEF AllBuilt
  <2>2. \A s \in Stubs : Built(stub', stub'[s])
    BY <1>1, <1>3 DEF AllBuilt, Rewrites
  <2>. QED BY <1>1, <1>2, <1>3, <2>1, <2>2, BuiltKept
<1>9. Filings'
  <2>1. \A g \in Functions : FunctionToStub[g] # Null => FunctionToStub[g] \in Stubs
    BY <1>1 DEF TypeOK
  <2>. QED BY <1>1, <1>2, <1>3, <2>1 DEF Filings
<1>. QED BY <1>4, <1>5, <1>6, <1>7, <1>8, <1>9 DEF Base

-----------------------------------------------------------------------------
(***************************************************************************)
(* The steps of the compilation, and those that free code or make a stub.  *)
(***************************************************************************)
LEMMA HolderLocal ==
  ASSUME Base, NEW t \in Threads, th[t].pc \in Holding, NEW pc \in Holding, NEW res,
         Goes(t, pc, th[t].at, th[t].callee, th[t].want, th[t].after, res),
         th[t].after = "relink" => pc \in {"start", "emit"},
         Built(stub', res), lock' = lock, \A a : Built(stub, a) => Built(stub', a)
  PROVE  Moves(t) /\ th' \in [Threads -> ThreadState] /\ Local(lock', stub', t, th'[t])
<1>1. Local(lock, stub, t, th[t]) /\ lock = t
  BY HasLock DEF Base, LocalsRight, Locks
<1>2. /\ Moves(t) /\ th' \in [Threads -> ThreadState] /\ th'[t] \in ThreadState
      /\ th'[t].pc = pc /\ th'[t].at = th[t].at /\ th'[t].want = th[t].want
      /\ th'[t].after = th[t].after /\ th'[t].res = res
  BY DEF Goes, Moves
<1>3. th'[t].want \in Functions /\ Built(stub', th'[t].at) /\ pc # "free" /\ pc # "stub" /\ pc # "body"
  BY <1>1, <1>2 DEF Local, Holding
<1>. QED BY <1>1, <1>2, <1>3 DEF Local, Locks

\* The body c of f is begun.
BeginsBody(f, c) ==
  code[c].state = "none" /\ code' = [code EXCEPT ![c].fn = f, ![c].state = "emitting"]

LEMMA StartFields ==
  ASSUME TypeOK, NEW f \in Functions, NEW c \in Codes, BeginsBody(f, c)
  PROVE  /\ code'[c].fn = f /\ code'[c].state = "emitting" /\ code'[c].refs = code[c].refs
         /\ \A d \in Codes : d # c => code'[d] = code[d]
         /\ code' \in [Codes -> [fn : Functions \cup {NoFunction}, state : {"none", "emitting", "done", "freed"},
                                 refs : [Functions -> Address]]]
<1>. DEFINE Code == [fn : Functions \cup {NoFunction}, state : {"none", "emitting", "done", "freed"},
                     refs : [Functions -> Address]]
            r == [code[c] EXCEPT !.fn = f, !.state = "emitting"]
<1>1. code \in [Codes -> Code] /\ code[c] \in Code
  BY DEF TypeOK
<1>2. r \in Code /\ r.fn = f /\ r.state = "emitting" /\ r.refs = code[c].refs
  BY <1>1
<1>3. code' = [code EXCEPT ![c] = r]
  BY <1>1 DEF BeginsBody
<1>. HIDE DEF r, Code
<1>. QED BY <1>1, <1>2, <1>3 DEF Code

LEMMA StartFunctionDoes ==
  ASSUME Base, NEW t \in Threads, StartFunction(t), UNCHANGED LazyDisabled
  PROVE  /\ th[t].pc = "start" /\ job.fn \in Functions /\ lock = t
         /\ Goes(t, "emit", th[t].at, th[t].callee, th[t].want, th[t].after, th[t].res)
         /\ \E c \in Codes :
              /\ code[c].state = "none" /\ BeginsBody(job.fn, c)
              /\ GlobalAddress' = [GlobalAddress EXCEPT ![job.fn] = c]
              /\ job'.fn = job.fn /\ job'.body = c
              /\ job' \in [fn : Functions \cup {NoFunction}, body : Codes \cup {Null}, todo : Seq(Functions),
                           queued : BOOLEAN, tries : Nat]
         /\ UNCHANGED <<lock, LazyDisabled, FunctionToStub, StubToFunction, PendingFunctions, stub, FunctionBlock,
                        uses>>
<1>1. /\ th[t].pc = "start" /\ Goto(t, "emit") /\ TypeOK
      /\ UNCHANGED <<lock, LazyDisabled, FunctionToStub, StubToFunction, PendingFunctions, stub, FunctionBlock,
                     uses>>
  BY DEF StartFunction, At, Base
<1>2. job.fn \in Functions /\ lock = t
  BY <1>1, HasLock DEF Base, CompilationRight, Locks, Holding
<1>3. Goes(t, "emit", th[t].at, th[t].callee, th[t].want, th[t].after, th[t].res)
  BY <1>1, GotoGoes DEF PCs
<1>4. PICK c \in Codes :
        /\ code[c].state = "none" /\ BeginsBody(job.fn, c)
        /\ GlobalAddress' = [GlobalAddress EXCEPT ![job.fn] = c]
        /\ job' = [job EXCEPT !.body = c, !.todo = Calls[job.fn]]
  BY DEF StartFunction, FreshCodes, BeginsBody
<1>5. /\ job'.fn = job.fn /\ job'.body = c
      /\ job' \in [fn : Functions \cup {NoFunction}, body : Codes \cup {Null}, todo : Seq(Functions),
                   queued : BOOLEAN, tries : Nat]
  <2>1. Calls[job.fn] \in Seq(Functions)
    BY <1>2, JITResolverAssumption
  <2>. QED BY <1>1, <1>4, <2>1 DEF TypeOK
<1>. QED BY <1>1, <1>2, <1>3, <1>4, <1>5

LEMMA StartFunctionBase ==
  ASSUME Base, NEW t \in Threads, StartFunction(t), UNCHANGED LazyDisabled
  PROVE  Base'
<1>1. /\ TypeOK /\ LocalsRight /\ CompilationRight /\ BodiesRight /\ AllBuilt /\ Filings
      /\ th[t].pc = "start" /\ job.fn \in Functions /\ lock = t
      /\ Goes(t, "emit", th[t].at, th[t].callee, th[t].want, th[t].after, th[t].res)
      /\ UNCHANGED <<lock, LazyDisabled, FunctionToStub, StubToFunction, PendingFunctions, stub, FunctionBlock,
                     CurFnStubUses, StubFnRefs>>
  BY StartFunctionDoes DEF Base, uses
<1>2. PICK c \in Codes :
        /\ code[c].state = "none" /\ BeginsBody(job.fn, c)
        /\ GlobalAddress' = [GlobalAddress EXCEPT ![job.fn] = c]
        /\ job'.fn = job.fn /\ job'.body = c
        /\ job' \in [fn : Functions \cup {NoFunction}, body : Codes \cup {Null}, todo : Seq(Functions),
                     queued : BOOLEAN, tries : Nat]
  BY StartFunctionDoes
<1>3. /\ code'[c].fn = job.fn /\ code'[c].state = "emitting" /\ code'[c].refs = code[c].refs
      /\ \A d \in Codes : d # c => code'[d] = code[d]
      /\ code' \in [Codes -> [fn : Functions \cup {NoFunction}, state : {"none", "emitting", "done", "freed"},
                              refs : [Functions -> Address]]]
  <2>1. TypeOK /\ job.fn \in Functions
    BY <1>1
  <2>. QED BY <1>2, <2>1, StartFields
<1>4. Moves(t) /\ th' \in [Threads -> ThreadState] /\ Local(lock', stub', t, th'[t]) /\ th'[t].pc = "emit"
  <2>1. Built(stub, th[t].res)
    BY <1>1 DEF LocalsRight, Local
  <2>. QED BY <1>1, <2>1, HolderLocal DEF Holding, Goes
<1>5. TypeOK'
  <2>1. GlobalAddress' \in [Functions -> Address]
    BY <1>1, <1>2, Addresses DEF TypeOK
  <2>. QED BY <1>1, <1>2, <1>3, <1>4, <2>1 DEF TypeOK
<1>6. LocalsRight'
  BY <1>1, <1>4, LocalsKept
<1>7. CompilationRight'
  <2>1. \A u \in Threads : u # t => th'[u].pc \notin Holding
    BY <1>1, <1>4, OneCompiles DEF Moves, Locks
  <2>. QED BY <1>1, <1>2, <1>3, <1>4, <2>1 DEF CompilationRight, Holding
<1>8. BodiesRight'
  <2>1. \A d \in Codes : code[d].state # "emitting"
    BY <1>1, NotEmitting
  <2>2. \A d \in Codes : code'[d].state = "emitting" => d = c
    BY <1>3, <2>1
  <2>3. \A d \in Codes : code'[d].state = "none" => \A g \in Functions : code'[d].refs[g] = Null
    BY <1>1, <1>3 DEF BodiesRight
  <2>4. ASSUME NEW f \in Functions, NEW b, b = FunctionBlock'[f], b # Null
        PROVE  code'[b].fn = f /\ code'[b].state \in {"done", "freed"}
    <3>1. b \in Codes /\ code[b].fn = f /\ code[b].state \in {"done", "freed"}
      BY <1>1, <2>4 DEF BodiesRight, TypeOK
    <3>. QED BY <1>2, <1>3, <3>1
  <2>. QED BY <1>2, <1>3, <1>4, <2>2, <2>3, <2>4 DEF BodiesRight
<1>9. AllBuilt'
  <2>1. \A f \in Functions : Built(stub, GlobalAddress'[f])
    BY <1>1, <1>2, Addresses DEF AllBuilt, Built, TypeOK
  <2>2. \A d \in Codes, g \in Functions : Built(stub, code'[d].refs[g])
    BY <1>1, <1>3 DEF AllBuilt
  <2>. QED BY <1>1, <2>1, <2>2 DEF AllBuilt
<1>10. Filings'
  BY <1>1 DEF Filings
<1>. QED BY <1>5, <1>6, <1>7, <1>8, <1>9, <1>10 DEF Base

\* A relocation: the address a that is written is built by now.
LEMMA ResolveBase ==
  ASSUME Base, NEW t \in Threads, th[t].pc = "emit", job.todo # <<>>,
         NEW g \in Functions, NEW a \in Address, Resolve(g, a), Built(stub', a),
         UNCHANGED <<th, lock, LazyDisabled, FunctionBlock>>,
         GlobalAddress' \in [Functions -> Address], FunctionToStub' \in [Functions -> Stubs \cup {Null}],
         StubToFunction' \in [Stubs -> Functions \cup {NoFunction}], PendingFunctions' \in Seq(Functions),
         stub' \in [Stubs -> Address \cup {Resolver, Torn, Unused}],
         CurFnStubUses' \in [Functions -> SUBSET Stubs], StubFnRefs' \in [Stubs -> SUBSET Functions],
         \A x : Built(stub, x) => Built(stub', x), \A f \in Functions : Built(stub', GlobalAddress'[f]),
         \A r \in Stubs : Built(stub', stub'[r]), Filings'
  PROVE  Base'
<1>1. /\ TypeOK /\ LocalsRight /\ CompilationRight /\ BodiesRight /\ AllBuilt
      /\ job.body \in Codes /\ code[job.body].state = "emitting"
  BY DEF Base, CompilationRight
<1>2. /\ job'.fn = job.fn /\ job'.body = job.body
      /\ job' \in [fn : Functions \cup {NoFunction}, body : Codes \cup {Null}, todo : Seq(Functions),
                   queued : BOOLEAN, tries : Nat]
      /\ \A d \in Codes : /\ d # job.body => code'[d] = code[d]
                          /\ code'[d].fn = code[d].fn /\ code'[d].state = code[d].state
      /\ code'[job.body].refs[g] = a
      /\ \A h \in Functions : h # g => code'[job.body].refs[h] = code[job.body].refs[h]
      /\ code' \in [Codes -> [fn : Functions \cup {NoFunction}, state : {"none", "emitting", "done", "freed"},
                              refs : [Functions -> Address]]]
  BY <1>1, ResolveFields
<1>3. TypeOK'
  BY <1>1, <1>2 DEF TypeOK
<1>4. LocalsRight'
  <2>1. ASSUME NEW u \in Threads PROVE Local(lock, stub', u, th[u])
    BY <1>1 DEF LocalsRight, Local
  <2>. QED BY <2>1 DEF LocalsRight
<1>5. CompilationRight'
  BY <1>1, <1>2 DEF CompilationRight
<1>6. BodiesRight'
  <2>1. \A d \in Codes : code'[d].state = "emitting" =>
          d = job'.body /\ code'[d].fn = job'.fn /\ \E u \in Threads : th'[u].pc = "emit"
    BY <1>1, <1>2 DEF BodiesRight
  <2>2. ASSUME NEW d \in Codes, code'[d].state = "none", NEW h \in Functions PROVE code'[d].refs[h] = Null
    <3>1. d # job.body
      BY <1>1, <1>2, <2>2
    <3>2. code'[d] = code[d]
      BY <1>2, <3>1
    <3>. QED BY <1>1, <2>2, <3>2 DEF BodiesRight
  <2>3. ASSUME NEW f \in Functions, FunctionBlock'[f] # Null
        PROVE  code'[FunctionBlock'[f]].fn = f /\ code'[FunctionBlock'[f]].state \in {"done", "freed"}
    BY <1>1, <1>2, <2>3 DEF BodiesRight, TypeOK
  <2>. QED BY <2>1, <2>2, <2>3 DEF BodiesRight
<1>7. AllBuilt'
  <2>1. ASSUME NEW d \in Codes, NEW h \in Functions PROVE Built(stub', code'[d].refs[h])
    <3>1. code'[d].refs[h] \in {a, code[d].refs[h]}
      BY <1>2
    <3>. QED BY <1>1, <3>1 DEF AllBuilt
  <2>. QED BY <2>1 DEF AllBuilt
<1>. QED BY <1>3, <1>4, <1>5, <1>6, <1>7 DEF Base

LEMMA RelocateBase ==
  ASSUME Base, NEW t \in Threads, Relocate(t), UNCHANGED LazyDisabled
  PROVE  Base'
<1>. DEFINE g == Head(job.todo)
<1>1. /\ TypeOK /\ AllBuilt /\ Filings /\ th[t].pc = "emit" /\ job.todo # <<>>
      /\ UNCHANGED <<th, lock, LazyDisabled, FunctionBlock>>
  BY DEF Base, Relocate, At
<1>2. g \in Functions /\ job.fn \in Functions
  <2>1. job.todo \in Seq(Functions)
    BY <1>1 DEF TypeOK
  <2>. QED BY <1>1, <2>1 DEF Base, CompilationRight, Holding
<1>3. CASE Resolve(g, GlobalAddress[g]) /\ UNCHANGED <<maps, stub, uses>>
  <2>1. UNCHANGED <<GlobalAddress, FunctionToStub, StubToFunction, PendingFunctions, stub, CurFnStubUses,
                    StubFnRefs>>
    BY <1>3 DEF maps, uses
  <2>2. PICK a \in Address : a = GlobalAddress[g]
    BY <1>1, <1>2 DEF TypeOK
  <2>3. Built(stub, a) /\ Resolve(g, a)
    BY <1>1, <1>2, <1>3, <2>2 DEF AllBuilt
  <2>4. Filings'
    BY <1>1, <2>1 DEF Filings
  <2>. HIDE DEF g
  <2>. QED BY <1>1, <1>2, <2>1, <2>3, <2>4, ResolveBase DEF TypeOK, AllBuilt
<1>4. CASE /\ FunctionToStub[g] # Null /\ Resolve(g, FunctionToStub[g])
           /\ AddStub(job.fn, FunctionToStub[g]) /\ UNCHANGED <<maps, stub>>
  <2>1. UNCHANGED <<GlobalAddress, FunctionToStub, StubToFunction, PendingFunctions, stub>>
    BY <1>4 DEF maps
  <2>2. PICK s \in Stubs : s = FunctionToStub[g]
    BY <1>1, <1>2, <1>4 DEF TypeOK
  <2>3. Built(stub, s) /\ s \in Address /\ Resolve(g, s) /\ AddStub(job.fn, s)
    BY <1>1, <1>2, <1>4, <2>2, Addresses DEF Filings, Built
  <2>4. /\ CurFnStubUses' \in [Functions -> SUBSET Stubs] /\ StubFnRefs' \in [Stubs -> SUBSET Functions]
        /\ \A h \in Functions, r \in Stubs : r \in CurFnStubUses'[h] <=> h \in StubFnRefs'[r]
        /\ ~DlsymStubs => \A h \in Functions : CurFnStubUses'[h] = {}
    BY <1>2, <2>3, StubAdded
  <2>5. Filings'
    BY <1>1, <2>1, <2>4 DEF Filings
  <2>. HIDE DEF g
  <2>. QED BY <1>1, <1>2, <2>1, <2>3, <2>4, <2>5, ResolveBase DEF TypeOK, AllBuilt
<1>5. CASE \E s \in FreshStubs : Resolve(g, s) /\ EmitStub(g, s) /\ AddStub(job.fn, s)
  <2>1. PICK s \in FreshStubs : Resolve(g, s) /\ EmitStub(g, s) /\ AddStub(job.fn, s)
    BY <1>5
  <2>2. /\ GlobalAddress' \in [Functions -> Address] /\ PendingFunctions' \in Seq(Functions)
        /\ FunctionToStub' \in [Functions -> Stubs \cup {Null}]
        /\ StubToFunction' \in [Stubs -> Functions \cup {NoFunction}]
        /\ stub' \in [Stubs -> Address \cup {Resolver, Torn, Unused}]
        /\ s \in Stubs /\ stub'[s] # Unused
    BY <1>2, <2>1, StubEmitted
  <2>3. /\ \A h \in Functions : FunctionToStub'[h] # Null =>
             StubToFunction'[FunctionToStub'[h]] = h /\ stub'[FunctionToStub'[h]] # Unused
        /\ \A a : Built(stub, a) => Built(stub', a)
        /\ \A f \in Functions : Built(stub', GlobalAddress'[f])
        /\ \A r \in Stubs : Built(stub', stub'[r])
    BY <1>2, <2>1, StubFiled
  <2>4. /\ CurFnStubUses' \in [Functions -> SUBSET Stubs] /\ StubFnRefs' \in [Stubs -> SUBSET Functions]
        /\ \A h \in Functions, r \in Stubs : r \in CurFnStubUses'[h] <=> h \in StubFnRefs'[r]
        /\ ~DlsymStubs => \A h \in Functions : CurFnStubUses'[h] = {}
    BY <1>2, <2>1, <2>2, StubAdded
  <2>5. Filings'
    BY <2>3, <2>4 DEF Filings
  <2>6. s \in Address /\ Built(stub', s)
    BY <2>2, Addresses DEF Built
  <2>. HIDE DEF g
  <2>. QED BY <1>1, <1>2, <2>1, <2>2, <2>3, <2>4, <2>5, <2>6, ResolveBase
<1>. QED BY <1>3, <1>4, <1>5 DEF Relocate

\* A body is freed, or there is none.
LEMMA FreeFields ==
  ASSUME TypeOK, NEW b \in Codes \cup {Null}, NEW f \in Functions, Deallocate(f, b)
  PROVE  /\ \A d \in Codes : /\ code'[d].fn = code[d].fn /\ code'[d].refs = code[d].refs
                             /\ code'[d].state = IF d = b THEN "freed" ELSE code[d].state
         /\ code' \in [Codes -> [fn : Functions \cup {NoFunction}, state : {"none", "emitting", "done", "freed"},
                                 refs : [Functions -> Address]]]
<1>1. CASE b = Null
  <2>1. code' = code /\ b \notin Codes
    BY <1>1, Addresses DEF Deallocate
  <2>. QED BY <2>1 DEF TypeOK
<1>2. CASE b \in Codes
  <2>1. code' = [code EXCEPT ![b].state = "freed"]
    BY <1>2, Addresses DEF Deallocate
  <2>. QED BY <1>2, <2>1, StateFields
<1>. QED BY <1>1, <1>2

LEMMA FreedBase ==
  ASSUME Base, NEW f \in Functions, NEW b \in Codes \cup {Null}, Deallocate(f, b), UNCHANGED stub
  PROVE  AllBuilt' /\ Filings'
<1>1. TypeOK /\ AllBuilt
  BY DEF Base
<1>2. \A g \in Functions : Built(stub, GlobalAddress'[g])
  BY <1>1, Dropping, NullBuilt DEF AllBuilt
<1>3. \A c \in Codes, g \in Functions : Built(stub, code'[c].refs[g])
  BY <1>1, FreeFields DEF AllBuilt
<1>. QED BY <1>1, <1>2, <1>3, DroppingFiled DEF AllBuilt

LEMMA DeallocateDoes ==
  ASSUME Base, NEW t \in Threads, DeallocateMem(t), UNCHANGED LazyDisabled
  PROVE  /\ th[t].pc = "free" /\ th[t].want \in Functions /\ "free" \in ClientOps
         /\ FunctionBlock[th[t].want] \in Codes \cup {Null}
         /\ Deallocate(th[t].want, FunctionBlock[th[t].want])
         /\ Goes(t, "idle", th[t].at, th[t].callee, th[t].want, th[t].after, th[t].res)
         /\ th[t].after \in {"call", "erase"}
         /\ UNCHANGED <<lock, job, LazyDisabled, stub, PendingFunctions>>
<1>1. /\ th[t].pc = "free" /\ Goto(t, "idle") /\ TypeOK
      /\ Deallocate(th[t].want, FunctionBlock[th[t].want])
      /\ UNCHANGED <<lock, job, LazyDisabled, stub, PendingFunctions>>
  BY DEF DeallocateMem, At, Base, compiler
<1>2. th[t].want \in Functions /\ "free" \in ClientOps /\ th[t].after \in {"call", "erase"}
  BY <1>1 DEF Base, LocalsRight, Local, Holding, ThreadState
<1>3. Goes(t, "idle", th[t].at, th[t].callee, th[t].want, th[t].after, th[t].res)
  BY <1>1, GotoGoes DEF PCs
<1>. QED BY <1>1, <1>2, <1>3 DEF TypeOK

LEMMA DeallocateBase ==
  ASSUME Base, NEW t \in Threads, DeallocateMem(t), UNCHANGED LazyDisabled
  PROVE  Base'
<1>1. TypeOK /\ LocalsRight /\ CompilationRight /\ BodiesRight
  BY DEF Base
<1>2. PICK f \in Functions, b \in Codes \cup {Null} :
        f = th[t].want /\ b = FunctionBlock[f] /\ Deallocate(f, b)
  BY DeallocateDoes
<1>3. /\ th[t].pc = "free" /\ Goes(t, "idle", th[t].at, th[t].callee, th[t].want, th[t].after, th[t].res)
      /\ th[t].after \in {"call", "erase"} /\ UNCHANGED <<lock, job, LazyDisabled, stub, PendingFunctions>>
  BY DeallocateDoes
<1>4. /\ Moves(t) /\ th' \in [Threads -> ThreadState] /\ th'[t].pc = "idle"
      /\ Local(lock', stub', t, th'[t])
  <2>1. Local(lock, stub, t, th[t])
    BY <1>1 DEF LocalsRight
  <2>2. /\ Moves(t) /\ th' \in [Threads -> ThreadState] /\ th'[t] \in ThreadState /\ th'[t].pc = "idle"
        /\ th'[t].at = th[t].at /\ th'[t].after = th[t].after /\ th'[t].res = th[t].res
    BY <1>3 DEF Goes, Moves
  <2>. QED BY <1>3, <2>1, <2>2 DEF Local, Locks, Holding
<1>5. /\ \A d \in Codes : /\ code'[d].fn = code[d].fn /\ code'[d].refs = code[d].refs
                          /\ code'[d].state = IF d = b THEN "freed" ELSE code[d].state
      /\ code' \in [Codes -> [fn : Functions \cup {NoFunction}, state : {"none", "emitting", "done", "freed"},
                              refs : [Functions -> Address]]]
  BY <1>1, <1>2, FreeFields
<1>6. /\ b \in Codes => code[b].state \in {"done", "freed"}
      /\ FunctionBlock'[f] = Null /\ \A h \in Functions : h # f => FunctionBlock'[h] = FunctionBlock[h]
  BY <1>1, <1>2, Dropping, Addresses DEF BodiesRight
<1>7. TypeOK'
  BY <1>1, <1>2, <1>3, <1>4, <1>5, Dropping DEF TypeOK
<1>8. LocalsRight'
  BY <1>1, <1>3, <1>4, LocalsKept
<1>9. CompilationRight'
  <2>1. ASSUME NEW u \in Threads
        PROVE  /\ th'[u].pc \in Holding => job'.fn \in Functions
               /\ th'[u].pc = "emit" => job'.body \in Codes /\ code'[job'.body].state = "emitting"
    <3>1. th'[u].pc \in Holding => u # t /\ th[u].pc = th'[u].pc
      BY <1>4 DEF Moves, Holding
    <3>2. th'[u].pc = "emit" => job.body \in Codes /\ code[job.body].state = "emitting"
      BY <1>1, <3>1 DEF CompilationRight, Holding
    <3>. QED BY <1>1, <1>3, <1>5, <1>6, <3>1, <3>2 DEF CompilationRight
  <2>. QED BY <2>1 DEF CompilationRight
<1>10. BodiesRight'
  <2>1. ASSUME NEW d \in Codes, code'[d].state = "emitting"
        PROVE  d = job'.body /\ code'[d].fn = job'.fn /\ \E u \in Threads : th'[u].pc = "emit"
    <3>1. code[d].state = "emitting"
      BY <1>5, <2>1
    <3>2. \E u \in Threads : u # t /\ th[u].pc = "emit"
      BY <1>1, <1>3, <3>1 DEF BodiesRight
    <3>3. \E u \in Threads : th'[u].pc = "emit"
      BY <1>4, <3>2 DEF Moves
    <3>. QED BY <1>1, <1>3, <1>5, <3>1, <3>3 DEF BodiesRight
  <2>2. \A d \in Codes : code'[d].state = "none" => \A h \in Functions : code'[d].refs[h] = Null
    BY <1>1, <1>5 DEF BodiesRight
  <2>3. ASSUME NEW h \in Functions, FunctionBlock'[h] # Null
        PROVE  code'[FunctionBlock'[h]].fn = h /\ code'[FunctionBlock'[h]].state \in {"done", "freed"}
    <3>1. FunctionBlock'[h] = FunctionBlock[h] /\ FunctionBlock[h] \in Codes
      BY <1>1, <1>6, <2>3 DEF TypeOK
    <3>. QED BY <1>1, <1>5, <2>3, <3>1 DEF BodiesRight
  <2>. QED BY <2>1, <2>2, <2>3 DEF BodiesRight
<1>11. AllBuilt' /\ Filings'
  BY <1>2, <1>3, FreedBase
<1>. QED BY <1>7, <1>8, <1>9, <1>10, <1>11 DEF Base

\* What did not fit is freed.
LEMMA RetryDoes ==
  ASSUME Base, NEW t \in Threads, RetryWithMoreMemory(t), UNCHANGED LazyDisabled
  PROVE  /\ th[t].pc = "emit" /\ lock = t /\ job.fn \in Functions /\ job.body \in Codes
         /\ code[job.body].state = "emitting" /\ code[job.body].fn = job.fn
         /\ Deallocate(job.fn, job.body)
         /\ Goes(t, "start", th[t].at, th[t].callee, th[t].want, th[t].after, th[t].res)
         /\ job'.fn = job.fn
         /\ job' \in [fn : Functions \cup {NoFunction}, body : Codes \cup {Null}, todo : Seq(Functions),
                      queued : BOOLEAN, tries : Nat]
         /\ UNCHANGED <<lock, LazyDisabled, stub, PendingFunctions>>
<1>1. /\ th[t].pc = "emit" /\ Goto(t, "start") /\ TypeOK
      /\ Deallocate(job.fn, job.body) /\ job' = [job EXCEPT !.tries = @ + 1]
      /\ UNCHANGED <<lock, LazyDisabled, stub, PendingFunctions>>
  BY DEF RetryWithMoreMemory, At, Base
<1>2. /\ lock = t /\ job.fn \in Functions /\ job.body \in Codes
      /\ code[job.body].state = "emitting" /\ code[job.body].fn = job.fn
  BY <1>1, HasLock DEF Base, CompilationRight, BodiesRight, Locks, Holding
<1>3. Goes(t, "start", th[t].at, th[t].callee, th[t].want, th[t].after, th[t].res)
  BY <1>1, GotoGoes DEF PCs
<1>4. /\ job'.fn = job.fn
      /\ job' \in [fn : Functions \cup {NoFunction}, body : Codes \cup {Null}, todo : Seq(Functions),
                   queued : BOOLEAN, tries : Nat]
  <2>1. job \in [fn : Functions \cup {NoFunction}, body : Codes \cup {Null}, todo : Seq(Functions),
                queued : BOOLEAN, tries : Nat]
    BY <1>1 DEF TypeOK
  <2>2. job.tries + 1 \in Nat
    BY <2>1
  <2>. QED BY <1>1, <2>1, <2>2
<1>. QED BY <1>1, <1>2, <1>3, <1>4

LEMMA RetryBase ==
  ASSUME Base, NEW t \in Threads, RetryWithMoreMemory(t), UNCHANGED LazyDisabled
  PROVE  Base'
<1>1. TypeOK /\ LocalsRight /\ CompilationRight /\ BodiesRight
  BY DEF Base
<1>2. PICK f \in Functions, b \in Codes :
        /\ f = job.fn /\ b = job.body /\ Deallocate(f, b) /\ code[b].state = "emitting"
  BY RetryDoes
<1>3. /\ th[t].pc = "emit" /\ lock = t
      /\ Goes(t, "start", th[t].at, th[t].callee, th[t].want, th[t].after, th[t].res)
      /\ job'.fn = job.fn
      /\ job' \in [fn : Functions \cup {NoFunction}, body : Codes \cup {Null}, todo : Seq(Functions),
                   queued : BOOLEAN, tries : Nat]
      /\ UNCHANGED <<lock, LazyDisabled, stub, PendingFunctions>>
  BY RetryDoes
<1>4. Moves(t) /\ th' \in [Threads -> ThreadState] /\ Local(lock', stub', t, th'[t]) /\ th'[t].pc = "start"
  <2>1. Built(stub, th[t].res)
    BY <1>1 DEF LocalsRight, Local
  <2>. QED BY <1>3, <2>1, HolderLocal DEF Holding, Goes
<1>5. /\ \A d \in Codes : /\ code'[d].fn = code[d].fn /\ code'[d].refs = code[d].refs
                          /\ code'[d].state = IF d = b THEN "freed" ELSE code[d].state
      /\ code' \in [Codes -> [fn : Functions \cup {NoFunction}, state : {"none", "emitting", "done", "freed"},
                              refs : [Functions -> Address]]]
  BY <1>1, <1>2, FreeFields
<1>6. FunctionBlock'[f] = Null /\ \A h \in Functions : h # f => FunctionBlock'[h] = FunctionBlock[h]
  BY <1>2, Dropping
<1>7. TypeOK'
  <2>1. /\ GlobalAddress' \in [Functions -> Address]
        /\ FunctionToStub' \in [Functions -> Stubs \cup {Null}]
        /\ StubToFunction' \in [Stubs -> Functions \cup {NoFunction}]
        /\ FunctionBlock' \in [Functions -> Codes \cup {Null}]
        /\ CurFnStubUses' \in [Functions -> SUBSET Stubs] /\ StubFnRefs' \in [Stubs -> SUBSET Functions]
    BY <1>2, Dropping
  <2>. QED BY <1>1, <1>3, <1>4, <1>5, <2>1 DEF TypeOK
<1>8. LocalsRight'
  BY <1>1, <1>3, <1>4, LocalsKept
<1>9. CompilationRight'
  <2>1. \A u \in Threads : u # t => th'[u].pc \notin Holding
    BY <1>1, <1>3, <1>4, OneCompiles DEF Moves, Locks
  <2>. QED BY <1>2, <1>3, <1>4, <2>1 DEF CompilationRight, Holding
<1>10. BodiesRight'
  <2>1. \A d \in Codes : code'[d].state # "emitting"
    BY <1>1, <1>2, <1>5 DEF BodiesRight
  <2>2. \A d \in Codes : code'[d].state = "none" => \A h \in Functions : code'[d].refs[h] = Null
    BY <1>1, <1>5 DEF BodiesRight
  <2>3. ASSUME NEW h \in Functions, FunctionBlock'[h] # Null
        PROVE  code'[FunctionBlock'[h]].fn = h /\ code'[FunctionBlock'[h]].state \in {"done", "freed"}
    <3>1. FunctionBlock'[h] = FunctionBlock[h] /\ FunctionBlock[h] \in Codes
      BY <1>1, <1>6, <2>3 DEF TypeOK
    <3>. QED BY <1>1, <1>5, <2>3, <3>1 DEF BodiesRight
  <2>. QED BY <2>1, <2>2, <2>3 DEF BodiesRight
<1>11. AllBuilt' /\ Filings'
  BY <1>2, <1>3, FreedBase
<1>. QED BY <1>7, <1>8, <1>9, <1>10, <1>11 DEF Base

\* The thread that finishes goes on to update a stub, to the work list, or
\* reports to nobody and crashes.
LEMMA FinishDoes ==
  ASSUME Base, NEW t \in Threads, FinishFunction(t), UNCHANGED LazyDisabled
  PROVE  /\ th[t].pc = "emit" /\ lock = t /\ job.fn \in Functions /\ job.body \in Codes
         /\ code[job.body].state = "emitting" /\ code[job.body].fn = job.fn
         /\ code' = [code EXCEPT ![job.body].state = "done"]
         /\ FunctionBlock' = [FunctionBlock EXCEPT ![job.fn] = job.body]
         /\ \E pc \in {"crashed", "restub", "next"} :
              /\ th[t].after = "relink" <=> pc = "crashed"
              /\ Goes(t, pc, th[t].at, th[t].callee, th[t].want, th[t].after,
                      IF th[t].after = "report" THEN job.body ELSE th[t].res)
         /\ UNCHANGED <<lock, job, LazyDisabled, maps, stub, uses>>
<1>1. /\ th[t].pc = "emit" /\ TypeOK
      /\ code' = [code EXCEPT ![job.body].state = "done"]
      /\ FunctionBlock' = [FunctionBlock EXCEPT ![job.fn] = job.body]
      /\ UNCHANGED <<lock, job, LazyDisabled, maps, stub, uses>>
  BY DEF FinishFunction, At, Base, compiler
<1>2. /\ lock = t /\ job.fn \in Functions /\ job.body \in Codes
      /\ code[job.body].state = "emitting" /\ code[job.body].fn = job.fn
  BY <1>1, HasLock DEF Base, CompilationRight, BodiesRight, Locks, Holding
<1>. DEFINE pc == IF th[t].after = "relink" THEN "crashed" ELSE IF job.queued THEN "restub" ELSE "next"
            res == IF th[t].after = "report" THEN job.body ELSE th[t].res
            r == [th[t] EXCEPT !.pc = pc, !.res = res]
<1>3. pc \in {"crashed", "restub", "next"} /\ (th[t].after = "relink" <=> pc = "crashed")
  OBVIOUS
<1>4. th[t] \in ThreadState /\ res \in Address
  BY <1>1, <1>2, Addresses DEF TypeOK, ThreadState
<1>5. th' = [th EXCEPT ![t] = r]
  BY <1>1 DEF FinishFunction, TypeOK
<1>. HIDE DEF pc, res
<1>6. /\ r \in ThreadState /\ r.pc = pc /\ r.at = th[t].at /\ r.callee = th[t].callee
      /\ r.want = th[t].want /\ r.after = th[t].after /\ r.res = res
  BY <1>3, <1>4 DEF ThreadState
<1>7. Goes(t, pc, th[t].at, th[t].callee, th[t].want, th[t].after, res)
  <2>. HIDE DEF r
  <2>. QED BY <1>1, <1>5, <1>6, GoesTo
<1>. QED BY <1>1, <1>2, <1>3, <1>7 DEF res

LEMMA FinishBase ==
  ASSUME Base, NEW t \in Threads, FinishFunction(t), UNCHANGED LazyDisabled
  PROVE  Base'
<1>1. TypeOK /\ LocalsRight /\ CompilationRight /\ BodiesRight /\ AllBuilt /\ Filings
  BY DEF Base
<1>2. PICK b \in Codes : b = job.body
  BY FinishDoes
<1>3. /\ th[t].pc = "emit" /\ lock = t /\ job.fn \in Functions
      /\ code[b].state = "emitting" /\ code[b].fn = job.fn
      /\ code' = [code EXCEPT ![b].state = "done"]
      /\ FunctionBlock' = [FunctionBlock EXCEPT ![job.fn] = b]
      /\ UNCHANGED <<lock, job, LazyDisabled, GlobalAddress, FunctionToStub, StubToFunction, PendingFunctions,
                     stub, CurFnStubUses, StubFnRefs>>
  BY <1>2, FinishDoes DEF maps, uses
<1>4. PICK pc \in {"crashed", "restub", "next"} :
        /\ th[t].after = "relink" <=> pc = "crashed"
        /\ Goes(t, pc, th[t].at, th[t].callee, th[t].want, th[t].after,
                IF th[t].after = "report" THEN b ELSE th[t].res)
  BY <1>2, FinishDoes
<1>5. /\ Moves(t) /\ th' \in [Threads -> ThreadState] /\ th'[t].pc = pc
      /\ Local(lock', stub', t, th'[t])
  <2>1. Local(lock, stub, t, th[t]) /\ Built(stub, b)
    BY <1>1, Addresses DEF LocalsRight, Built
  <2>2. /\ Moves(t) /\ th' \in [Threads -> ThreadState] /\ th'[t] \in ThreadState /\ th'[t].pc = pc
        /\ th'[t].at = th[t].at /\ th'[t].want = th[t].want /\ th'[t].after = th[t].after
        /\ th'[t].res \in {b, th[t].res}
    BY <1>4 DEF Goes, Moves
  <2>3. th[t].after = "report" => pc \in Holding
    BY <1>4 DEF Holding
  <2>4. th[t].want \in Functions /\ Built(stub, th[t].at) /\ Built(stub, th[t].res)
    BY <1>3, <2>1 DEF Local, Holding
  <2>5. pc \in Locks /\ pc \notin {"stub", "free", "body"} /\ (th[t].after = "relink" => pc = "crashed")
    BY <1>4 DEF Locks, Holding
  <2>. QED BY <1>3, <2>1, <2>2, <2>3, <2>4, <2>5 DEF Local
<1>6. /\ code'[b].state = "done" /\ \A d \in Codes : d # b => code'[d] = code[d]
      /\ \A d \in Codes : code'[d].fn = code[d].fn /\ code'[d].refs = code[d].refs
      /\ code' \in [Codes -> [fn : Functions \cup {NoFunction}, state : {"none", "emitting", "done", "freed"},
                              refs : [Functions -> Address]]]
  BY <1>1, <1>3, StateFields
<1>7. /\ FunctionBlock' \in [Functions -> Codes \cup {Null}] /\ FunctionBlock'[job.fn] = b
      /\ \A h \in Functions : h # job.fn => FunctionBlock'[h] = FunctionBlock[h]
  BY <1>1, <1>3 DEF TypeOK
<1>8. TypeOK'
  BY <1>1, <1>3, <1>5, <1>6, <1>7 DEF TypeOK
<1>9. LocalsRight'
  BY <1>1, <1>3, <1>5, LocalsKept
<1>10. CompilationRight'
  <2>1. \A u \in Threads : u # t => th'[u].pc \notin Holding
    BY <1>1, <1>3, <1>5, OneCompiles DEF Moves, Locks
  <2>. QED BY <1>3, <1>5, <2>1 DEF CompilationRight, Holding
<1>11. BodiesRight'
  <2>1. \A d \in Codes : code'[d].state # "emitting"
    BY <1>1, <1>2, <1>6 DEF BodiesRight
  <2>2. ASSUME NEW d \in Codes, code'[d].state = "none", NEW h \in Functions PROVE code'[d].refs[h] = Null
    <3>1. d # b
      BY <1>6, <2>2
    <3>. QED BY <1>1, <1>6, <2>2, <3>1 DEF BodiesRight
  <2>3. ASSUME NEW h \in Functions, FunctionBlock'[h] # Null
        PROVE  code'[FunctionBlock'[h]].fn = h /\ code'[FunctionBlock'[h]].state \in {"done", "freed"}
    <3>1. CASE h = job.fn
      BY <1>3, <1>6, <1>7, <3>1
    <3>2. CASE h # job.fn
      <4>1. FunctionBlock'[h] = FunctionBlock[h] /\ FunctionBlock[h] \in Codes
        BY <1>1, <1>7, <2>3, <3>2 DEF TypeOK
      <4>2. code[FunctionBlock[h]].fn = h /\ code[FunctionBlock[h]].state \in {"done", "freed"}
        BY <1>1, <2>3, <4>1 DEF BodiesRight
      <4>. QED BY <1>6, <4>1, <4>2
    <3>. QED BY <3>1, <3>2
  <2>. QED BY <2>1, <2>2, <2>3 DEF BodiesRight
<1>12. AllBuilt'
  <2>1. \A d \in Codes, g \in Functions : Built(stub, code'[d].refs[g])
    BY <1>1, <1>6 DEF AllBuilt
  <2>. QED BY <1>1, <1>3, <2>1 DEF AllBuilt
<1>13. Filings'
  BY <1>1, <1>3 DEF Filings
<1>. QED BY <1>8, <1>9, <1>10, <1>11, <1>12, <1>13 DEF Base

\* The next function from the work list.
LEMMA NextPendingDoes ==
  ASSUME Base, NEW t \in Threads, NextPending(t), UNCHANGED LazyDisabled
  PROVE  /\ th[t].pc = "next" /\ lock = t /\ PendingFunctions # <<>>
         /\ job'.fn \in Functions
         /\ job' \in [fn : Functions \cup {NoFunction}, body : Codes \cup {Null}, todo : Seq(Functions),
                      queued : BOOLEAN, tries : Nat]
         /\ PendingFunctions' \in Seq(Functions)
         /\ Goes(t, "start", th[t].at, th[t].callee, th[t].want, th[t].after, th[t].res)
         /\ UNCHANGED <<lock, LazyDisabled, GlobalAddress, FunctionToStub, StubToFunction, memory, uses>>
<1>. DEFINE n == Len(PendingFunctions)
            f == PendingFunctions[n]
<1>1. /\ th[t].pc = "next" /\ Goto(t, "start") /\ TypeOK /\ n > 0
      /\ job' = [Begin(f) EXCEPT !.queued = TRUE]
      /\ PendingFunctions' = SubSeq(PendingFunctions, 1, n - 1)
      /\ UNCHANGED <<lock, LazyDisabled, GlobalAddress, FunctionToStub, StubToFunction, memory, uses>>
  BY DEF NextPending, At, Base
<1>2. lock = t
  BY <1>1, HasLock DEF Base, Locks, Holding
<1>3. PendingFunctions # <<>> /\ f \in Functions /\ PendingFunctions' \in Seq(Functions)
  BY <1>1 DEF TypeOK
<1>. HIDE DEF f
<1>4. /\ job'.fn = f
      /\ job' \in [fn : Functions \cup {NoFunction}, body : Codes \cup {Null}, todo : Seq(Functions),
                   queued : BOOLEAN, tries : Nat]
  <2>. DEFINE J == Begin(f)
  <2>1. J.fn = f /\ J \in [fn : Functions \cup {NoFunction}, body : Codes \cup {Null}, todo : Seq(Functions),
                           queued : BOOLEAN, tries : Nat]
    BY <1>3, BeginFields
  <2>2. job' = [J EXCEPT !.queued = TRUE]
    BY <1>1
  <2>. HIDE DEF J
  <2>. QED BY ONLY <2>1, <2>2
<1>5. Goes(t, "start", th[t].at, th[t].callee, th[t].want, th[t].after, th[t].res)
  BY <1>1, GotoGoes DEF PCs
<1>. QED BY <1>1, <1>2, <1>3, <1>4, <1>5

LEMMA NextPendingBase ==
  ASSUME Base, NEW t \in Threads, NextPending(t), UNCHANGED LazyDisabled
  PROVE  Base'
<1>1. /\ TypeOK /\ LocalsRight /\ CompilationRight /\ BodiesRight /\ AllBuilt /\ Filings
      /\ th[t].pc = "next" /\ lock = t
      /\ job'.fn \in Functions
      /\ job' \in [fn : Functions \cup {NoFunction}, body : Codes \cup {Null}, todo : Seq(Functions),
                   queued : BOOLEAN, tries : Nat]
      /\ PendingFunctions' \in Seq(Functions)
      /\ Goes(t, "start", th[t].at, th[t].callee, th[t].want, th[t].after, th[t].res)
      /\ UNCHANGED <<lock, LazyDisabled, GlobalAddress, FunctionToStub, StubToFunction, stub, code, FunctionBlock,
                     CurFnStubUses, StubFnRefs>>
  BY NextPendingDoes DEF Base, memory, uses
<1>2. Moves(t) /\ th' \in [Threads -> ThreadState] /\ Local(lock', stub', t, th'[t]) /\ th'[t].pc = "start"
  <2>1. Built(stub, th[t].res)
    BY <1>1 DEF LocalsRight, Local
  <2>. QED BY <1>1, <2>1, HolderLocal DEF Holding, Goes
<1>3. TypeOK'
  BY <1>1, <1>2 DEF TypeOK
<1>4. LocalsRight'
  BY <1>1, <1>2, LocalsKept
<1>5. CompilationRight'
  <2>1. \A u \in Threads : u # t => th'[u].pc \notin Holding
    BY <1>1, <1>2, OneCompiles DEF Moves, Locks
  <2>. QED BY <1>1, <1>2, <2>1 DEF CompilationRight, Holding
<1>6. BodiesRight'
  BY <1>1, NotEmitting, BodiesKept
<1>7. AllBuilt' /\ Filings'
  BY <1>1 DEF AllBuilt, Filings
<1>. QED BY <1>3, <1>4, <1>5, <1>6, <1>7 DEF Base

\* The lock is given back; whoever asked for a report has it, the others go on
\* with the address they asked for.
LEMMA CompiledDoes ==
  ASSUME Base, NEW t \in Threads, Compiled(t), UNCHANGED LazyDisabled
  PROVE  /\ th[t].pc = "next" /\ lock = t /\ lock' = NoThread /\ job' = NoJob
         /\ Moves(t) /\ th' \in [Threads -> ThreadState] /\ Local(NoThread, stub, t, th'[t])
         /\ th'[t].pc \in {"run", "erase", "idle"} /\ th'[t].after = th[t].after
         /\ th[t].after = "report" =>
              th'[t].pc = "idle" /\ th'[t].want = th[t].want /\ th'[t].res = th[t].res
         /\ UNCHANGED <<LazyDisabled, maps, memory, uses>>
<1>1. /\ th[t].pc = "next" /\ TypeOK /\ lock' = NoThread /\ job' = NoJob
      /\ Return(t, GlobalAddress[th[t].want]) /\ UNCHANGED <<LazyDisabled, maps, memory, uses>>
  BY DEF Compiled, At, Base
<1>2. Local(lock, stub, t, th[t]) /\ lock = t /\ th[t] \in ThreadState
  BY <1>1, HasLock DEF Base, LocalsRight, Locks, Holding, Local
<1>3. /\ th[t].after \in {"call", "erase", "report"} /\ th[t].want \in Functions
      /\ Built(stub, th[t].at) /\ Built(stub, th[t].res)
  BY <1>1, <1>2 DEF Local, Holding, ThreadState
<1>4. PICK a \in Address : a = GlobalAddress[th[t].want]
  BY <1>1, <1>3 DEF TypeOK
<1>5. Built(stub, a)
  BY <1>3, <1>4 DEF Base, AllBuilt
<1>. DEFINE r == CASE th[t].after = "call"   -> [th[t] EXCEPT !.pc = "run", !.at = a]
                   [] th[t].after = "erase"  -> [th[t] EXCEPT !.pc = "erase", !.res = a]
                   [] th[t].after = "report" -> [th[t] EXCEPT !.pc = "idle"]
<1>6. th' = [th EXCEPT ![t] = r]
  BY <1>1, <1>4 DEF Return
<1>7. /\ r \in ThreadState /\ r.pc \in {"run", "erase", "idle"} /\ r.after = th[t].after
      /\ r.want = th[t].want /\ r.at \in {a, th[t].at} /\ r.res \in {a, th[t].res}
      /\ th[t].after = "report" => r.pc = "idle" /\ r.res = th[t].res
  <2>1. CASE th[t].after = "call"
    BY <1>2, <2>1 DEF ThreadState
  <2>2. CASE th[t].after = "erase"
    BY <1>2, <2>2 DEF ThreadState
  <2>3. CASE th[t].after = "report"
    BY <1>2, <2>3 DEF ThreadState
  <2>. QED BY <1>3, <2>1, <2>2, <2>3
<1>. HIDE DEF r
<1>8. Local(NoThread, stub, t, r)
  BY <1>3, <1>5, <1>7, JITResolverAssumption DEF Local, Locks, Holding
<1>9. Moves(t) /\ th' \in [Threads -> ThreadState] /\ th'[t] = r
  BY <1>1, <1>6, <1>7, Becomes
<1>. QED BY <1>1, <1>2, <1>7, <1>8, <1>9

LEMMA CompiledBase ==
  ASSUME Base, NEW t \in Threads, Compiled(t), UNCHANGED LazyDisabled
  PROVE  Base'
<1>1. /\ TypeOK /\ LocalsRight /\ CompilationRight /\ BodiesRight /\ AllBuilt /\ Filings
      /\ th[t].pc = "next" /\ lock = t /\ lock' = NoThread /\ job' = NoJob
      /\ Moves(t) /\ th' \in [Threads -> ThreadState] /\ Local(NoThread, stub, t, th'[t])
      /\ th'[t].pc \in {"run", "erase", "idle"}
      /\ UNCHANGED <<LazyDisabled, GlobalAddress, FunctionToStub, StubToFunction, PendingFunctions, stub, code,
                     FunctionBlock, CurFnStubUses, StubFnRefs>>
  BY CompiledDoes DEF Base, maps, memory, uses
<1>2. TypeOK'
  <2>1. NoJob \in [fn : Functions \cup {NoFunction}, body : Codes \cup {Null}, todo : Seq(Functions),
                   queued : BOOLEAN, tries : Nat]
    BY DEF NoJob
  <2>. QED BY <1>1, <2>1 DEF TypeOK
<1>3. LocalsRight'
  <2>1. \A u \in Threads : u # t => (lock' = u <=> lock = u)
    BY <1>1, JITResolverAssumption
  <2>. QED BY <1>1, <2>1, LocalsKept
<1>4. CompilationRight'
  <2>1. \A u \in Threads : u # t => th'[u].pc \notin Holding
    BY <1>1, OneCompiles DEF Moves, Locks
  <2>. QED BY <1>1, <2>1 DEF CompilationRight, Holding
<1>5. BodiesRight'
  BY <1>1, NotEmitting, BodiesKept
<1>6. AllBuilt' /\ Filings'
  BY <1>1 DEF AllBuilt, Filings
<1>. QED BY <1>2, <1>3, <1>4, <1>5, <1>6 DEF Base

\* A stub is asked for, and made.
LEMMA StubMadeDoes ==
  ASSUME Base, NEW t \in Threads, GetFunctionStub(t), UNCHANGED LazyDisabled,
         FunctionToStub[th[t].callee] = Null
  PROVE  /\ th[t].pc = "stub" /\ th[t].callee \in Functions /\ lock = NoThread
         /\ \E s \in FreshStubs :
              /\ EmitStub(th[t].callee, s)
              /\ Goes(t, "run", s, th[t].callee, th[t].want, th[t].after, th[t].res)
         /\ th[t].after \in {"call", "erase"}
         /\ UNCHANGED <<lock, job, LazyDisabled, code, FunctionBlock, uses>>
<1>1. /\ th[t].pc = "stub" /\ TypeOK /\ lock = NoThread
      /\ UNCHANGED <<lock, job, LazyDisabled, code, FunctionBlock, uses>>
  BY DEF GetFunctionStub, At, Base, compiler
<1>2. th[t].callee \in Functions /\ th[t].after \in {"call", "erase"} /\ th[t] \in ThreadState
  BY <1>1 DEF Base, LocalsRight, Local, Holding, ThreadState
<1>3. PICK s \in FreshStubs :
        EmitStub(th[t].callee, s) /\ th' = [th EXCEPT ![t].pc = "run", ![t].at = s]
  BY DEF GetFunctionStub
<1>. DEFINE r == [th[t] EXCEPT !.pc = "run", !.at = s]
<1>4. th' = [th EXCEPT ![t] = r]
  BY <1>1, <1>3 DEF TypeOK
<1>5. s \in Address
  BY Addresses DEF FreshStubs
<1>6. /\ r \in ThreadState /\ r.pc = "run" /\ r.at = s /\ r.callee = th[t].callee
      /\ r.want = th[t].want /\ r.after = th[t].after /\ r.res = th[t].res
  BY <1>2, <1>5 DEF ThreadState
<1>7. Goes(t, "run", s, th[t].callee, th[t].want, th[t].after, th[t].res)
  <2>. HIDE DEF r
  <2>. QED BY <1>1, <1>4, <1>6, GoesTo
<1>. QED BY <1>1, <1>2, <1>3, <1>7

LEMMA StubMadeBase ==
  ASSUME Base, NEW t \in Threads, GetFunctionStub(t), UNCHANGED LazyDisabled,
         FunctionToStub[th[t].callee] = Null
  PROVE  Base'
<1>1. /\ TypeOK /\ LocalsRight /\ CompilationRight /\ BodiesRight /\ AllBuilt /\ Filings
      /\ th[t].pc = "stub" /\ lock = NoThread /\ th[t].after \in {"call", "erase"}
      /\ UNCHANGED <<lock, job, LazyDisabled, code, FunctionBlock, CurFnStubUses, StubFnRefs>>
  BY StubMadeDoes DEF Base, uses
<1>2. PICK g \in Functions, s \in FreshStubs :
        EmitStub(g, s) /\ Goes(t, "run", s, th[t].callee, th[t].want, th[t].after, th[t].res)
  BY StubMadeDoes
<1>3. /\ GlobalAddress' \in [Functions -> Address] /\ PendingFunctions' \in Seq(Functions)
      /\ FunctionToStub' \in [Functions -> Stubs \cup {Null}]
      /\ StubToFunction' \in [Stubs -> Functions \cup {NoFunction}]
      /\ stub' \in [Stubs -> Address \cup {Resolver, Torn, Unused}]
      /\ s \in Stubs /\ stub'[s] # Unused
      /\ \A r \in Stubs : r # s => stub'[r] = stub[r]
  BY <1>2, StubEmitted
<1>4. /\ \A h \in Functions : FunctionToStub'[h] # Null =>
           StubToFunction'[FunctionToStub'[h]] = h /\ stub'[FunctionToStub'[h]] # Unused
      /\ \A a : Built(stub, a) => Built(stub', a)
      /\ \A f \in Functions : Built(stub', GlobalAddress'[f])
      /\ \A r \in Stubs : Built(stub', stub'[r])
  BY <1>2, StubFiled
<1>5. Moves(t) /\ th' \in [Threads -> ThreadState] /\ Local(lock', stub', t, th'[t]) /\ th'[t].pc = "run"
  <2>1. Local(lock, stub, t, th[t])
    BY <1>1 DEF LocalsRight
  <2>2. /\ Moves(t) /\ th' \in [Threads -> ThreadState] /\ th'[t] \in ThreadState /\ th'[t].pc = "run"
        /\ th'[t].at = s /\ th'[t].after = th[t].after /\ th'[t].res = th[t].res
    BY <1>2 DEF Goes, Moves
  <2>3. Built(stub', s) /\ Built(stub', th[t].res)
    BY <1>3, <1>4, <2>1 DEF Local, Built
  <2>. QED BY <1>1, <2>1, <2>2, <2>3 DEF Local, Locks, Holding
<1>6. TypeOK'
  BY <1>1, <1>3, <1>5 DEF TypeOK
<1>7. LocalsRight'
  BY <1>1, <1>3, <1>5, LocalsKept
<1>8. CompilationRight'
  BY <1>1, <1>5, CompilationKept DEF Holding
<1>9. BodiesRight'
  BY <1>1, NotEmitting, BodiesKept
<1>10. AllBuilt'
  BY <1>1, <1>4, BuiltKept
<1>11. Filings'
  BY <1>1, <1>4 DEF Filings
<1>. QED BY <1>6, <1>7, <1>8, <1>9, <1>10, <1>11 DEF Base

-----------------------------------------------------------------------------
(***************************************************************************)
(* Every step is one of these, and keeps what holds of all of them.        *)
(***************************************************************************)
LEMMA NextDoes ==
  ASSUME Base, Next
  PROVE  /\ UNCHANGED LazyDisabled
         /\ \E t \in Threads :
              \/ Passes(t) \/ Begins(t) \/ Rewrites(t)
              \/ GetFunctionStub(t) /\ FunctionToStub[th[t].callee] = Null
              \/ DeallocateMem(t) \/ StartFunction(t) \/ Relocate(t) \/ RetryWithMoreMemory(t)
              \/ FinishFunction(t) \/ NextPending(t) \/ Compiled(t)
<1>1. UNCHANGED LazyDisabled
  BY DEF Next
<1>2. PICK t \in Threads :
        \/ \E f \in Functions : Request(t, f)
        \/ Step(t) \/ Leave(t) \/ RetryWithMoreMemory(t) \/ Call(t)
  BY DEF Next
<1>3. ASSUME NEW f \in Functions, Request(t, f) PROVE Passes(t) \/ Begins(t)
  BY <1>1, <1>3, GetPointerPasses, GetStubPasses, RunJITBegins, RecompilePasses, FreePasses DEF Request
<1>4. CASE Leave(t) \/ Call(t)
  BY <1>1, <1>4, ReturnFromBodyPasses, CallPasses DEF Leave
<1>5. CASE Rejit(t) \/ Acquire(t) \/ Run(t) \/ FindStub(t) \/ CheckCompiled(t) \/ EraseStub(t)
  BY <1>1, <1>5, RejitBegins, AcquirePasses, AcquireBegins, RunPasses, FindStubPasses, CheckCompiledPasses,
     EraseStubPasses
<1>6. CASE UpdateFunctionStub(t) \/ TearStub(t) \/ MendStub(t)
  BY <1>1, <1>6, UpdateRewrites, TearRewrites, MendRewrites
<1>7. CASE GetFunctionStub(t)
  BY <1>1, <1>7, StubFoundPasses
<1>. QED BY <1>1, <1>2, <1>3, <1>4, <1>5, <1>6, <1>7 DEF Step

LEMMA InitBase == Init => Base
<1>. SUFFICES ASSUME Init PROVE Base
  OBVIOUS
<1>1. TypeOK
  <2>1. Idle \in ThreadState
    BY NullBuilt DEF Idle, ThreadState
  <2>2. NoJob \in [fn : Functions \cup {NoFunction}, body : Codes \cup {Null}, todo : Seq(Functions),
                   queued : BOOLEAN, tries : Nat]
    BY DEF NoJob
  <2>3. LazyDisabled \in BOOLEAN /\ PendingFunctions \in Seq(Functions)
    BY JITResolverAssumption DEF Init
  <2>4. GlobalAddress \in [Functions -> Address]
    BY NullBuilt DEF Init
  <2>5. code \in [Codes -> [fn : Functions \cup {NoFunction}, state : {"none", "emitting", "done", "freed"},
                            refs : [Functions -> Address]]]
    BY NullBuilt DEF Init
  <2>. QED BY <2>1, <2>2, <2>3, <2>4, <2>5 DEF Init, TypeOK
<1>2. \A t \in Threads : th[t] = Idle
  BY DEF Init
<1>3. LocalsRight
  <2>1. /\ Idle \in ThreadState /\ Idle.pc = "idle" /\ Idle.after = "call" /\ Idle.at = Null /\ Idle.res = Null
    BY NullBuilt DEF Idle, ThreadState
  <2>2. \A t \in Threads : lock # t
    BY JITResolverAssumption DEF Init
  <2>3. ASSUME NEW t \in Threads PROVE Local(lock, stub, t, Idle)
    BY <2>1, <2>2, NullBuilt DEF Local, Locks, Holding
  <2>. QED BY <1>2, <2>3 DEF LocalsRight
<1>4. CompilationRight
  BY <1>2 DEF CompilationRight, Idle, Holding
<1>5. BodiesRight
  BY DEF Init, BodiesRight
<1>6. AllBuilt
  BY Addresses DEF Init, AllBuilt, Built
<1>7. Filings
  BY DEF Init, Filings
<1>. QED BY <1>1, <1>3, <1>4, <1>5, <1>6, <1>7 DEF Base

LEMMA NextBase ==
  ASSUME Base, [Next]_vars
  PROVE  Base'
<1>1. CASE Next
  <2>1. UNCHANGED LazyDisabled
    BY <1>1, NextDoes
  <2>2. PICK t \in Threads :
          \/ Passes(t) \/ Begins(t) \/ Rewrites(t)
          \/ GetFunctionStub(t) /\ FunctionToStub[th[t].callee] = Null
          \/ DeallocateMem(t) \/ StartFunction(t) \/ Relocate(t) \/ RetryWithMoreMemory(t)
          \/ FinishFunction(t) \/ NextPending(t) \/ Compiled(t)
    BY <1>1, NextDoes
  <2>3. CASE Passes(t) \/ Begins(t) \/ Rewrites(t)
    BY <2>3, PassesBase, BeginsBase, RewritesBase
  <2>4. CASE (GetFunctionStub(t) /\ FunctionToStub[th[t].callee] = Null) \/ DeallocateMem(t)
    BY <2>1, <2>4, StubMadeBase, DeallocateBase
  <2>5. CASE StartFunction(t) \/ Relocate(t) \/ RetryWithMoreMemory(t)
    BY <2>1, <2>5, StartFunctionBase, RelocateBase, RetryBase
  <2>6. CASE FinishFunction(t) \/ NextPending(t) \/ Compiled(t)
    BY <2>1, <2>6, FinishBase, NextPendingBase, CompiledBase
  <2>. QED BY <2>2, <2>3, <2>4, <2>5, <2>6
<1>2. CASE UNCHANGED vars
  <2>1. UNCHANGED <<th, lock, job, LazyDisabled, GlobalAddress, FunctionToStub, StubToFunction,
                    PendingFunctions, stub, code, FunctionBlock, CurFnStubUses, StubFnRefs>>
    BY <1>2 DEF vars, compiler, maps, memory, uses
  <2>. QED BY <2>1 DEF Base, TypeOK, LocalsRight, CompilationRight, BodiesRight, AllBuilt, Filings
<1>. QED BY <1>1, <1>2

LEMMA AlwaysBase == Spec => []Base
BY InitBase, NextBase, PTL DEF Spec

\* Code is freed without the lock, in steps that DeallocateMem takes as one,
\* so that whoever frees must be alone.
OneFrees == "free" \in ClientOps => \A t, u \in Threads : t = u

\* Whoever calls whom, however many threads compile, run and meet in stubs,
\* and whatever clients compile again, wait for or, where there is one thread,
\* free: the variables keep their types.
THEOREM TypeCorrect == ASSUME OneFrees PROVE Spec => []TypeOK
<1>1. Base => TypeOK
  BY DEF Base
<1>. QED BY <1>1, AlwaysBase, PTL

\* For the same clients the two maps of the resolver agree, a stub in them was
\* emitted, and who refers to a stub and what a function refers to are two
\* sides of one relation.  A free by a second thread is left out: while it goes
\* through the stubs of a function, the function can be compiled again.
THEOREM MapsAgree == ASSUME OneFrees PROVE Spec => []Filings
<1>1. Base => Filings
  BY DEF Base
<1>. QED BY <1>1, AlwaysBase, PTL

-----------------------------------------------------------------------------
(***************************************************************************)
(* What is reported.  The compilation of a client that waits for a report  *)
(* stays with the function it asked for: without a work list nothing else  *)
(* is compiled under its lock.                                             *)
(***************************************************************************)
Lazy == LazyModes \subseteq {FALSE}

Report(t) == th[t].after = "report" =>
  /\ th[t].pc \in Holding => job.fn = th[t].want
  /\ th[t].pc \in {"restub", "next", "idle"} =>
       th[t].res \in Codes /\ code[th[t].res].fn = th[t].want /\ code[th[t].res].state # "none"

Reports == ~LazyDisabled /\ PendingFunctions = <<>> /\ \A t \in Threads : Report(t)

LEMMA ReportsKept ==
  ASSUME Reports, NEW t \in Threads, Moves(t), ~LazyDisabled', PendingFunctions' = <<>>, Report(t)',
         \A c \in Codes : code[c].state # "none" => code'[c].fn = code[c].fn /\ code'[c].state # "none",
         \A u \in Threads : u # t /\ th[u].pc \in Holding => job'.fn = job.fn
  PROVE  Reports'
<1>1. ASSUME NEW u \in Threads, u # t PROVE Report(u)'
  <2>1. Report(u) /\ th'[u] = th[u]
    BY <1>1 DEF Reports, Moves
  <2>2. th[u].pc \in Holding => job'.fn = job.fn
    BY <1>1
  <2>. QED BY <2>1, <2>2 DEF Report
<1>. QED BY <1>1 DEF Reports

LEMMA ReportsPasses ==
  ASSUME Base, Reports, NEW t \in Threads, Passes(t) \/ Begins(t) \/ Rewrites(t)
  PROVE  Reports'
<1>1. /\ Moves(t) /\ UNCHANGED <<LazyDisabled, PendingFunctions, code>> /\ LocalsRight
  BY DEF Passes, Begins, Rewrites, memory, maps, Base
<1>2. ~LazyDisabled' /\ PendingFunctions' = <<>> /\ Report(t)
  BY <1>1 DEF Reports
<1>3. CASE Passes(t)
  <2>1. Report(t)' /\ job' = job
    BY <1>3 DEF Passes, Report
  <2>. QED BY <1>1, <1>2, <2>1, ReportsKept
<1>4. CASE Begins(t)
  <2>1. Report(t)'
    <3>1. th'[t].pc = "start" /\ job'.fn = th'[t].want
      BY <1>4, BeginFields DEF Begins, Local, Holding
    <3>. QED BY <3>1 DEF Report
  <2>2. \A u \in Threads : u # t => th[u].pc \notin Holding
    BY <1>1, <1>4, OneCompiles DEF Begins, Locks
  <2>. QED BY <1>1, <1>2, <2>1, <2>2, ReportsKept
<1>5. CASE Rewrites(t)
  <2>1. job' = job
    BY <1>5 DEF Rewrites
  <2>2. th[t].pc \in {"patch", "mend"} => th[t].after # "report"
    BY <1>1 DEF LocalsRight, Local, Holding
  <2>3. Report(t)'
    BY <1>1, <1>2, <1>5, <2>1, <2>2 DEF Rewrites, Report, Holding
  <2>. QED BY <1>1, <1>2, <2>1, <2>3, ReportsKept
<1>. QED BY <1>3, <1>4, <1>5

LEMMA ReportsFreed ==
  ASSUME Base, Reports, NEW t \in Threads, UNCHANGED LazyDisabled,
         \/ GetFunctionStub(t) /\ FunctionToStub[th[t].callee] = Null
         \/ DeallocateMem(t) \/ RetryWithMoreMemory(t)
  PROVE  Reports'
<1>1. TypeOK /\ LocalsRight /\ ~LazyDisabled' /\ PendingFunctions = <<>> /\ Report(t)
  BY DEF Base, Reports
<1>2. CASE GetFunctionStub(t) /\ FunctionToStub[th[t].callee] = Null
  <2>1. /\ job' = job /\ code' = code /\ th[t].after \in {"call", "erase"}
        /\ \E g \in Functions, s \in FreshStubs :
             EmitStub(g, s) /\ Goes(t, "run", s, th[t].callee, th[t].want, th[t].after, th[t].res)
    BY <1>2, StubMadeDoes
  <2>2. Moves(t) /\ Report(t)'
    BY <2>1 DEF Goes, Moves, Report
  <2>3. PendingFunctions' = <<>>
    BY <1>1, <2>1, StubEmitted DEF Reports
  <2>. QED BY <1>1, <2>1, <2>2, <2>3, ReportsKept
<1>3. CASE DeallocateMem(t)
  <2>1. /\ UNCHANGED <<job, PendingFunctions>> /\ th[t].after \in {"call", "erase"}
        /\ Goes(t, "idle", th[t].at, th[t].callee, th[t].want, th[t].after, th[t].res)
        /\ \E f \in Functions, b \in Codes \cup {Null} : Deallocate(f, b)
    BY <1>3, DeallocateDoes
  <2>2. Moves(t) /\ Report(t)'
    BY <2>1 DEF Goes, Moves, Report
  <2>3. \A c \in Codes : code[c].state # "none" => code'[c].fn = code[c].fn /\ code'[c].state # "none"
    BY <1>1, <2>1, FreeFields
  <2>. QED BY <1>1, <2>1, <2>2, <2>3, ReportsKept
<1>4. CASE RetryWithMoreMemory(t)
  <2>1. /\ th[t].pc = "emit" /\ job'.fn = job.fn /\ PendingFunctions' = PendingFunctions
        /\ Goes(t, "start", th[t].at, th[t].callee, th[t].want, th[t].after, th[t].res)
        /\ \E f \in Functions, b \in Codes \cup {Null} : Deallocate(f, b)
    BY <1>4, RetryDoes
  <2>2. Moves(t) /\ Report(t)'
    BY <1>1, <2>1 DEF Goes, Moves, Report, Holding
  <2>3. \A c \in Codes : code[c].state # "none" => code'[c].fn = code[c].fn /\ code'[c].state # "none"
    BY <1>1, <2>1, FreeFields
  <2>. QED BY <1>1, <2>1, <2>2, <2>3, ReportsKept
<1>. QED BY <1>2, <1>3, <1>4

\* What relocations change, without lazy compilation being disabled: the
\* references of the body, and the stub that is made and filed.
LEMMA RelocateDoes ==
  ASSUME Base, ~LazyDisabled, NEW t \in Threads, Relocate(t)
  PROVE  \E g \in Functions, s \in Stubs :
           /\ Resolve(g, s) /\ AddStub(job.fn, s)
           /\ \/ FunctionToStub[g] = s /\ UNCHANGED <<maps, stub>>
              \/ s \in FreshStubs /\ EmitStub(g, s)
<1>. DEFINE g == Head(job.todo)
<1>1. TypeOK /\ job.todo # <<>>
  BY DEF Base, Relocate
<1>2. g \in Functions
  <2>1. job.todo \in Seq(Functions)
    BY <1>1 DEF TypeOK
  <2>. QED BY <1>1, <2>1
<1>3. \/ /\ FunctionToStub[g] # Null /\ Resolve(g, FunctionToStub[g])
         /\ AddStub(job.fn, FunctionToStub[g]) /\ UNCHANGED <<maps, stub>>
      \/ \E s \in FreshStubs : Resolve(g, s) /\ EmitStub(g, s) /\ AddStub(job.fn, s)
  BY DEF Relocate
<1>. HIDE DEF g
<1>4. FunctionToStub[g] # Null => FunctionToStub[g] \in Stubs
  BY <1>1, <1>2 DEF TypeOK
<1>. QED BY <1>2, <1>3, <1>4 DEF FreshStubs

LEMMA RelocateFields ==
  ASSUME Base, NEW t \in Threads, Relocate(t)
  PROVE  /\ th' = th /\ th[t].pc = "emit" /\ lock = t /\ job.body \in Codes /\ job.fn \in Functions
         /\ code[job.body].state = "emitting" /\ code[job.body].fn = job.fn
         /\ job'.fn = job.fn /\ job'.body = job.body /\ FunctionBlock' = FunctionBlock
         /\ \A d \in Codes : code'[d].fn = code[d].fn /\ code'[d].state = code[d].state
         /\ \A f \in Functions : GlobalAddress'[f] = GlobalAddress[f] \/ GlobalAddress'[f] \in Stubs
<1>. DEFINE g == Head(job.todo)
<1>1. /\ TypeOK /\ LocalsRight /\ th[t].pc = "emit" /\ job.todo # <<>> /\ th' = th
      /\ FunctionBlock' = FunctionBlock
  BY DEF Base, Relocate, At
<1>2. /\ lock = t /\ job.body \in Codes /\ job.fn \in Functions
      /\ code[job.body].state = "emitting" /\ code[job.body].fn = job.fn
  BY <1>1, HasLock DEF Base, CompilationRight, BodiesRight, Locks, Holding
<1>3. g \in Functions
  <2>1. job.todo \in Seq(Functions)
    BY <1>1 DEF TypeOK
  <2>. QED BY <1>1, <2>1
<1>4. \/ Resolve(g, GlobalAddress[g]) /\ UNCHANGED maps
      \/ FunctionToStub[g] # Null /\ Resolve(g, FunctionToStub[g]) /\ UNCHANGED maps
      \/ \E s \in FreshStubs : Resolve(g, s) /\ EmitStub(g, s)
  BY DEF Relocate
<1>. HIDE DEF g
<1>5. /\ \E a \in Address : Resolve(g, a)
      /\ \A f \in Functions : GlobalAddress'[f] = GlobalAddress[f] \/ GlobalAddress'[f] \in Stubs
  <2>1. CASE Resolve(g, GlobalAddress[g]) /\ UNCHANGED maps
    BY <1>1, <1>3, <2>1 DEF TypeOK, maps
  <2>2. CASE FunctionToStub[g] # Null /\ Resolve(g, FunctionToStub[g]) /\ UNCHANGED maps
    BY <1>1, <1>3, <2>2, Addresses DEF TypeOK, maps
  <2>3. CASE \E s \in FreshStubs : Resolve(g, s) /\ EmitStub(g, s)
    <3>1. PICK s \in FreshStubs : Resolve(g, s) /\ EmitStub(g, s)
      BY <2>3
    <3>2. s \in Stubs /\ \A f \in Functions : GlobalAddress'[f] \in {GlobalAddress[f], s}
      BY <1>3, <3>1, StubEmitted
    <3>. QED BY <3>1, <3>2, Addresses
  <2>. QED BY <1>4, <2>1, <2>2, <2>3
<1>6. /\ job'.fn = job.fn /\ job'.body = job.body
      /\ \A d \in Codes : code'[d].fn = code[d].fn /\ code'[d].state = code[d].state
  BY <1>1, <1>2, <1>3, <1>5, ResolveFields
<1>. QED BY <1>1, <1>2, <1>5, <1>6

LEMMA ReportsCompiles ==
  ASSUME Base, Reports, NEW t \in Threads, UNCHANGED LazyDisabled,
         StartFunction(t) \/ Relocate(t) \/ FinishFunction(t) \/ NextPending(t) \/ Compiled(t)
  PROVE  Reports'
<1>1. /\ TypeOK /\ LocalsRight /\ ~LazyDisabled /\ ~LazyDisabled' /\ PendingFunctions = <<>>
      /\ Report(t)
  BY DEF Base, Reports
<1>2. CASE StartFunction(t)
  <2>1. PICK c \in Codes :
          /\ code[c].state = "none" /\ job'.fn = job.fn /\ job.fn \in Functions
          /\ BeginsBody(job.fn, c)
    BY <1>2, StartFunctionDoes
  <2>2. /\ th[t].pc = "start" /\ PendingFunctions' = PendingFunctions
        /\ Goes(t, "emit", th[t].at, th[t].callee, th[t].want, th[t].after, th[t].res)
    BY <1>2, StartFunctionDoes
  <2>3. Moves(t) /\ Report(t)'
    BY <1>1, <2>1, <2>2 DEF Goes, Moves, Report, Holding
  <2>4. \A d \in Codes : code[d].state # "none" => code'[d] = code[d]
    BY <1>1, <2>1, StartFields
  <2>. QED BY <1>1, <2>1, <2>2, <2>3, <2>4, ReportsKept
<1>3. CASE Relocate(t)
  <2>1. /\ th' = th /\ th[t].pc = "emit" /\ job'.fn = job.fn
        /\ \A d \in Codes : code'[d].fn = code[d].fn /\ code'[d].state = code[d].state
    BY <1>3, RelocateFields
  <2>2. PendingFunctions' = <<>>
    <3>1. PICK g \in Functions, s \in Stubs : \/ FunctionToStub[g] = s /\ UNCHANGED <<maps, stub>>
                                              \/ s \in FreshStubs /\ EmitStub(g, s)
      BY <1>1, <1>3, RelocateDoes
    <3>. QED BY <1>1, <3>1, StubEmitted DEF Reports, maps
  <2>3. Moves(t) /\ Report(t)'
    BY <1>1, <2>1 DEF Moves, Report
  <2>. QED BY <1>1, <2>1, <2>2, <2>3, ReportsKept
<1>4. CASE FinishFunction(t)
  <2>1. PICK b \in Codes : b = job.body
    BY <1>4, FinishDoes
  <2>2. /\ th[t].pc = "emit" /\ job' = job /\ code[b].fn = job.fn
        /\ code' = [code EXCEPT ![b].state = "done"] /\ UNCHANGED PendingFunctions
    BY <1>4, <2>1, FinishDoes DEF maps
  <2>3. PICK pc \in {"crashed", "restub", "next"} :
          Goes(t, pc, th[t].at, th[t].callee, th[t].want, th[t].after,
               IF th[t].after = "report" THEN b ELSE th[t].res)
    BY <1>4, <2>1, FinishDoes
  <2>4. /\ code'[b].state = "done" /\ \A d \in Codes : d # b => code'[d] = code[d]
        /\ \A d \in Codes : code'[d].fn = code[d].fn
    BY <1>1, <2>2, StateFields
  <2>5. Report(t)'
    <3>1. ASSUME th'[t].after = "report"
          PROVE  job'.fn = th'[t].want /\ th'[t].res = b /\ code'[b].fn = th'[t].want /\ code'[b].state # "none"
      <4>1. th[t].after = "report" /\ th'[t].res = b /\ th'[t].want = th[t].want
        BY <2>3, <3>1 DEF Goes
      <4>2. job.fn = th[t].want
        BY <1>1, <2>2, <4>1 DEF Report, Holding
      <4>. QED BY <2>2, <2>4, <4>1, <4>2
    <3>. QED BY <3>1 DEF Report
  <2>6. Moves(t)
    BY <2>3 DEF Goes, Moves
  <2>. QED BY <1>1, <2>2, <2>4, <2>5, <2>6, ReportsKept
<1>5. CASE NextPending(t)
  BY <1>1, <1>5, NextPendingDoes
<1>6. CASE Compiled(t)
  <2>1. /\ Moves(t) /\ th[t].pc = "next" /\ lock = t /\ UNCHANGED <<PendingFunctions, code>>
        /\ th'[t].pc \in {"run", "erase", "idle"} /\ th'[t].after = th[t].after
        /\ th[t].after = "report" => th'[t].want = th[t].want /\ th'[t].res = th[t].res
    BY <1>6, CompiledDoes DEF maps, memory
  <2>2. Report(t)'
    BY <1>1, <2>1 DEF Report, Holding
  <2>3. \A u \in Threads : u # t => th[u].pc \notin Holding
    BY <1>1, <2>1, OneCompiles DEF Locks
  <2>. QED BY <1>1, <2>1, <2>2, <2>3, ReportsKept
<1>. QED BY <1>2, <1>3, <1>4, <1>5, <1>6

LEMMA ReportsNext ==
  ASSUME Base, Reports, [Next]_vars
  PROVE  Reports'
<1>1. CASE Next
  <2>1. UNCHANGED LazyDisabled
    BY <1>1, NextDoes
  <2>2. PICK t \in Threads :
          \/ Passes(t) \/ Begins(t) \/ Rewrites(t)
          \/ GetFunctionStub(t) /\ FunctionToStub[th[t].callee] = Null
          \/ DeallocateMem(t) \/ StartFunction(t) \/ Relocate(t) \/ RetryWithMoreMemory(t)
          \/ FinishFunction(t) \/ NextPending(t) \/ Compiled(t)
    BY <1>1, NextDoes
  <2>. QED BY <2>1, <2>2, ReportsPasses, ReportsFreed, ReportsCompiles
<1>2. CASE UNCHANGED vars
  BY <1>2 DEF vars, compiler, maps, memory, Reports, Report
<1>. QED BY <1>1, <1>2

\* With lazy compilation, whatever happens between a client's request and the
\* report, retries and, unless code is freed, other threads included: the code
\* that is reported is the code of the function that was asked for.
THEOREM ReportsRight == ASSUME Lazy, OneFrees PROVE Spec => []ReportsFunction
<1>1. Init => Reports
  <2>. SUFFICES ASSUME Init PROVE Reports
    OBVIOUS
  <2>1. LazyDisabled \in LazyModes /\ LazyModes \subseteq {FALSE}
    BY DEF Init, Lazy
  <2>2. ~LazyDisabled
    BY <2>1, Zenon
  <2>3. PendingFunctions = <<>> /\ \A t \in Threads : th[t].after = "call"
    BY DEF Init, Idle
  <2>. QED BY <2>2, <2>3 DEF Reports, Report
<1>2. Reports => ReportsFunction
  BY DEF Reports, Report, ReportsFunction, At
<1>. QED BY <1>1, <1>2, AlwaysBase, ReportsNext, PTL DEF Spec

-----------------------------------------------------------------------------
(***************************************************************************)
(* What is published.  An address that is not one of finished code is that *)
(* of the function under compilation.  Whoever frees must be alone: with a *)
(* second thread what it frees can be published again before it frees it.  *)
(***************************************************************************)

Unfinished(f) == f = job.fn /\ \E t \in Threads :
  th[t].pc = "start" \/ (th[t].pc = "emit" /\ GlobalAddress[f] = job.body)

Published ==
  /\ \A f \in Functions : GlobalAddress[f] \in Codes =>
       code[GlobalAddress[f]].fn = f /\ (Live(GlobalAddress[f]) \/ Unfinished(f))
  /\ \A t \in Threads : th[t].pc = "free" => GlobalAddress[th[t].want] \notin Codes

\* While nobody emits.
LEMMA PublishedLive ==
  ASSUME Published, \A t \in Threads : th[t].pc \notin {"start", "emit"}
  PROVE  \A f \in Functions : GlobalAddress[f] \in Codes => code[GlobalAddress[f]].fn = f /\ Live(GlobalAddress[f])
BY DEF Published, Unfinished

LEMMA AloneFrees ==
  ASSUME OneFrees, LocalsRight, NEW t \in Threads, Moves(t), th'[t].pc # "free"
  PROVE  \A u \in Threads : th'[u].pc # "free"
<1>1. ASSUME NEW u \in Threads, th'[u].pc = "free" PROVE FALSE
  <2>1. u # t /\ th[u].pc = "free"
    BY <1>1 DEF Moves
  <2>2. "free" \in ClientOps
    BY <2>1 DEF LocalsRight, Local
  <2>. QED BY <2>1, <2>2 DEF OneFrees
<1>. QED BY <1>1

LEMMA PublishedSteps ==
  ASSUME OneFrees, Base, Published, NEW t \in Threads, Passes(t) \/ Begins(t) \/ Rewrites(t)
  PROVE  Published'
<1>1. LocalsRight /\ Moves(t) /\ UNCHANGED code
  BY DEF Base, Passes, Begins, Rewrites, memory
<1>2. CASE Passes(t)
  <2>1. /\ \A f \in Functions : GlobalAddress'[f] \in {GlobalAddress[f], Null, Outside}
        /\ th[t].pc \notin Locks /\ th'[t].pc \notin Locks /\ job' = job
        /\ th'[t].pc = "free" => GlobalAddress'[th'[t].want] = Null
    BY <1>2 DEF Passes
  <2>2. ASSUME NEW f \in Functions, GlobalAddress'[f] \in Codes
        PROVE  code'[GlobalAddress'[f]].fn = f /\ (Live(GlobalAddress[f])' \/ Unfinished(f)')
    <3>1. GlobalAddress'[f] = GlobalAddress[f]
      BY <2>1, <2>2, Addresses
    <3>2. Unfinished(f) => Unfinished(f)'
      BY <1>1, <2>1, <3>1 DEF Unfinished, Moves, Locks, Holding
    <3>. QED BY <1>1, <2>2, <3>1, <3>2 DEF Published, Live
  <2>3. ASSUME NEW u \in Threads, th'[u].pc = "free" PROVE GlobalAddress'[th'[u].want] \notin Codes
    <3>1. CASE u = t
      BY <2>1, <2>3, <3>1, Addresses
    <3>2. CASE u # t
      <4>1. th'[u] = th[u] /\ th[u].want \in Functions
        BY <1>1, <2>3, <3>2 DEF Moves, LocalsRight, Local
      <4>. QED BY <2>1, <2>3, <4>1, Addresses DEF Published
    <3>. QED BY <3>1, <3>2
  <2>. QED BY <2>2, <2>3 DEF Published, Live
<1>3. CASE Begins(t)
  <2>1. th[t].pc \notin Locks /\ th'[t].pc = "start" /\ lock = NoThread /\ UNCHANGED GlobalAddress
    BY <1>3 DEF Begins, maps
  <2>2. \A u \in Threads : th[u].pc \notin {"start", "emit"}
    BY <1>1, <2>1, OneCompiles DEF Locks, Holding
  <2>3. \A u \in Threads : th'[u].pc # "free"
    BY <1>1, <2>1, AloneFrees
  <2>. QED BY <1>1, <2>1, <2>2, <2>3, PublishedLive DEF Published, Live
<1>4. CASE Rewrites(t)
  <2>1. /\ th[t].pc \in {"restub", "patch", "mend"} /\ th'[t].pc \in {"next", "mend", "run"}
        /\ UNCHANGED <<job, GlobalAddress>>
    BY <1>4 DEF Rewrites, maps
  <2>2. \A u \in Threads : th'[u].pc # "free"
    BY <1>1, <2>1, AloneFrees
  <2>3. \A f \in Functions : Unfinished(f) => Unfinished(f)'
    BY <1>1, <2>1 DEF Unfinished, Moves
  <2>. QED BY <1>1, <2>1, <2>2, <2>3 DEF Published, Live
<1>. QED BY <1>2, <1>3, <1>4

\* Whoever frees finds that what it frees is not published.
LEMMA PublishedFreed ==
  ASSUME OneFrees, Base, Published, NEW t \in Threads, DeallocateMem(t), UNCHANGED LazyDisabled
  PROVE  Published'
<1>1. TypeOK /\ LocalsRight /\ BodiesRight
  BY DEF Base
<1>2. PICK f \in Functions, b \in Codes \cup {Null} :
        f = th[t].want /\ b = FunctionBlock[f] /\ Deallocate(f, b)
  BY DeallocateDoes
<1>3. /\ th[t].pc = "free" /\ "free" \in ClientOps
      /\ Goes(t, "idle", th[t].at, th[t].callee, th[t].want, th[t].after, th[t].res)
  BY DeallocateDoes
<1>4. \A u \in Threads : u = t
  BY <1>3 DEF OneFrees
<1>5. Moves(t) /\ th'[t].pc = "idle"
  BY <1>3 DEF Goes, Moves
<1>6. \A c \in Codes : /\ code'[c].fn = code[c].fn
                       /\ code'[c].state = IF c = b THEN "freed" ELSE code[c].state
  BY <1>1, <1>2, FreeFields
<1>7. \A h \in Functions : GlobalAddress'[h] \in {GlobalAddress[h], Null}
  BY <1>2, Dropping
<1>8. \A h \in Functions : GlobalAddress[h] \in Codes => code[GlobalAddress[h]].fn = h /\ Live(GlobalAddress[h])
  BY <1>3, <1>4, PublishedLive
<1>9. ASSUME NEW h \in Functions, GlobalAddress'[h] \in Codes
      PROVE  code'[GlobalAddress'[h]].fn = h /\ Live(GlobalAddress[h])'
  <2>1. GlobalAddress'[h] = GlobalAddress[h]
    BY <1>7, <1>9, Addresses
  <2>2. GlobalAddress[h] # b
    <3>1. SUFFICES ASSUME GlobalAddress[h] = b PROVE FALSE
      OBVIOUS
    <3>2. b \in Codes /\ b # Null /\ code[b].fn = h
      BY <1>8, <1>9, <2>1, <3>1, Addresses
    <3>3. code[b].fn = f
      BY <1>1, <1>2, <3>2 DEF BodiesRight
    <3>. QED BY <1>2, <1>3, <3>1, <3>2, <3>3 DEF Published
  <2>. QED BY <1>6, <1>8, <1>9, <2>1, <2>2 DEF Live
<1>. QED BY <1>1, <1>4, <1>5, <1>9 DEF Published

LEMMA PublishedEmission ==
  ASSUME OneFrees, Base, Published, NEW t \in Threads, UNCHANGED LazyDisabled,
         StartFunction(t) \/ RetryWithMoreMemory(t) \/ FinishFunction(t)
  PROVE  Published'
<1>1. TypeOK /\ LocalsRight /\ BodiesRight
  BY DEF Base
<1>2. CASE StartFunction(t)
  <2>1. PICK c \in Codes :
          /\ code[c].state = "none" /\ job'.fn = job.fn /\ job.fn \in Functions
          /\ BeginsBody(job.fn, c)
          /\ GlobalAddress' = [GlobalAddress EXCEPT ![job.fn] = c] /\ job'.body = c
    BY <1>2, StartFunctionDoes
  <2>2. /\ th[t].pc = "start" /\ lock = t
        /\ Goes(t, "emit", th[t].at, th[t].callee, th[t].want, th[t].after, th[t].res)
    BY <1>2, StartFunctionDoes
  <2>3. Moves(t) /\ th'[t].pc = "emit"
    BY <2>2 DEF Goes, Moves
  <2>4. code'[c].fn = job.fn /\ \A d \in Codes : d # c => code'[d] = code[d]
    <3>1. TypeOK /\ code[c].state = "none" /\ job.fn \in Functions
      BY <1>1, <2>1
    <3>. QED BY <2>1, <3>1, StartFields
  <2>5. /\ GlobalAddress'[job.fn] = c
        /\ \A f \in Functions : f # job.fn => GlobalAddress'[f] = GlobalAddress[f]
    BY <1>1, <2>1 DEF TypeOK
  <2>6. ASSUME NEW f \in Functions, GlobalAddress'[f] \in Codes
        PROVE  code'[GlobalAddress'[f]].fn = f /\ (Live(GlobalAddress[f])' \/ Unfinished(f)')
    <3>1. CASE f = job.fn
      <4>1. Unfinished(f)'
        BY <2>1, <2>3, <2>5, <3>1 DEF Unfinished
      <4>. QED BY <2>4, <2>5, <3>1, <4>1
    <3>2. CASE f # job.fn
      <4>1. /\ GlobalAddress'[f] = GlobalAddress[f] /\ code[GlobalAddress[f]].fn = f
            /\ code[GlobalAddress[f]].state = "done"
        BY <2>5, <2>6, <3>2 DEF Published, Unfinished, Live
      <4>2. code'[GlobalAddress[f]] = code[GlobalAddress[f]]
        BY <2>1, <2>4, <2>6, <4>1
      <4>. QED BY <4>1, <4>2 DEF Live
    <3>. QED BY <3>1, <3>2
  <2>7. \A u \in Threads : th'[u].pc # "free"
    BY <1>1, <2>3, AloneFrees
  <2>. QED BY <2>6, <2>7 DEF Published
<1>3. CASE RetryWithMoreMemory(t)
  <2>1. PICK b \in Codes : b = job.body /\ code[b].state = "emitting" /\ code[b].fn = job.fn
    BY <1>3, RetryDoes
  <2>2. /\ th[t].pc = "emit" /\ job.fn \in Functions /\ job'.fn = job.fn /\ lock = t
        /\ Deallocate(job.fn, b)
        /\ Goes(t, "start", th[t].at, th[t].callee, th[t].want, th[t].after, th[t].res)
    BY <1>3, <2>1, RetryDoes
  <2>3. Moves(t) /\ th'[t].pc = "start"
    BY <2>2 DEF Goes, Moves
  <2>4. \A d \in Codes : /\ code'[d].fn = code[d].fn
                         /\ code'[d].state = IF d = b THEN "freed" ELSE code[d].state
    BY <1>1, <2>2, FreeFields
  <2>5. \A h \in Functions : GlobalAddress'[h] \in {GlobalAddress[h], Null}
    BY <2>2, Dropping
  <2>6. ASSUME NEW f \in Functions, GlobalAddress'[f] \in Codes
        PROVE  code'[GlobalAddress'[f]].fn = f /\ (Live(GlobalAddress[f])' \/ Unfinished(f)')
    <3>1. GlobalAddress'[f] = GlobalAddress[f] /\ code[GlobalAddress[f]].fn = f
      BY <2>5, <2>6, Addresses DEF Published
    <3>2. CASE f = job.fn
      BY <2>2, <2>3, <2>4, <2>6, <3>1, <3>2 DEF Unfinished
    <3>3. CASE f # job.fn
      <4>1. Live(GlobalAddress[f]) /\ GlobalAddress[f] # b
        BY <2>1, <2>6, <3>1, <3>3 DEF Published, Unfinished
      <4>. QED BY <2>4, <2>6, <3>1, <4>1 DEF Live
    <3>. QED BY <3>2, <3>3
  <2>7. \A u \in Threads : th'[u].pc # "free"
    BY <1>1, <2>3, AloneFrees
  <2>. QED BY <2>6, <2>7 DEF Published
<1>4. CASE FinishFunction(t)
  <2>1. PICK b \in Codes : b = job.body
    BY <1>4, FinishDoes
  <2>2. /\ th[t].pc = "emit" /\ lock = t /\ code[b].fn = job.fn
        /\ code' = [code EXCEPT ![b].state = "done"] /\ UNCHANGED GlobalAddress
    BY <1>4, <2>1, FinishDoes DEF maps
  <2>3. PICK pc \in {"crashed", "restub", "next"} :
          Goes(t, pc, th[t].at, th[t].callee, th[t].want, th[t].after,
               IF th[t].after = "report" THEN b ELSE th[t].res)
    BY <1>4, <2>1, FinishDoes
  <2>4. Moves(t) /\ th'[t].pc # "free"
    BY <2>3 DEF Goes, Moves
  <2>5. /\ code'[b].state = "done" /\ \A d \in Codes : d # b => code'[d] = code[d]
        /\ \A d \in Codes : code'[d].fn = code[d].fn
    BY <1>1, <2>2, StateFields
  <2>6. \A u \in Threads : th[u].pc # "start"
    BY <1>1, <2>2, OneCompiles DEF Locks, Holding
  <2>7. ASSUME NEW f \in Functions, GlobalAddress'[f] \in Codes
        PROVE  code'[GlobalAddress'[f]].fn = f /\ Live(GlobalAddress[f])'
    <3>1. /\ GlobalAddress'[f] = GlobalAddress[f] /\ code[GlobalAddress[f]].fn = f
          /\ Live(GlobalAddress[f]) \/ GlobalAddress[f] = b
      BY <2>1, <2>2, <2>6, <2>7 DEF Published, Unfinished
    <3>. QED BY <2>5, <2>7, <3>1 DEF Live
  <2>8. \A u \in Threads : th'[u].pc # "free"
    BY <1>1, <2>4, AloneFrees
  <2>. QED BY <2>7, <2>8 DEF Published
<1>. QED BY <1>2, <1>3, <1>4

LEMMA PublishedRest ==
  ASSUME OneFrees, Base, Published, NEW t \in Threads, UNCHANGED LazyDisabled,
         \/ GetFunctionStub(t) /\ FunctionToStub[th[t].callee] = Null
         \/ Relocate(t) \/ NextPending(t) \/ Compiled(t)
  PROVE  Published'
<1>1. TypeOK /\ LocalsRight
  BY DEF Base
<1>2. CASE GetFunctionStub(t) /\ FunctionToStub[th[t].callee] = Null
  <2>1. /\ UNCHANGED <<job, code>> /\ lock = NoThread /\ th[t].pc = "stub"
    BY <1>2, StubMadeDoes
  <2>2. PICK g \in Functions, s \in FreshStubs :
          EmitStub(g, s) /\ Goes(t, "run", s, th[t].callee, th[t].want, th[t].after, th[t].res)
    BY <1>2, StubMadeDoes
  <2>3. Moves(t) /\ th'[t].pc = "run"
    BY <2>2 DEF Goes, Moves
  <2>4. s \in Stubs /\ \A f \in Functions : GlobalAddress'[f] \in {GlobalAddress[f], s}
    BY <2>2, StubEmitted
  <2>5. \A u \in Threads : th[u].pc \notin {"start", "emit"}
    BY <1>1, <2>1, OneCompiles DEF Locks, Holding
  <2>6. \A u \in Threads : th'[u].pc # "free"
    BY <1>1, <2>3, AloneFrees
  <2>7. \A f \in Functions : GlobalAddress'[f] \in Codes => GlobalAddress'[f] = GlobalAddress[f]
    BY <2>4, Addresses
  <2>. QED BY <2>1, <2>5, <2>6, <2>7, PublishedLive DEF Published, Live
<1>3. CASE Relocate(t)
  <2>1. /\ th' = th /\ th[t].pc = "emit" /\ job'.fn = job.fn /\ job'.body = job.body
        /\ \A d \in Codes : code'[d].fn = code[d].fn /\ code'[d].state = code[d].state
        /\ \A f \in Functions : GlobalAddress'[f] = GlobalAddress[f] \/ GlobalAddress'[f] \in Stubs
    BY <1>3, RelocateFields
  <2>2. \A f \in Functions : GlobalAddress'[f] \in Codes => GlobalAddress'[f] = GlobalAddress[f]
    BY <2>1, Addresses
  <2>3. ASSUME NEW f \in Functions, GlobalAddress'[f] \in Codes
        PROVE  code'[GlobalAddress'[f]].fn = f /\ (Live(GlobalAddress[f])' \/ Unfinished(f)')
    <3>1. GlobalAddress'[f] = GlobalAddress[f] /\ (Unfinished(f) => Unfinished(f)')
      BY <2>1, <2>2, <2>3 DEF Unfinished
    <3>. QED BY <2>1, <2>3, <3>1 DEF Published, Live
  <2>4. \A u \in Threads : th'[u].pc # "free"
    BY <1>1, <2>1, AloneFrees DEF Moves
  <2>. QED BY <2>3, <2>4 DEF Published
<1>4. CASE NextPending(t) \/ Compiled(t)
  <2>1. /\ th[t].pc = "next" /\ lock = t /\ Moves(t) /\ th'[t].pc # "free" /\ UNCHANGED <<code, GlobalAddress>>
    BY <1>4, NextPendingDoes, CompiledDoes DEF Goes, Moves, memory, maps
  <2>2. \A u \in Threads : th[u].pc \notin {"start", "emit"}
    BY <1>1, <2>1, OneCompiles DEF Locks, Holding
  <2>3. \A u \in Threads : th'[u].pc # "free"
    BY <1>1, <2>1, AloneFrees
  <2>. QED BY <2>1, <2>2, <2>3, PublishedLive DEF Published, Live
<1>. QED BY <1>2, <1>3, <1>4

LEMMA PublishedNext ==
  ASSUME OneFrees, Base, Published, [Next]_vars
  PROVE  Published'
<1>1. CASE Next
  <2>1. UNCHANGED LazyDisabled
    BY <1>1, NextDoes
  <2>2. PICK t \in Threads :
          \/ Passes(t) \/ Begins(t) \/ Rewrites(t)
          \/ GetFunctionStub(t) /\ FunctionToStub[th[t].callee] = Null
          \/ DeallocateMem(t) \/ StartFunction(t) \/ Relocate(t) \/ RetryWithMoreMemory(t)
          \/ FinishFunction(t) \/ NextPending(t) \/ Compiled(t)
    BY <1>1, NextDoes
  <2>. QED BY <2>1, <2>2, PublishedSteps, PublishedFreed, PublishedEmission, PublishedRest
<1>2. CASE UNCHANGED vars
  BY <1>2 DEF vars, compiler, maps, memory, Published, Unfinished, Live
<1>. QED BY <1>1, <1>2

LEMMA InitPublished == Init => Published
BY Addresses DEF Init, Published, Idle

\* While the lock is free the global map holds finished code of its function,
\* whatever clients do, as long as whoever frees code is alone.
THEOREM OnlyFinished == ASSUME OneFrees PROVE Spec => []PublishedFinished
<1>1. Init => Published
  BY InitPublished
<1>2. Base /\ Published => PublishedFinished
  <2>. SUFFICES ASSUME Base, Published, lock = NoThread
                PROVE  \A f \in Functions : GlobalAddress[f] \in Codes =>
                         Live(GlobalAddress[f]) /\ code[GlobalAddress[f]].fn = f
    BY DEF PublishedFinished
  <2>1. \A t \in Threads : th[t].pc \notin {"start", "emit"}
    BY JITResolverAssumption DEF Base, LocalsRight, Local, Locks, Holding
  <2>. QED BY <2>1, PublishedLive
<1>. QED BY <1>1, <1>2, AlwaysBase, PublishedNext, PTL DEF Spec

-----------------------------------------------------------------------------
(***************************************************************************)
(* What the resolver knows.  A stub goes with the last function that is    *)
(* filed as referring to it, and with lazy compilation every reference of  *)
(* a body that is emitted, or is the current one of its function, is a     *)
(* stub that the function is filed for.                                    *)
(***************************************************************************)
Current(c) == \/ code[c].state = "emitting"
              \/ code[c].fn \in Functions /\ FunctionBlock[code[c].fn] = c

Known(c, g, s) == StubToFunction[s] = g /\ (DlsymStubs => s \in CurFnStubUses[code[c].fn])

Refers ==
  /\ ~LazyDisabled
  /\ \A c \in Codes, g \in Functions :
       Current(c) /\ code[c].refs[g] \in Stubs => Known(c, g, code[c].refs[g])

\* Steps that leave bodies and filings alone, but for a stub nobody refers to.
LEMMA RefersKept ==
  ASSUME Base, Refers, UNCHANGED <<LazyDisabled, code, FunctionBlock, CurFnStubUses>>,
         \A s \in Stubs : stub[s] # Unused => StubToFunction'[s] = StubToFunction[s]
  PROVE  Refers'
<1>1. ASSUME NEW c \in Codes, NEW g \in Functions, Current(c)', code'[c].refs[g] \in Stubs
      PROVE  Known(c, g, code[c].refs[g])'
  <2>1. Current(c) /\ code[c].refs[g] \in Stubs
    BY <1>1 DEF Current
  <2>2. stub[code[c].refs[g]] # Unused
    BY <2>1 DEF Base, AllBuilt, Built
  <2>3. Known(c, g, code[c].refs[g])
    BY <2>1 DEF Refers
  <2>. QED BY <2>1, <2>2, <2>3 DEF Known
<1>. QED BY <1>1 DEF Refers

\* The references of f go: those of others keep their stubs.
LEMMA RefersDropped ==
  ASSUME Base, Refers, NEW f \in Functions, NEW b \in Codes \cup {Null}, Deallocate(f, b), UNCHANGED LazyDisabled,
         \A c \in Codes : code'[c].state # "emitting"
  PROVE  Refers'
<1>1. TypeOK /\ Filings
  BY DEF Base
<1>2. /\ FunctionBlock'[f] = Null /\ \A h \in Functions : h # f => FunctionBlock'[h] = FunctionBlock[h]
      /\ \A h \in Functions : h # f => CurFnStubUses'[h] = CurFnStubUses[h]
      /\ \A s \in Stubs : StubToFunction'[s] # StubToFunction[s] => StubFnRefs[s] = {f}
  BY Dropping
<1>3. \A c \in Codes : code'[c].fn = code[c].fn /\ code'[c].refs = code[c].refs
  BY <1>1, FreeFields
<1>4. ASSUME NEW c \in Codes, NEW g \in Functions, Current(c)', code'[c].refs[g] \in Stubs
      PROVE  Known(c, g, code[c].refs[g])'
  <2>. DEFINE s == code[c].refs[g]
              h == code[c].fn
  <2>1. s \in Stubs /\ h \in Functions /\ h # f /\ FunctionBlock[h] = c
    BY <1>2, <1>3, <1>4, Addresses DEF Current
  <2>2. Known(c, g, s)
    BY <2>1 DEF Refers, Current
  <2>3. StubToFunction'[s] = StubToFunction[s]
    <3>1. CASE DlsymStubs
      <4>1. h \in StubFnRefs[s]
        BY <1>1, <2>1, <2>2, <3>1 DEF Known, Filings
      <4>. QED BY <1>2, <2>1, <4>1
    <3>2. CASE ~DlsymStubs
      <4>1. StubFnRefs[s] # {f}
        BY <1>1, <2>1, <3>2 DEF Filings
      <4>. QED BY <1>2, <2>1, <4>1
    <3>. QED BY <3>1, <3>2
  <2>4. code'[c].refs[g] = s /\ code'[c].fn = h /\ CurFnStubUses'[h] = CurFnStubUses[h]
    BY <1>2, <1>3, <2>1
  <2>. QED BY <2>2, <2>3, <2>4 DEF Known
<1>. QED BY <1>3, <1>4 DEF Refers

LEMMA RefersStart ==
  ASSUME Base, Refers, NEW t \in Threads, StartFunction(t), UNCHANGED LazyDisabled
  PROVE  Refers'
<1>1. /\ TypeOK /\ BodiesRight
      /\ UNCHANGED <<StubToFunction, FunctionBlock, CurFnStubUses>>
  BY StartFunctionDoes DEF Base, uses
<1>2. PICK c \in Codes :
        /\ code[c].state = "none" /\ job.fn \in Functions
        /\ BeginsBody(job.fn, c)
  BY StartFunctionDoes
<1>3. code'[c].refs = code[c].refs /\ \A d \in Codes : d # c => code'[d] = code[d]
  BY <1>1, <1>2, StartFields
<1>4. ASSUME NEW d \in Codes, NEW g \in Functions, Current(d)', code'[d].refs[g] \in Stubs
      PROVE  Known(d, g, code[d].refs[g])'
  <2>1. d # c
    <3>1. SUFFICES ASSUME d = c PROVE FALSE
      OBVIOUS
    <3>2. code'[d].refs[g] = Null
      BY <1>1, <1>2, <1>3, <3>1 DEF BodiesRight
    <3>. QED BY <1>4, <3>2, Addresses
  <2>2. code'[d] = code[d] /\ Current(d)
    BY <1>1, <1>3, <1>4, <2>1 DEF Current
  <2>3. Known(d, g, code[d].refs[g])
    BY <1>4, <2>2 DEF Refers
  <2>. QED BY <1>1, <2>2, <2>3 DEF Known
<1>5. \A d \in Codes : code'[d].refs = code[d].refs
  BY <1>3
<1>. QED BY <1>4, <1>5 DEF Refers

LEMMA RefersRelocate ==
  ASSUME Base, Refers, NEW t \in Threads, Relocate(t), UNCHANGED LazyDisabled
  PROVE  Refers'
<1>1. TypeOK /\ Filings /\ AllBuilt /\ ~LazyDisabled /\ job.todo # <<>>
  BY DEF Base, Refers, Relocate
<1>2. /\ job.body \in Codes /\ job.fn \in Functions /\ FunctionBlock' = FunctionBlock
      /\ code[job.body].state = "emitting" /\ code[job.body].fn = job.fn
  BY RelocateFields
<1>3. PICK g \in Functions, s \in Stubs :
        /\ Resolve(g, s) /\ AddStub(job.fn, s)
        /\ \/ FunctionToStub[g] = s /\ UNCHANGED <<maps, stub>>
           \/ s \in FreshStubs /\ EmitStub(g, s)
  BY <1>1, RelocateDoes
<1>4. /\ \A d \in Codes : /\ d # job.body => code'[d] = code[d]
                          /\ code'[d].fn = code[d].fn /\ code'[d].state = code[d].state
      /\ code'[job.body].refs[g] = s
      /\ \A h \in Functions : h # g => code'[job.body].refs[h] = code[job.body].refs[h]
  <2>1. s \in Address
    BY Addresses
  <2>. QED BY <1>1, <1>2, <1>3, <2>1, ResolveFields
<1>5. /\ StubToFunction'[s] = g
      /\ \A r \in Stubs : stub[r] # Unused => StubToFunction'[r] = StubToFunction[r]
  <2>1. CASE FunctionToStub[g] = s /\ UNCHANGED <<maps, stub>>
    BY <1>1, <2>1, Addresses DEF maps, Filings
  <2>2. CASE s \in FreshStubs /\ EmitStub(g, s)
    BY <2>2, StubEmitted
  <2>. QED BY <1>3, <2>1, <2>2
<1>6. /\ DlsymStubs => s \in CurFnStubUses'[job.fn]
      /\ \A h \in Functions : CurFnStubUses[h] \subseteq CurFnStubUses'[h]
  BY <1>2, <1>3, StubAdded
<1>7. ASSUME NEW c \in Codes, NEW h \in Functions, Current(c)', code'[c].refs[h] \in Stubs
      PROVE  Known(c, h, code[c].refs[h])'
  <2>1. CASE c = job.body /\ h = g
    BY <1>2, <1>4, <1>5, <1>6, <2>1 DEF Known
  <2>2. CASE ~(c = job.body /\ h = g)
    <3>1. code'[c].refs[h] = code[c].refs[h] /\ code'[c].fn = code[c].fn /\ Current(c)
      BY <1>2, <1>4, <1>7, <2>2 DEF Current
    <3>2. Known(c, h, code[c].refs[h]) /\ stub[code[c].refs[h]] # Unused
      BY <1>1, <1>7, <3>1 DEF Refers, AllBuilt, Built
    <3>3. code[c].fn \in Functions
      BY <1>2, <3>1 DEF Current, Base, BodiesRight
    <3>. QED BY <1>5, <1>6, <1>7, <3>1, <3>2, <3>3 DEF Known
  <2>. QED BY <2>1, <2>2
<1>. QED BY <1>1, <1>7 DEF Refers

LEMMA RefersFinish ==
  ASSUME Base, Refers, NEW t \in Threads, FinishFunction(t), UNCHANGED LazyDisabled
  PROVE  Refers'
<1>1. TypeOK /\ BodiesRight
  BY DEF Base
<1>2. PICK b \in Codes : b = job.body
  BY FinishDoes
<1>3. /\ job.fn \in Functions /\ code[b].state = "emitting" /\ code[b].fn = job.fn
      /\ code' = [code EXCEPT ![b].state = "done"]
      /\ FunctionBlock' = [FunctionBlock EXCEPT ![job.fn] = b]
      /\ UNCHANGED <<StubToFunction, CurFnStubUses>>
  BY <1>2, FinishDoes DEF maps, uses
<1>4. /\ code'[b].state = "done" /\ \A d \in Codes : d # b => code'[d] = code[d]
      /\ \A d \in Codes : code'[d].fn = code[d].fn /\ code'[d].refs = code[d].refs
  BY <1>1, <1>3, StateFields
<1>5. FunctionBlock'[job.fn] = b /\ \A h \in Functions : h # job.fn => FunctionBlock'[h] = FunctionBlock[h]
  BY <1>1, <1>3 DEF TypeOK
<1>6. ASSUME NEW c \in Codes, Current(c)' PROVE Current(c)
  <2>1. CASE c = b
    BY <1>3, <2>1 DEF Current
  <2>2. CASE c # b
    BY <1>4, <1>5, <1>6, <2>2 DEF Current
  <2>. QED BY <2>1, <2>2
<1>. QED BY <1>3, <1>4, <1>6 DEF Refers, Known

LEMMA RefersNext ==
  ASSUME OneFrees, Base, Refers, [Next]_vars
  PROVE  Refers'
<1>1. CASE Next
  <2>1. UNCHANGED LazyDisabled /\ LocalsRight /\ BodiesRight /\ TypeOK
    BY <1>1, NextDoes DEF Base
  <2>2. PICK t \in Threads :
          \/ Passes(t) \/ Begins(t) \/ Rewrites(t)
          \/ GetFunctionStub(t) /\ FunctionToStub[th[t].callee] = Null
          \/ DeallocateMem(t) \/ StartFunction(t) \/ Relocate(t) \/ RetryWithMoreMemory(t)
          \/ FinishFunction(t) \/ NextPending(t) \/ Compiled(t)
    BY <1>1, NextDoes
  <2>3. CASE Passes(t) \/ Begins(t) \/ Rewrites(t)
    <3>1. UNCHANGED <<code, FunctionBlock, CurFnStubUses, StubToFunction>>
      BY <2>3 DEF Passes, Begins, Rewrites, memory, maps, uses
    <3>. QED BY <2>1, <3>1, RefersKept
  <2>4. CASE NextPending(t) \/ Compiled(t)
    <3>1. UNCHANGED <<code, FunctionBlock, CurFnStubUses, StubToFunction>>
      BY <2>1, <2>4, NextPendingDoes, CompiledDoes DEF memory, maps, uses
    <3>. QED BY <2>1, <3>1, RefersKept
  <2>5. CASE GetFunctionStub(t) /\ FunctionToStub[th[t].callee] = Null
    <3>1. /\ UNCHANGED <<code, FunctionBlock, CurFnStubUses>>
          /\ \E g \in Functions, s \in FreshStubs : EmitStub(g, s)
      BY <2>1, <2>5, StubMadeDoes DEF uses
    <3>2. \A s \in Stubs : stub[s] # Unused => StubToFunction'[s] = StubToFunction[s]
      BY <3>1, StubEmitted
    <3>. QED BY <2>1, <3>1, <3>2, RefersKept
  <2>6. CASE DeallocateMem(t)
    <3>1. PICK f \in Functions, b \in Codes \cup {Null} : Deallocate(f, b)
      BY <2>1, <2>6, DeallocateDoes
    <3>2. th[t].pc = "free" /\ \A u \in Threads : u = t
      BY <2>1, <2>6, DeallocateDoes DEF OneFrees
    <3>3. \A c \in Codes : code[c].state # "emitting"
      BY <2>1, <3>2 DEF BodiesRight
    <3>4. \A c \in Codes : code'[c].state # "emitting"
      BY <2>1, <3>1, <3>3, FreeFields
    <3>. QED BY <2>1, <3>1, <3>4, RefersDropped
  <2>7. CASE RetryWithMoreMemory(t)
    <3>1. PICK f \in Functions, b \in Codes \cup {Null} : Deallocate(f, b) /\ b = job.body
      BY <2>1, <2>7, RetryDoes
    <3>2. \A c \in Codes : code'[c].state # "emitting"
      BY <2>1, <3>1, FreeFields DEF BodiesRight
    <3>. QED BY <2>1, <3>1, <3>2, RefersDropped
  <2>8. CASE StartFunction(t) \/ Relocate(t) \/ FinishFunction(t)
    BY <2>1, <2>8, RefersStart, RefersRelocate, RefersFinish
  <2>. QED BY <2>2, <2>3, <2>4, <2>5, <2>6, <2>7, <2>8
<1>2. CASE UNCHANGED vars
  <2>1. UNCHANGED <<LazyDisabled, code, FunctionBlock, CurFnStubUses, StubToFunction>>
    BY <1>2 DEF vars, maps, memory, uses
  <2>. QED BY <2>1, RefersKept
<1>. QED BY <1>1, <1>2

\* With lazy compilation, and one who frees: however often functions are freed,
\* compiled again and retried, a stub that the current body of a function
\* calls is one that the resolver finds the callee of.
THEOREM ReferencesKnown == ASSUME Lazy, OneFrees PROVE Spec => []ReferencedKnown
<1>1. Init => Refers
  <2>. SUFFICES ASSUME Init PROVE Refers
    OBVIOUS
  <2>1. LazyDisabled \in LazyModes /\ LazyModes \subseteq {FALSE}
    BY DEF Init, Lazy
  <2>2. ~LazyDisabled
    BY <2>1, Zenon
  <2>3. \A c \in Codes, g \in Functions : code[c].refs[g] \notin Stubs
    BY Addresses DEF Init
  <2>. QED BY <2>2, <2>3 DEF Refers
<1>2. Base /\ Refers => ReferencedKnown
  <2>. SUFFICES ASSUME Base, Refers, NEW f \in Functions, NEW g \in Functions, FunctionBlock[f] # Null,
                       code[FunctionBlock[f]].refs[g] \in Stubs
                PROVE  StubToFunction[code[FunctionBlock[f]].refs[g]] = g
    BY DEF ReferencedKnown
  <2>1. FunctionBlock[f] \in Codes /\ code[FunctionBlock[f]].fn = f
    BY DEF Base, TypeOK, BodiesRight
  <2>. QED BY <2>1 DEF Refers, Current, Known
<1>. QED BY <1>1, <1>2, AlwaysBase, RefersNext, PTL DEF Spec

-----------------------------------------------------------------------------
(***************************************************************************)
(* Calls with lazy compilation.  Clients may compile functions again, ask  *)
(* for stubs and wait for reports; as long as nothing is freed and stubs   *)
(* stay, finished code and stubs are good for ever, and whatever a thread  *)
(* holds serves the function it calls.                                     *)
(***************************************************************************)
Unfreed == "free" \notin ClientOps /\ DlsymStubs = FALSE

\* A call of f may go to the address a.
Serves(a, f) ==
  \/ a = Outside /\ f \in External
  \/ a \in Codes /\ Live(a) /\ code[a].fn = f
  \/ a \in Stubs /\ stub[a] # Unused /\ StubToFunction[a] = f

\* What a thread holds, and what it compiles for whom.
Carries(pc, at, callee, want, after, res) ==
  /\ pc \notin {"null", "dead", "unknown", "restub", "free"}
  /\ pc \in {"run", "body"} => Serves(at, callee)
  /\ InStub(pc, after) => at \in Stubs /\ Serves(at, callee)
  /\ pc \in Holding \cup {"acquire"} /\ after \in {"call", "erase"} => want = callee
  /\ pc = "check" => want = callee
  /\ pc \in {"erase", "patch", "mend"} => Serves(res, callee)
  /\ pc \in Holding \cup {"rejit"} => want \notin External
  /\ pc \in Holding => job.fn = want /\ ~job.queued
  /\ pc = "emit" => GlobalAddress[want] = job.body
  /\ pc = "next" => GlobalAddress[want] \in Codes

ThreadCarries(t) ==
  Carries(th[t].pc, th[t].at, th[t].callee, th[t].want, th[t].after, th[t].res)

\* What threads take addresses from.
MapServes == \A f \in Functions :
  /\ GlobalAddress[f] \in Codes => f \notin External
  /\ GlobalAddress[f] \notin Codes => GlobalAddress[f] = Null \/ Serves(GlobalAddress[f], f)
StubsServe == \A s \in Stubs : stub[s] # Unused =>
  /\ StubToFunction[s] \in Functions
  /\ stub[s] \in {Resolver, Torn} \/ Serves(stub[s], StubToFunction[s])
RefsServe == \A c \in Codes, g \in Functions :
  code[c].refs[g] = Null \/ (code[c].refs[g] \in Stubs /\ Serves(code[c].refs[g], g))

\* Whoever runs a body runs finished code of the function it called.
InCallee == \A t \in Threads :
  At(t, "body") => Live(th[t].at) /\ code[th[t].at].fn = th[t].callee

Serving ==
  /\ ~LazyDisabled /\ PendingFunctions = <<>>
  /\ MapServes /\ StubsServe /\ RefsServe /\ \A t \in Threads : ThreadCarries(t)

\* Finished code stays, and so do stubs.
Stays ==
  /\ \A c \in Codes : Live(c) => code'[c].state = "done" /\ code'[c].fn = code[c].fn
  /\ \A s \in Stubs : stub[s] # Unused => stub'[s] # Unused /\ StubToFunction'[s] = StubToFunction[s]

LEMMA ServesOn ==
  ASSUME Stays
  PROVE  \A a, f : Serves(a, f) => Serves(a, f)'
<1>1. SUFFICES ASSUME NEW a, NEW f, Serves(a, f) PROVE Serves(a, f)'
  OBVIOUS
<1>2. CASE a = Outside /\ f \in External
  BY <1>2 DEF Serves
<1>3. CASE a \in Codes /\ Live(a) /\ code[a].fn = f
  BY <1>3 DEF Serves, Stays, Live
<1>4. CASE a \in Stubs /\ stub[a] # Unused /\ StubToFunction[a] = f
  BY <1>4 DEF Serves, Stays
<1>. QED BY <1>1, <1>2, <1>3, <1>4 DEF Serves

LEMMA CarriesOn ==
  ASSUME Stays, NEW pc, NEW at, NEW callee, NEW want, NEW after, NEW res,
         Carries(pc, at, callee, want, after, res),
         pc \in Holding => job'.fn = job.fn /\ job'.queued = job.queued,
         pc = "emit" => GlobalAddress'[want] = job'.body,
         pc = "next" => GlobalAddress'[want] \in Codes
  PROVE  Carries(pc, at, callee, want, after, res)'
<1>1. \A a, f : Serves(a, f) => Serves(a, f)'
  BY ServesOn
<1>2. /\ Serves(at, callee) => Serves(at, callee)'
      /\ Serves(res, callee) => Serves(res, callee)'
  BY <1>1
<1>. QED BY <1>2 DEF Carries

\* The thread t takes a step, and the others go on with what they hold.
LEMMA ServingKept ==
  ASSUME LocalsRight, Serving, Stays, NEW t \in Threads,
         NEW pc, NEW at, NEW callee, NEW want, NEW after, NEW res,
         Goes(t, pc, at, callee, want, after, res), Carries(pc, at, callee, want, after, res)',
         lock \in {t, NoThread} \/ UNCHANGED <<job, GlobalAddress>>,
         ~LazyDisabled', PendingFunctions' = <<>>, MapServes', StubsServe', RefsServe'
  PROVE  Serving'
<1>1. ASSUME NEW u \in Threads, u # t PROVE ThreadCarries(u)'
  <2>1. th'[u] = th[u] /\ ThreadCarries(u)
    BY <1>1 DEF Goes, Serving
  <2>2. th[u].pc \in Holding => UNCHANGED <<job, GlobalAddress>>
    BY <1>1, OneCompiles DEF Locks
  <2>3. Carries(th[u].pc, th[u].at, th[u].callee, th[u].want, th[u].after, th[u].res)'
    <3>. DEFINE r == th[u]
    <3>1. Carries(r.pc, r.at, r.callee, r.want, r.after, r.res)
      BY <2>1 DEF ThreadCarries
    <3>2. /\ r.pc \in Holding => job'.fn = job.fn /\ job'.queued = job.queued
          /\ r.pc = "emit" => GlobalAddress'[r.want] = job'.body
          /\ r.pc = "next" => GlobalAddress'[r.want] \in Codes
      BY <2>2, <3>1 DEF Carries, Holding
    <3>3. th'[u] = r
      BY <2>1
    <3>4. Carries(r.pc, r.at, r.callee, r.want, r.after, r.res)'
      <4>. HIDE DEF r
      <4>1. ASSUME NEW q, Carries(q.pc, q.at, q.callee, q.want, q.after, q.res),
                   q.pc \in Holding => job'.fn = job.fn /\ job'.queued = job.queued,
                   q.pc = "emit" => GlobalAddress'[q.want] = job'.body,
                   q.pc = "next" => GlobalAddress'[q.want] \in Codes
            PROVE  Carries(q.pc, q.at, q.callee, q.want, q.after, q.res)'
        BY <4>1, CarriesOn
      <4>. QED BY <2>1, <3>1, <3>2, <4>1 DEF r
    <3>. QED BY <3>4
  <2>. QED BY <2>1, <2>3 DEF ThreadCarries
<1>2. ThreadCarries(t)'
  BY DEF Goes, ThreadCarries
<1>. QED BY <1>1, <1>2 DEF Serving

\* A step that changes nothing but its thread.
LEMMA QuietServing ==
  ASSUME Base, Serving, NEW t \in Threads,
         NEW pc, NEW at, NEW callee, NEW want, NEW after, NEW res,
         Goes(t, pc, at, callee, want, after, res), Carries(pc, at, callee, want, after, res),
         UNCHANGED <<job, LazyDisabled, maps, stub, code>>
  PROVE  Serving'
<1>1. /\ GlobalAddress' = GlobalAddress /\ FunctionToStub' = FunctionToStub /\ stub' = stub /\ code' = code
      /\ StubToFunction' = StubToFunction /\ PendingFunctions' = PendingFunctions /\ job' = job
      /\ LazyDisabled' = LazyDisabled
  BY DEF maps
<1>2. Stays
  BY <1>1 DEF Stays, Live
<1>3. Carries(pc, at, callee, want, after, res)'
  <2>1. /\ pc \in Holding => job'.fn = job.fn /\ job'.queued = job.queued
        /\ pc = "emit" => GlobalAddress'[want] = job'.body
        /\ pc = "next" => GlobalAddress'[want] \in Codes
    BY <1>1 DEF Carries
  <2>. QED BY ONLY <1>2, <2>1, CarriesOn, Carries(pc, at, callee, want, after, res)
<1>4. MapServes' /\ StubsServe' /\ RefsServe' /\ ~LazyDisabled' /\ PendingFunctions' = <<>>
  <2>1. MapServes /\ StubsServe /\ RefsServe /\ ~LazyDisabled /\ PendingFunctions = <<>>
    BY DEF Serving
  <2>2. MapServes'
    BY <1>1, <2>1 DEF MapServes, Serves, Live
  <2>3. StubsServe'
    BY <1>1, <2>1 DEF StubsServe, Serves, Live
  <2>4. RefsServe'
    BY <1>1, <2>1 DEF RefsServe, Serves, Live
  <2>. QED BY <1>1, <2>1, <2>2, <2>3, <2>4
<1>5. LocalsRight
  BY DEF Base
<1>. QED BY <1>1, <1>2, <1>3, <1>4, <1>5, ServingKept

\* While the lock is free, addresses in the global map serve their functions.
LEMMA FreeServes ==
  ASSUME Base, Published, Serving, lock = NoThread, NEW f \in Functions, GlobalAddress[f] # Null
  PROVE  Serves(GlobalAddress[f], f)
<1>1. CASE GlobalAddress[f] \in Codes
  <2>1. \A u \in Threads : th[u].pc \notin {"start", "emit"}
    BY JITResolverAssumption DEF Base, LocalsRight, Local, Locks, Holding
  <2>. QED BY <1>1, <2>1, PublishedLive DEF Serves
<1>2. CASE GlobalAddress[f] \notin Codes
  BY <1>2 DEF Serving, MapServes
<1>. QED BY <1>1, <1>2

-----------------------------------------------------------------------------
(***************************************************************************)
(* Steps of threads that do not compile, and change nothing else.          *)
(***************************************************************************)
LEMMA GetPointerServing ==
  ASSUME Base, Published, Serving, NEW t \in Threads, NEW f \in Functions,
         GetPointerToFunction(t, f), UNCHANGED LazyDisabled
  PROVE  Serving'
<1>1. lock = NoThread /\ TypeOK /\ UNCHANGED <<job, LazyDisabled, maps, stub, code>>
  BY DEF GetPointerToFunction, compiler, memory, Base
<1>2. CASE GlobalAddress[f] # Null /\ Goes(t, "run", GlobalAddress[f], f, NoFunction, "call", Null)
  <2>1. Carries("run", GlobalAddress[f], f, NoFunction, "call", Null)
    BY <1>1, <1>2, FreeServes DEF Carries, InStub, Holding
  <2>. QED BY <1>1, <1>2, <2>1, QuietServing
<1>3. CASE Goes(t, "acquire", Null, f, f, "call", Null)
  <2>1. Carries("acquire", Null, f, f, "call", Null)
    BY DEF Carries, InStub, Holding
  <2>. QED BY <1>1, <1>3, <2>1, QuietServing
<1>. QED BY <1>1, <1>2, <1>3, GetPointerGoes

LEMMA GetStubServing ==
  ASSUME Base, Published, Serving, NEW t \in Threads, NEW f \in Functions,
         GetPointerToFunctionOrStub(t, f), UNCHANGED LazyDisabled
  PROVE  Serving'
<1>. DEFINE a == IF GlobalAddress[f] # Null THEN GlobalAddress[f] ELSE Null
            pc == IF GlobalAddress[f] # Null THEN "run" ELSE "stub"
            r == IF GlobalAddress[f] # Null
                 THEN [Idle EXCEPT !.callee = f, !.pc = "run", !.at = GlobalAddress[f]]
                 ELSE [Idle EXCEPT !.callee = f, !.pc = "stub"]
<1>1. /\ lock = NoThread /\ TypeOK /\ th' = [th EXCEPT ![t] = r]
      /\ UNCHANGED <<job, LazyDisabled, maps, stub, code>>
  BY DEF GetPointerToFunctionOrStub, compiler, memory, Base
<1>2. Null \in Address /\ GlobalAddress[f] \in Address
  BY <1>1, Addresses DEF TypeOK
<1>3. /\ r \in ThreadState /\ r.pc = pc /\ r.at = a /\ r.callee = f
      /\ r.want = NoFunction /\ r.after = "call" /\ r.res = Null
  BY <1>2 DEF Idle, ThreadState
<1>4. Goes(t, pc, a, f, NoFunction, "call", Null)
  <2>. HIDE DEF r
  <2>. QED BY <1>1, <1>3, GoesTo
<1>5. Carries(pc, a, f, NoFunction, "call", Null)
  <2>1. CASE GlobalAddress[f] # Null
    BY <1>1, <2>1, FreeServes DEF Carries, InStub, Holding
  <2>2. CASE GlobalAddress[f] = Null
    BY <2>2 DEF Carries, InStub, Holding
  <2>. QED BY <2>1, <2>2
<1>. HIDE DEF a, pc
<1>. QED BY <1>1, <1>4, <1>5, QuietServing

\* A thread enters finished code, a stub that leads on, or the resolver.
LEMMA RunServing ==
  ASSUME Base, Serving, NEW t \in Threads, Run(t), UNCHANGED LazyDisabled
  PROVE  Serving'
<1>. DEFINE a == th[t].at
            f == th[t].callee
<1>1. TypeOK /\ UNCHANGED <<job, LazyDisabled, maps, stub, code>> /\ th[t].pc = "run"
  BY DEF Run, At, compiler, memory, Base
<1>2. Serves(a, f) /\ Carries("run", a, f, th[t].want, th[t].after, th[t].res)
  BY <1>1 DEF Serving, ThreadCarries, Carries
<1>3. CASE a = Outside
  <2>1. Goes(t, "idle", Null, NoFunction, NoFunction, "call", Null)
    BY <1>1, <1>3, RunGoes
  <2>2. Carries("idle", Null, NoFunction, NoFunction, "call", Null)
    BY DEF Carries, InStub, Holding
  <2>. QED BY <1>1, <2>1, <2>2, QuietServing
<1>4. CASE a \in Codes /\ Live(a)
  <2>1. Goes(t, "body", a, f, th[t].want, th[t].after, th[t].res)
    BY <1>1, <1>4, RunGoes
  <2>2. Carries("body", a, f, th[t].want, th[t].after, th[t].res)
    BY <1>2 DEF Carries, InStub, Holding
  <2>. HIDE DEF a, f
  <2>. QED BY <1>1, <2>1, <2>2, QuietServing
<1>5. CASE a \in Stubs /\ stub[a] = Resolver
  <2>1. Goes(t, "lookup", a, f, th[t].want, th[t].after, th[t].res)
    BY <1>1, <1>5, RunGoes
  <2>2. Carries("lookup", a, f, th[t].want, th[t].after, th[t].res)
    BY <1>2, <1>5 DEF Carries, InStub, Holding
  <2>. HIDE DEF a, f
  <2>. QED BY <1>1, <2>1, <2>2, QuietServing
<1>6. CASE a \in Stubs /\ stub[a] = Torn
  <2>1. Goes(t, "torn", a, f, th[t].want, th[t].after, th[t].res)
    BY <1>1, <1>6, RunGoes
  <2>2. Carries("torn", a, f, th[t].want, th[t].after, th[t].res)
    BY DEF Carries, InStub, Holding
  <2>. HIDE DEF a, f
  <2>. QED BY <1>1, <2>1, <2>2, QuietServing
<1>7. CASE a \in Stubs /\ stub[a] \notin {Resolver, Torn}
  <2>1. Serves(stub[a], f)
    <3>1. stub[a] # Unused /\ StubToFunction[a] = f
      BY <1>2, <1>7, Addresses DEF Serves
    <3>. QED BY <1>7, <3>1 DEF Serving, StubsServe
  <2>2. stub[a] \in Address
    BY <2>1, Addresses DEF Serves
  <2>3. Goes(t, "run", stub[a], f, th[t].want, th[t].after, th[t].res)
    BY <1>1, <1>7, <2>2, RunGoes
  <2>4. Carries("run", stub[a], f, th[t].want, th[t].after, th[t].res)
    BY <2>1 DEF Carries, InStub, Holding
  <2>. HIDE DEF a, f
  <2>. QED BY <1>1, <2>3, <2>4, QuietServing
<1>. QED BY <1>2, <1>3, <1>4, <1>5, <1>6, <1>7 DEF Serves

LEMMA CallServing ==
  ASSUME Base, Serving, NEW t \in Threads, Call(t), UNCHANGED LazyDisabled
  PROVE  Serving'
<1>1. TypeOK /\ UNCHANGED <<job, LazyDisabled, maps, stub, code>> /\ th[t].pc = "body"
  BY DEF Call, At, compiler, memory, Base
<1>2. th[t].at \in Codes
  BY <1>1 DEF Base, LocalsRight, Local
<1>3. PICK g \in Functions :
        /\ code[th[t].at].refs[g] # Null
        /\ Goes(t, "run", code[th[t].at].refs[g], g, NoFunction, "call", Null)
  BY <1>1, <1>2, CallGoes
<1>. DEFINE a == code[th[t].at].refs[g]
<1>4. Serves(a, g)
  BY <1>2, <1>3 DEF Serving, RefsServe
<1>5. Carries("run", a, g, NoFunction, "call", Null)
  BY <1>4 DEF Carries, InStub, Holding
<1>. HIDE DEF a
<1>6. Goes(t, "run", a, g, NoFunction, "call", Null)
  BY <1>3 DEF a
<1>. QED BY <1>1, <1>5, <1>6, QuietServing

LEMMA LeaveServing ==
  ASSUME Base, Serving, NEW t \in Threads, ReturnFromBody(t), UNCHANGED LazyDisabled
  PROVE  Serving'
<1>1. TypeOK /\ UNCHANGED <<job, LazyDisabled, maps, stub, code>>
  BY DEF ReturnFromBody, compiler, memory, Base
<1>2. Goes(t, "idle", Null, NoFunction, NoFunction, "call", Null)
  BY <1>1, ReturnFromBodyGoes
<1>3. Carries("idle", Null, NoFunction, NoFunction, "call", Null)
  BY DEF Carries, InStub, Holding
<1>. QED BY <1>1, <1>2, <1>3, QuietServing

\* The resolver finds the function that the stub was made for.
LEMMA FindStubServing ==
  ASSUME Base, Serving, NEW t \in Threads, FindStub(t), UNCHANGED LazyDisabled
  PROVE  Serving'
<1>. DEFINE a == th[t].at
            f == th[t].callee
<1>1. TypeOK /\ UNCHANGED <<job, LazyDisabled, maps, stub, code>> /\ th[t].pc = "lookup"
  BY DEF FindStub, At, compiler, memory, Base
<1>2. a \in Stubs /\ Serves(a, f)
  BY <1>1 DEF Serving, ThreadCarries, Carries, InStub
<1>3. StubToFunction[a] = f /\ f \in Functions
  BY <1>2, Addresses DEF Serves, Serving, StubsServe
<1>4. Goes(t, "check", a, f, f, th[t].after, th[t].res)
  BY <1>1, <1>2, <1>3, FindStubGoes
<1>5. Carries("check", a, f, f, th[t].after, th[t].res)
  BY <1>2 DEF Carries, InStub, Holding
<1>. HIDE DEF a, f
<1>. QED BY <1>1, <1>4, <1>5, QuietServing

LEMMA CheckServing ==
  ASSUME Base, Published, Serving, NEW t \in Threads, CheckCompiled(t), UNCHANGED LazyDisabled
  PROVE  Serving'
<1>. DEFINE a == th[t].at
            f == th[t].want
            g == th[t].callee
<1>1. TypeOK /\ UNCHANGED <<job, LazyDisabled, maps, stub, code>> /\ th[t].pc = "check" /\ lock = NoThread
  BY DEF CheckCompiled, At, compiler, memory, Base
<1>2. a \in Stubs /\ Serves(a, g) /\ f = g
  BY <1>1 DEF Serving, ThreadCarries, Carries, InStub
<1>3. f \in Functions
  BY <1>1 DEF Base, LocalsRight, Local
<1>4. CASE GlobalAddress[f] # Null /\ Goes(t, "erase", a, g, f, th[t].after, GlobalAddress[f])
  <2>1. Carries("erase", a, g, f, th[t].after, GlobalAddress[f])
    BY <1>1, <1>2, <1>3, <1>4, FreeServes DEF Carries, InStub, Holding
  <2>. HIDE DEF a, f, g
  <2>. QED BY <1>1, <1>4, <2>1, QuietServing
<1>5. CASE Goes(t, "acquire", a, g, f, "erase", th[t].res)
  <2>1. Carries("acquire", a, g, f, "erase", th[t].res)
    BY <1>2 DEF Carries, InStub, Holding
  <2>. HIDE DEF a, f, g
  <2>. QED BY <1>1, <1>5, <2>1, QuietServing
<1>. QED BY <1>1, <1>3, <1>4, <1>5, CheckCompiledGoes

LEMMA StubFoundServing ==
  ASSUME Base, Serving, NEW t \in Threads, GetFunctionStub(t), UNCHANGED LazyDisabled,
         FunctionToStub[th[t].callee] # Null
  PROVE  Serving'
<1>. DEFINE a == FunctionToStub[th[t].callee]
            r == [th[t] EXCEPT !.pc = "run", !.at = a]
<1>1. /\ TypeOK /\ th[t].pc = "stub" /\ UNCHANGED <<job, LazyDisabled, maps, stub, code>>
      /\ th' = [th EXCEPT ![t] = r]
  BY DEF Base, GetFunctionStub, At, compiler
<1>2. /\ th[t] \in ThreadState /\ th[t].after \in {"call", "erase"} /\ th[t].callee \in Functions
  BY <1>1 DEF Base, LocalsRight, Local, Locks, Holding, ThreadState
<1>3. a \in Stubs /\ a \in Address /\ stub[a] # Unused /\ StubToFunction[a] = th[t].callee
  BY <1>1, <1>2, Addresses DEF TypeOK, Base, Filings
<1>. HIDE DEF a
<1>4. /\ r \in ThreadState /\ r.pc = "run" /\ r.at = a /\ r.callee = th[t].callee /\ r.want = th[t].want
      /\ r.after = th[t].after /\ r.res = th[t].res
  BY <1>2, <1>3 DEF ThreadState
<1>5. Goes(t, "run", a, th[t].callee, th[t].want, th[t].after, th[t].res)
  <2>. HIDE DEF r
  <2>. QED BY <1>1, <1>4, GoesTo
<1>6. Carries("run", a, th[t].callee, th[t].want, th[t].after, th[t].res)
  BY <1>2, <1>3 DEF Carries, InStub, Holding, Serves
<1>. QED BY <1>1, <1>5, <1>6, QuietServing

\* The function was compiled while the thread waited for the lock.
LEMMA AcquireFoundServing ==
  ASSUME Base, Published, Serving, NEW t \in Threads, Acquire(t), UNCHANGED LazyDisabled,
         GlobalAddress[th[t].want] # Null
  PROVE  Serving'
<1>. DEFINE f == th[t].want
            g == th[t].callee
            b == GlobalAddress[th[t].want]
<1>1. /\ TypeOK /\ UNCHANGED <<job, LazyDisabled, maps, stub, code>> /\ th[t].pc = "acquire" /\ lock = NoThread
      /\ Return(t, b)
  BY DEF Acquire, At, compiler, memory, Base
<1>2. f \in Functions /\ th[t].after \in {"call", "erase"}
  BY <1>1 DEF Base, LocalsRight, Local, ThreadState, Holding
<1>3. f = g /\ (th[t].after = "erase" => th[t].at \in Stubs /\ Serves(th[t].at, g))
  BY <1>1, <1>2 DEF Serving, ThreadCarries, Carries, InStub
<1>4. Serves(b, g) /\ b \in Address
  BY <1>1, <1>2, <1>3, FreeServes DEF TypeOK
<1>5. CASE th[t].after = "call"
  <2>1. Goes(t, "run", b, g, f, "call", th[t].res)
    BY <1>1, <1>4, <1>5, ReturnGoes
  <2>2. Carries("run", b, g, f, "call", th[t].res)
    BY <1>4 DEF Carries, InStub, Holding
  <2>. HIDE DEF b, f, g
  <2>. QED BY <1>1, <2>1, <2>2, QuietServing
<1>6. CASE th[t].after = "erase"
  <2>1. Goes(t, "erase", th[t].at, g, f, "erase", b)
    BY <1>1, <1>4, <1>6, ReturnGoes
  <2>2. Carries("erase", th[t].at, g, f, "erase", b)
    BY <1>3, <1>4, <1>6 DEF Carries, InStub, Holding
  <2>. HIDE DEF b, f, g
  <2>. QED BY <1>1, <2>1, <2>2, QuietServing
<1>. QED BY <1>2, <1>5, <1>6

-----------------------------------------------------------------------------
(***************************************************************************)
(* Steps that change the maps, the compilation or a stub.                  *)
(***************************************************************************)
\* Stubs and code stay; addresses are forgotten, or found outside.
LEMMA MapsServing ==
  ASSUME Base, Serving, NEW t \in Threads,
         NEW pc, NEW at, NEW callee, NEW want, NEW after, NEW res,
         Goes(t, pc, at, callee, want, after, res),
         (\A a, f : Serves(a, f) => Serves(a, f)') => Carries(pc, at, callee, want, after, res)',
         lock \in {t, NoThread} \/ UNCHANGED <<job, GlobalAddress>>,
         UNCHANGED <<LazyDisabled, StubToFunction, PendingFunctions, stub, code>>,
         \A f \in Functions : \/ GlobalAddress'[f] = GlobalAddress[f] \/ GlobalAddress'[f] = Null
                              \/ GlobalAddress'[f] = Outside /\ f \in External
  PROVE  Serving'
<1>1. Stays
  BY DEF Stays, Live
<1>2. \A a, f : Serves(a, f) => Serves(a, f)'
  BY <1>1, ServesOn
<1>3. /\ MapServes /\ StubsServe /\ RefsServe /\ ~LazyDisabled' /\ PendingFunctions' = <<>> /\ LocalsRight
  BY DEF Serving, Base
<1>4. MapServes'
  <2>1. ASSUME NEW f \in Functions, NEW a, a = GlobalAddress'[f]
        PROVE  /\ a \in Codes => f \notin External
               /\ a \notin Codes => a = Null \/ Serves(a, f)'
    <3>1. CASE a = GlobalAddress[f]
      BY <1>2, <1>3, <3>1 DEF MapServes
    <3>2. CASE a = Null
      BY <3>2, Addresses
    <3>3. CASE a = Outside /\ f \in External
      BY <3>3, Addresses DEF Serves
    <3>. QED BY <2>1, <3>1, <3>2, <3>3
  <2>. QED BY <2>1 DEF MapServes
<1>5. StubsServe' /\ RefsServe'
  BY <1>3 DEF StubsServe, RefsServe, Serves, Live
<1>6. Carries(pc, at, callee, want, after, res)'
  BY <1>2
<1>. QED BY <1>1, <1>3, <1>4, <1>5, <1>6, ServingKept

LEMMA RecompileServing ==
  ASSUME Base, Serving, NEW t \in Threads, NEW f \in Functions,
         RecompileAndRelinkFunction(t, f), UNCHANGED LazyDisabled
  PROVE  Serving'
<1>. DEFINE r == [Idle EXCEPT !.callee = f, !.want = f,
                    !.pc = IF GlobalAddress[f] = Null THEN "acquire" ELSE "rejit"]
<1>1. /\ TypeOK /\ th' = [th EXCEPT ![t] = r] /\ f \notin External /\ lock = NoThread
      /\ GlobalAddress' = [GlobalAddress EXCEPT ![f] = Null]
      /\ UNCHANGED <<LazyDisabled, StubToFunction, PendingFunctions, stub, code>>
  BY DEF Base, RecompileAndRelinkFunction, memory
<1>2. PICK pc \in {"acquire", "rejit"} : r.pc = pc
  BY DEF Idle
<1>3. r \in ThreadState /\ r.at = Null /\ r.callee = f /\ r.want = f /\ r.after = "call" /\ r.res = Null
  BY NullBuilt DEF Idle, ThreadState
<1>4. Goes(t, pc, Null, f, f, "call", Null)
  <2>. HIDE DEF r
  <2>. QED BY <1>1, <1>2, <1>3, GoesTo
<1>5. Carries(pc, Null, f, f, "call", Null)'
  BY <1>1, <1>2 DEF Carries, InStub, Holding
<1>6. \A h \in Functions : GlobalAddress'[h] = GlobalAddress[h] \/ GlobalAddress'[h] = Null
  BY <1>1 DEF TypeOK
<1>. QED BY <1>1, <1>4, <1>5, <1>6, MapsServing

LEMMA AcquireExternalServing ==
  ASSUME Base, Serving, NEW t \in Threads, Acquire(t), UNCHANGED LazyDisabled,
         GlobalAddress[th[t].want] = Null, th[t].want \in External
  PROVE  Serving'
<1>1. PICK q : q = th[t]
  OBVIOUS
<1>2. /\ TypeOK /\ lock = NoThread /\ q.pc = "acquire" /\ q.want \in External /\ Return(t, Outside)
      /\ GlobalAddress' = [GlobalAddress EXCEPT ![q.want] = Outside]
      /\ UNCHANGED <<LazyDisabled, StubToFunction, PendingFunctions, stub, code>>
  BY <1>1 DEF Base, Acquire, At, memory
<1>3. q.want \in Functions /\ q.after \in {"call", "erase"}
  BY <1>1, <1>2 DEF Base, LocalsRight, Local, ThreadState, Holding
<1>4. q.want = q.callee /\ (q.after = "erase" => q.at \in Stubs /\ Serves(q.at, q.callee))
  BY <1>1, <1>2, <1>3 DEF Serving, ThreadCarries, Carries, InStub
<1>5. \A h \in Functions : \/ GlobalAddress'[h] = GlobalAddress[h]
                           \/ GlobalAddress'[h] = Outside /\ h \in External
  BY <1>2 DEF TypeOK
<1>6. CASE q.after = "call"
  <2>1. Goes(t, "run", Outside, q.callee, q.want, "call", q.res)
    BY <1>1, <1>2, <1>6, ReturnGoes, NullBuilt
  <2>2. Carries("run", Outside, q.callee, q.want, "call", q.res)'
    BY <1>2, <1>4 DEF Carries, InStub, Holding, Serves
  <2>. QED BY <1>2, <1>5, <2>1, <2>2, MapsServing
<1>7. CASE q.after = "erase"
  <2>1. Goes(t, "erase", q.at, q.callee, q.want, "erase", Outside)
    BY <1>1, <1>2, <1>7, ReturnGoes, NullBuilt
  <2>2. ASSUME \A a, f : Serves(a, f) => Serves(a, f)'
        PROVE  Carries("erase", q.at, q.callee, q.want, "erase", Outside)'
    <3>1. Serves(q.at, q.callee)' /\ q.at \in Stubs
      BY <1>4, <1>7, <2>2
    <3>2. Serves(Outside, q.callee)'
      BY <1>2, <1>4 DEF Serves
    <3>. QED BY <3>1, <3>2 DEF Carries, InStub, Holding
  <2>. QED BY <1>2, <1>5, <2>1, <2>2, MapsServing
<1>. QED BY <1>3, <1>6, <1>7

LEMMA EraseStubServing ==
  ASSUME Base, Serving, NEW t \in Threads, EraseStub(t), UNCHANGED LazyDisabled
  PROVE  Serving'
<1>1. PICK q : q = th[t]
  OBVIOUS
<1>2. /\ TypeOK /\ lock = NoThread /\ q.pc = "erase" /\ Goto(t, "patch")
      /\ UNCHANGED <<LazyDisabled, GlobalAddress, StubToFunction, PendingFunctions, stub, code>>
  BY <1>1 DEF Base, EraseStub, At, memory
<1>3. Goes(t, "patch", q.at, q.callee, q.want, q.after, q.res)
  BY <1>1, <1>2, GotoGoes DEF PCs
<1>4. q.at \in Stubs /\ Serves(q.at, q.callee) /\ Serves(q.res, q.callee)
  BY <1>1, <1>2 DEF Serving, ThreadCarries, Carries, InStub
<1>5. ASSUME \A a, f : Serves(a, f) => Serves(a, f)'
      PROVE  Carries("patch", q.at, q.callee, q.want, q.after, q.res)'
  <2>1. Serves(q.at, q.callee)' /\ Serves(q.res, q.callee)'
    BY <1>4, <1>5
  <2>. QED BY <1>4, <2>1 DEF Carries, InStub, Holding
<1>. QED BY <1>2, <1>3, <1>5, MapsServing

\* A compilation begins.
LEMMA BeginServing ==
  ASSUME Base, Serving, NEW t \in Threads, NEW at, NEW callee, NEW want, NEW after, NEW res,
         Goes(t, "start", at, callee, want, after, res), lock = NoThread,
         after = "erase" => at \in Stubs /\ Serves(at, callee),
         after \in {"call", "erase"} => want = callee,
         want \in Functions, want \notin External, job' = Begin(want),
         UNCHANGED <<LazyDisabled, maps, stub, code>>
  PROVE  Serving'
<1>1. ASSUME \A a, f : Serves(a, f) => Serves(a, f)'
      PROVE  Carries("start", at, callee, want, after, res)'
  <2>1. after = "erase" => Serves(at, callee)'
    BY <1>1
  <2>2. job'.fn = want /\ ~job'.queued
    BY BeginFields
  <2>. QED BY <2>1, <2>2 DEF Carries, InStub, Holding
<1>. QED BY <1>1, MapsServing DEF maps

LEMMA RunJITServing ==
  ASSUME Base, Serving, NEW t \in Threads, NEW f \in Functions, RunJITOnFunction(t, f), UNCHANGED LazyDisabled
  PROVE  Serving'
<1>. DEFINE r == [Idle EXCEPT !.pc = "start", !.want = f, !.after = "report"]
<1>1. /\ TypeOK /\ th' = [th EXCEPT ![t] = r] /\ f \notin External /\ lock = NoThread /\ job' = Begin(f)
      /\ UNCHANGED <<LazyDisabled, maps, stub, code>>
  BY DEF Base, RunJITOnFunction, memory
<1>2. /\ r \in ThreadState /\ r.pc = "start" /\ r.at = Null /\ r.callee = NoFunction /\ r.want = f
      /\ r.after = "report" /\ r.res = Null
  BY NullBuilt DEF Idle, ThreadState
<1>3. Goes(t, "start", Null, NoFunction, f, "report", Null)
  <2>. HIDE DEF r
  <2>. QED BY <1>1, <1>2, GoesTo
<1>. QED BY <1>1, <1>3, BeginServing

LEMMA RejitServing ==
  ASSUME Base, Serving, NEW t \in Threads, Rejit(t), UNCHANGED LazyDisabled
  PROVE  Serving'
<1>1. PICK q : q = th[t]
  OBVIOUS
<1>. DEFINE r == [q EXCEPT !.pc = "start", !.after = "relink"]
<1>2. /\ TypeOK /\ q.pc = "rejit" /\ th' = [th EXCEPT ![t] = r] /\ lock = NoThread /\ job' = Begin(q.want)
      /\ UNCHANGED <<LazyDisabled, maps, stub, code>>
  BY <1>1 DEF Base, Rejit, At, memory
<1>3. q \in ThreadState /\ q.want \in Functions /\ q.want \notin External
  <2>1. q \in ThreadState /\ q.want \in Functions
    BY <1>1, <1>2 DEF Base, LocalsRight, Local
  <2>2. q.want \notin External
    BY <1>1, <1>2 DEF Serving, ThreadCarries, Carries
  <2>. QED BY <2>1, <2>2
<1>4. /\ r \in ThreadState /\ r.pc = "start" /\ r.at = q.at /\ r.callee = q.callee /\ r.want = q.want
      /\ r.after = "relink" /\ r.res = q.res
  BY <1>3 DEF ThreadState
<1>5. Goes(t, "start", q.at, q.callee, q.want, "relink", q.res)
  <2>. HIDE DEF r
  <2>. QED BY <1>2, <1>4, GoesTo
<1>. QED BY <1>2, <1>3, <1>5, BeginServing

LEMMA AcquireServing ==
  ASSUME Base, Serving, NEW t \in Threads, Acquire(t), UNCHANGED LazyDisabled,
         GlobalAddress[th[t].want] = Null, th[t].want \notin External
  PROVE  Serving'
<1>1. PICK q : q = th[t]
  OBVIOUS
<1>2. /\ TypeOK /\ q.pc = "acquire" /\ Goto(t, "start") /\ lock = NoThread /\ job' = Begin(q.want)
      /\ UNCHANGED <<LazyDisabled, maps, stub, code>>
  BY <1>1 DEF Base, Acquire, At, memory
<1>3. Goes(t, "start", q.at, q.callee, q.want, q.after, q.res)
  BY <1>1, <1>2, GotoGoes DEF PCs
<1>4. q.want \in Functions
  BY <1>1, <1>2 DEF Base, LocalsRight, Local
<1>5. /\ q.after = "erase" => q.at \in Stubs /\ Serves(q.at, q.callee)
      /\ q.after \in {"call", "erase"} => q.want = q.callee
  BY <1>1, <1>2 DEF Serving, ThreadCarries, Carries, InStub
<1>. QED BY <1>1, <1>2, <1>3, <1>4, <1>5, BeginServing

\* A stub is made to jump elsewhere.
LEMMA StoreServing ==
  ASSUME Base, Serving, NEW t \in Threads,
         NEW pc, NEW at, NEW callee, NEW want, NEW after, NEW res,
         Goes(t, pc, at, callee, want, after, res), Carries(pc, at, callee, want, after, res), pc \notin Holding,
         NEW s \in Stubs, stub[s] # Unused, NEW v,
         v = Torn \/ v = stub[s] \/ Serves(v, StubToFunction[s]),
         stub' = [stub EXCEPT ![s] = v], UNCHANGED <<job, LazyDisabled, maps, code>>
  PROVE  Serving'
<1>1. v # Unused
  BY Addresses DEF Serves
<1>2. /\ TypeOK /\ LocalsRight /\ stub \in [Stubs -> Address \cup {Resolver, Torn, Unused}]
      /\ GlobalAddress' = GlobalAddress /\ StubToFunction' = StubToFunction /\ PendingFunctions' = PendingFunctions
  BY DEF Base, TypeOK, maps
<1>3. stub'[s] = v /\ \A r \in Stubs : r # s => stub'[r] = stub[r]
  BY <1>2
<1>4. Stays
  BY <1>1, <1>2, <1>3 DEF Stays, Live
<1>5. \A a, f : Serves(a, f) => Serves(a, f)'
  BY <1>4, ServesOn
<1>6. MapServes /\ StubsServe /\ RefsServe /\ ~LazyDisabled' /\ PendingFunctions' = <<>>
  BY <1>2 DEF Serving
<1>7. MapServes'
  <2>1. ASSUME NEW f \in Functions, NEW a, a = GlobalAddress[f]
        PROVE  /\ a \in Codes => f \notin External
               /\ a \notin Codes => a = Null \/ Serves(a, f)'
    BY <1>5, <1>6, <2>1 DEF MapServes
  <2>. QED BY <1>2, <2>1 DEF MapServes
<1>8. StubsServe'
  <2>1. ASSUME NEW r \in Stubs, stub'[r] # Unused, NEW a, a = stub'[r], NEW f, f = StubToFunction[r]
        PROVE  f \in Functions /\ (a \in {Resolver, Torn} \/ Serves(a, f)')
    <3>1. stub[r] # Unused
      BY <1>3, <2>1
    <3>2. f \in Functions /\ (stub[r] \in {Resolver, Torn} \/ Serves(stub[r], f))
      BY <1>6, <2>1, <3>1 DEF StubsServe
    <3>3. a \in {Resolver, Torn} \/ Serves(a, f)
      BY <1>3, <2>1, <3>2
    <3>. QED BY <1>5, <3>2, <3>3
  <2>. QED BY <1>2, <2>1 DEF StubsServe
<1>9. RefsServe'
  <2>1. ASSUME NEW c \in Codes, NEW g \in Functions, NEW a, a = code[c].refs[g]
        PROVE  a = Null \/ (a \in Stubs /\ Serves(a, g)')
    BY <1>5, <1>6, <2>1 DEF RefsServe
  <2>. QED BY <2>1 DEF RefsServe
<1>10. Carries(pc, at, callee, want, after, res)'
  BY <1>4, CarriesOn DEF Holding
<1>. QED BY <1>2, <1>4, <1>6, <1>7, <1>8, <1>9, <1>10, ServingKept

LEMMA TearServing ==
  ASSUME Base, Serving, NEW t \in Threads, TearStub(t), UNCHANGED LazyDisabled
  PROVE  Serving'
<1>1. PICK q : q = th[t]
  OBVIOUS
<1>. DEFINE v == IF stub[q.at] = Resolver THEN Torn ELSE stub[q.at]
<1>2. /\ TypeOK /\ q.pc = "patch" /\ Goto(t, "mend") /\ UNCHANGED <<job, LazyDisabled, maps, code>>
      /\ stub' = [stub EXCEPT ![q.at] = v]
  BY <1>1 DEF Base, TearStub, At, compiler
<1>3. Goes(t, "mend", q.at, q.callee, q.want, q.after, q.res)
  BY <1>1, <1>2, GotoGoes DEF PCs
<1>4. q.at \in Stubs /\ Serves(q.at, q.callee) /\ Serves(q.res, q.callee)
  BY <1>1, <1>2 DEF Serving, ThreadCarries, Carries, InStub
<1>5. Carries("mend", q.at, q.callee, q.want, q.after, q.res)
  BY <1>4 DEF Carries, InStub, Holding
<1>6. stub[q.at] # Unused
  BY <1>4, Addresses DEF Serves
<1>7. v = Torn \/ v = stub[q.at]
  OBVIOUS
<1>8. "mend" \notin Holding
  BY DEF Holding
<1>. HIDE DEF v
<1>. QED BY <1>2, <1>3, <1>4, <1>5, <1>6, <1>7, <1>8, StoreServing

LEMMA MendServing ==
  ASSUME Base, Serving, NEW t \in Threads, MendStub(t), UNCHANGED LazyDisabled
  PROVE  Serving'
<1>1. PICK q : q = th[t]
  OBVIOUS
<1>2. /\ TypeOK /\ q.pc = "mend" /\ Goto(t, "run") /\ UNCHANGED <<job, LazyDisabled, maps, code>>
      /\ stub' = [stub EXCEPT ![q.at] = q.res]
  BY <1>1 DEF Base, MendStub, At, compiler
<1>3. Goes(t, "run", q.at, q.callee, q.want, q.after, q.res)
  BY <1>1, <1>2, GotoGoes DEF PCs
<1>4. q.at \in Stubs /\ Serves(q.at, q.callee) /\ Serves(q.res, q.callee)
  BY <1>1, <1>2 DEF Serving, ThreadCarries, Carries, InStub
<1>5. Carries("run", q.at, q.callee, q.want, q.after, q.res)
  BY <1>4 DEF Carries, InStub, Holding
<1>6. stub[q.at] # Unused /\ Serves(q.res, StubToFunction[q.at])
  BY <1>4, Addresses DEF Serves
<1>7. "run" \notin Holding
  BY DEF Holding
<1>. QED BY <1>2, <1>3, <1>4, <1>5, <1>6, <1>7, StoreServing

-----------------------------------------------------------------------------
(***************************************************************************)
(* Steps that make stubs, and the steps of the compilation.                *)
(***************************************************************************)
\* A lazy stub calls the resolver, and one of an external function is all
\* there is of it.
LEMMA EmitServing ==
  ASSUME Base, Serving, NEW g \in Functions, NEW s \in FreshStubs, EmitStub(g, s), UNCHANGED LazyDisabled,
         \A c \in Codes : Live(c) => code'[c].state = "done" /\ code'[c].fn = code[c].fn
  PROVE  /\ Stays /\ MapServes' /\ StubsServe' /\ PendingFunctions' = <<>> /\ ~LazyDisabled'
         /\ s \in Stubs /\ Serves(s, g)'
         /\ \A f \in Functions \ External : GlobalAddress'[f] = GlobalAddress[f]
<1>1. /\ s \in Stubs /\ stub[s] = Unused /\ stub'[s] # Unused /\ StubToFunction'[s] = g
      /\ \A r \in Stubs : r # s => stub'[r] = stub[r] /\ StubToFunction'[r] = StubToFunction[r]
      /\ \A f \in Functions : GlobalAddress'[f] \in {GlobalAddress[f], s}
      /\ ~LazyDisabled => PendingFunctions' = PendingFunctions
  BY StubEmitted
<1>2. TypeOK /\ MapServes /\ StubsServe /\ ~LazyDisabled /\ PendingFunctions = <<>>
  BY DEF Base, Serving
<1>3. Stays
  BY <1>1 DEF Stays
<1>4. \A a, f : Serves(a, f) => Serves(a, f)'
  BY <1>3, ServesOn
<1>5. Serves(s, g)'
  BY <1>1 DEF Serves
<1>6. \A f \in Functions : GlobalAddress'[f] # GlobalAddress[f] => f \in External /\ f = g
  <2>. DEFINE a == ActualTarget(g)
  <2>1. a = Resolver \/ g \in External
    BY <1>2 DEF ActualTarget
  <2>2. GlobalAddress' = IF a = Resolver THEN GlobalAddress ELSE [GlobalAddress EXCEPT ![g] = s]
    BY DEF EmitStub
  <2>. HIDE DEF a
  <2>. QED BY <1>2, <2>1, <2>2 DEF TypeOK
<1>7. MapServes'
  <2>1. ASSUME NEW f \in Functions, NEW a, a = GlobalAddress'[f]
        PROVE  /\ a \in Codes => f \notin External
               /\ a \notin Codes => a = Null \/ Serves(a, f)'
    <3>1. CASE a = GlobalAddress[f]
      BY <1>2, <1>4, <3>1 DEF MapServes
    <3>2. CASE a # GlobalAddress[f]
      <4>1. a = s /\ f = g
        BY <1>1, <1>6, <2>1, <3>2
      <4>. QED BY <1>1, <1>5, <4>1, Addresses
    <3>. QED BY <3>1, <3>2
  <2>. QED BY <2>1 DEF MapServes
<1>8. stub'[s] = Resolver \/ Serves(stub'[s], g)
  <2>1. stub'[s] = ActualTarget(g)
    BY <1>1, <1>2 DEF EmitStub, TypeOK
  <2>2. CASE g \in External
    BY <1>2, <2>1, <2>2, Addresses DEF ActualTarget, MapServes, Serves
  <2>3. CASE g \notin External
    BY <1>2, <2>1, <2>3 DEF ActualTarget
  <2>. QED BY <2>2, <2>3
<1>9. StubsServe'
  <2>1. ASSUME NEW r \in Stubs, stub'[r] # Unused, NEW a, a = stub'[r], NEW f, f = StubToFunction'[r]
        PROVE  f \in Functions /\ (a \in {Resolver, Torn} \/ Serves(a, f)')
    <3>1. CASE r = s
      BY <1>1, <1>4, <1>8, <2>1, <3>1
    <3>2. CASE r # s
      BY <1>1, <1>2, <1>4, <2>1, <3>2 DEF StubsServe
    <3>. QED BY <3>1, <3>2
  <2>. QED BY <2>1 DEF StubsServe
<1>10. PendingFunctions' = <<>> /\ ~LazyDisabled'
  BY <1>1, <1>2
<1>11. \A f \in Functions \ External : GlobalAddress'[f] = GlobalAddress[f]
  BY <1>6
<1>. QED BY <1>1, <1>3, <1>5, <1>7, <1>9, <1>10, <1>11

\* What code refers to still serves when references stay.
LEMMA RefsServeOn ==
  ASSUME Serving, Stays, \A c \in Codes : code'[c].refs = code[c].refs
  PROVE  RefsServe'
<1>1. \A a, f : Serves(a, f) => Serves(a, f)'
  BY ServesOn
<1>2. ASSUME NEW c \in Codes, NEW g \in Functions, NEW a, a = code[c].refs[g]
      PROVE  a = Null \/ (a \in Stubs /\ Serves(a, g)')
  BY <1>1, <1>2 DEF Serving, RefsServe
<1>. QED BY <1>2 DEF RefsServe

LEMMA StubMadeServing ==
  ASSUME Base, Serving, NEW t \in Threads, GetFunctionStub(t), UNCHANGED LazyDisabled,
         FunctionToStub[th[t].callee] = Null
  PROVE  Serving'
<1>1. PICK q : q = th[t]
  OBVIOUS
<1>2. /\ q.callee \in Functions /\ lock = NoThread /\ code' = code
  BY <1>1, StubMadeDoes
<1>3. PICK s \in FreshStubs : /\ EmitStub(q.callee, s)
                              /\ Goes(t, "run", s, q.callee, q.want, q.after, q.res)
  BY <1>1, StubMadeDoes
<1>4. /\ Stays /\ MapServes' /\ StubsServe' /\ PendingFunctions' = <<>> /\ ~LazyDisabled'
      /\ s \in Stubs /\ Serves(s, q.callee)'
  BY <1>2, <1>3, EmitServing DEF Live
<1>5. RefsServe'
  BY <1>2, <1>4, RefsServeOn
<1>6. Carries("run", s, q.callee, q.want, q.after, q.res)'
  BY <1>4 DEF Carries, InStub, Holding
<1>. QED BY <1>2, <1>3, <1>4, <1>5, <1>6, ServingKept DEF Base

\* A reference is written: to a stub of the function it names.
LEMMA RelocateServing ==
  ASSUME Base, Serving, NEW t \in Threads, Relocate(t), UNCHANGED LazyDisabled
  PROVE  Serving'
<1>1. PICK q : q = th[t]
  OBVIOUS
<1>2. /\ TypeOK /\ th' = th /\ q.pc = "emit" /\ lock = t /\ job.body \in Codes /\ ~LazyDisabled
      /\ code[job.body].state = "emitting" /\ job.todo # <<>>
  BY <1>1, RelocateFields DEF Base, Serving, Relocate
<1>3. PICK g \in Functions, s \in Stubs :
        /\ Resolve(g, s)
        /\ \/ FunctionToStub[g] = s /\ UNCHANGED <<maps, stub>>
           \/ s \in FreshStubs /\ EmitStub(g, s)
  BY <1>2, RelocateDoes
<1>4. /\ job'.fn = job.fn /\ job'.body = job.body /\ job'.queued = job.queued
      /\ \A d \in Codes : /\ d # job.body => code'[d] = code[d]
                          /\ code'[d].fn = code[d].fn /\ code'[d].state = code[d].state
      /\ code'[job.body].refs[g] = s
      /\ \A h \in Functions : h # g => code'[job.body].refs[h] = code[job.body].refs[h]
  <2>1. s \in Address
    BY Addresses
  <2>. QED BY <1>2, <1>3, <2>1, ResolveFields
<1>5. \A c \in Codes : Live(c) => code'[c].state = "done" /\ code'[c].fn = code[c].fn
  BY <1>4 DEF Live
<1>6. /\ Stays /\ MapServes' /\ StubsServe' /\ PendingFunctions' = <<>> /\ ~LazyDisabled' /\ Serves(s, g)'
      /\ \A f \in Functions \ External : GlobalAddress'[f] = GlobalAddress[f]
  <2>1. CASE FunctionToStub[g] = s /\ UNCHANGED <<maps, stub>>
    <3>1. /\ GlobalAddress' = GlobalAddress /\ StubToFunction' = StubToFunction /\ stub' = stub
          /\ PendingFunctions' = PendingFunctions
      BY <2>1 DEF maps
    <3>2. Stays
      BY <1>5, <3>1 DEF Stays
    <3>3. \A a, f : Serves(a, f) => Serves(a, f)'
      BY <3>2, ServesOn
    <3>4. MapServes'
      <4>1. ASSUME NEW f \in Functions, NEW a, a = GlobalAddress[f]
            PROVE  /\ a \in Codes => f \notin External
                   /\ a \notin Codes => a = Null \/ Serves(a, f)'
        BY <3>3, <4>1 DEF Serving, MapServes
      <4>. QED BY <3>1, <4>1 DEF MapServes
    <3>5. StubsServe'
      <4>1. ASSUME NEW r \in Stubs, stub[r] # Unused, NEW a, a = stub[r], NEW f, f = StubToFunction[r]
            PROVE  f \in Functions /\ (a \in {Resolver, Torn} \/ Serves(a, f)')
        BY <3>3, <4>1 DEF Serving, StubsServe
      <4>. QED BY <3>1, <4>1 DEF StubsServe
    <3>6. Serves(s, g)
      BY <2>1, Addresses DEF Base, Filings, Serves
    <3>. QED BY <3>1, <3>2, <3>3, <3>4, <3>5, <3>6 DEF Serving
  <2>2. CASE s \in FreshStubs /\ EmitStub(g, s)
    BY <1>5, <2>2, EmitServing
  <2>. QED BY <1>3, <2>1, <2>2
<1>7. RefsServe'
  <2>1. \A a, f : Serves(a, f) => Serves(a, f)'
    BY <1>6, ServesOn
  <2>2. ASSUME NEW c \in Codes, NEW h \in Functions, NEW a, a = code'[c].refs[h]
        PROVE  a = Null \/ (a \in Stubs /\ Serves(a, h)')
    <3>1. CASE c = job.body /\ h = g
      BY <1>4, <1>6, <2>2, <3>1
    <3>2. CASE ~(c = job.body /\ h = g)
      BY <1>4, <2>1, <2>2, <3>2 DEF Serving, RefsServe
    <3>. QED BY <3>1, <3>2
  <2>. QED BY <2>2 DEF RefsServe
<1>8. Goes(t, "emit", q.at, q.callee, q.want, q.after, q.res)
  BY <1>1, <1>2, StaysGoes
<1>9. Carries("emit", q.at, q.callee, q.want, q.after, q.res)'
  <2>1. Carries("emit", q.at, q.callee, q.want, q.after, q.res) /\ q.want \in Functions
    BY <1>1, <1>2 DEF Serving, ThreadCarries, Base, LocalsRight, Local, Holding
  <2>2. GlobalAddress'[q.want] = GlobalAddress[q.want]
    BY <1>6, <2>1 DEF Carries, Holding
  <2>3. GlobalAddress'[q.want] = job'.body
    BY <1>4, <2>1, <2>2 DEF Carries
  <2>. QED BY <1>4, <1>6, <2>1, <2>3, CarriesOn
<1>. QED BY <1>2, <1>6, <1>7, <1>8, <1>9, ServingKept DEF Base

LEMMA StartServing ==
  ASSUME Base, Serving, NEW t \in Threads, StartFunction(t), UNCHANGED LazyDisabled
  PROVE  Serving'
<1>1. PICK q : q = th[t]
  OBVIOUS
<1>2. /\ TypeOK /\ q.pc = "start" /\ job.fn \in Functions /\ lock = t
      /\ Goes(t, "emit", q.at, q.callee, q.want, q.after, q.res)
      /\ UNCHANGED <<LazyDisabled, StubToFunction, PendingFunctions, stub>>
  BY <1>1, StartFunctionDoes DEF Base
<1>3. PICK c \in Codes :
        /\ code[c].state = "none" /\ BeginsBody(job.fn, c)
        /\ GlobalAddress' = [GlobalAddress EXCEPT ![job.fn] = c]
        /\ job'.fn = job.fn /\ job'.body = c
  BY StartFunctionDoes
<1>4. job'.queued = job.queued
  BY <1>2 DEF StartFunction, TypeOK
<1>5. /\ \A d \in Codes : d # c => code'[d] = code[d]
      /\ \A d \in Codes : code'[d].refs = code[d].refs
  <2>1. code'[c].refs = code[c].refs /\ \A d \in Codes : d # c => code'[d] = code[d]
    BY <1>2, <1>3, StartFields
  <2>. QED BY <2>1
<1>6. /\ GlobalAddress'[job.fn] = c
      /\ \A f \in Functions : f # job.fn => GlobalAddress'[f] = GlobalAddress[f]
  BY <1>2, <1>3 DEF TypeOK
<1>7. Stays
  BY <1>2, <1>3, <1>5 DEF Stays, Live
<1>8. \A a, f : Serves(a, f) => Serves(a, f)'
  BY <1>7, ServesOn
<1>9. /\ Carries("start", q.at, q.callee, q.want, q.after, q.res)
      /\ job.fn = q.want /\ ~job.queued /\ q.want \notin External
  BY <1>1, <1>2 DEF Serving, ThreadCarries, Carries, Holding
<1>10. MapServes'
  <2>1. ASSUME NEW f \in Functions, NEW a, a = GlobalAddress'[f]
        PROVE  /\ a \in Codes => f \notin External
               /\ a \notin Codes => a = Null \/ Serves(a, f)'
    <3>1. CASE f = job.fn
      BY <1>6, <1>9, <2>1, <3>1
    <3>2. CASE f # job.fn
      BY <1>6, <1>8, <2>1, <3>2 DEF Serving, MapServes
    <3>. QED BY <3>1, <3>2
  <2>. QED BY <2>1 DEF MapServes
<1>11. StubsServe'
  <2>1. ASSUME NEW r \in Stubs, stub[r] # Unused, NEW a, a = stub[r], NEW f, f = StubToFunction[r]
        PROVE  f \in Functions /\ (a \in {Resolver, Torn} \/ Serves(a, f)')
    BY <1>8, <2>1 DEF Serving, StubsServe
  <2>. QED BY <1>2, <2>1 DEF StubsServe
<1>12. RefsServe'
  BY <1>5, <1>7, RefsServeOn
<1>13. Carries("emit", q.at, q.callee, q.want, q.after, q.res)'
  <2>1. q.after = "erase" => q.at \in Stubs /\ Serves(q.at, q.callee)
    BY <1>9 DEF Carries, InStub, Holding
  <2>2. q.after = "erase" => Serves(q.at, q.callee)'
    BY <1>8, <2>1
  <2>3. q.after \in {"call", "erase"} => q.want = q.callee
    BY <1>9 DEF Carries, Holding
  <2>4. GlobalAddress'[q.want] = job'.body /\ job'.fn = q.want /\ ~job'.queued
    BY <1>3, <1>4, <1>6, <1>9
  <2>. QED BY <1>9, <2>1, <2>2, <2>3, <2>4 DEF Carries, InStub, Holding
<1>14. ~LazyDisabled' /\ PendingFunctions' = <<>>
  BY <1>2 DEF Serving
<1>. QED BY <1>2, <1>7, <1>10, <1>11, <1>12, <1>13, <1>14, ServingKept DEF Base

\* The body that is emitted changes its state, and nothing else but it and
\* what its thread does.
LEMMA EmittedServing ==
  ASSUME Base, Serving, NEW t \in Threads, lock = t,
         NEW pc, NEW at, NEW callee, NEW want, NEW after, NEW res,
         Goes(t, pc, at, callee, want, after, res), Carries(pc, at, callee, want, after, res)',
         code[job.body].state = "emitting", job.body \in Codes, NEW x \in {"done", "freed"},
         code' = [code EXCEPT ![job.body].state = x],
         UNCHANGED <<LazyDisabled, GlobalAddress, StubToFunction, PendingFunctions, stub>>
  PROVE  Serving'
<1>1. TypeOK
  BY DEF Base
<1>2. /\ \A d \in Codes : d # job.body => code'[d] = code[d]
      /\ \A d \in Codes : code'[d].refs = code[d].refs
  BY <1>1, StateFields
<1>3. Stays
  BY <1>2 DEF Stays, Live
<1>4. \A a, f : Serves(a, f) => Serves(a, f)'
  BY <1>3, ServesOn
<1>5. MapServes'
  <2>1. ASSUME NEW f \in Functions, NEW a, a = GlobalAddress[f]
        PROVE  /\ a \in Codes => f \notin External
               /\ a \notin Codes => a = Null \/ Serves(a, f)'
    BY <1>4, <2>1 DEF Serving, MapServes
  <2>. QED BY <2>1 DEF MapServes
<1>6. StubsServe'
  <2>1. ASSUME NEW r \in Stubs, stub[r] # Unused, NEW a, a = stub[r], NEW f, f = StubToFunction[r]
        PROVE  f \in Functions /\ (a \in {Resolver, Torn} \/ Serves(a, f)')
    BY <1>4, <2>1 DEF Serving, StubsServe
  <2>. QED BY <2>1 DEF StubsServe
<1>7. RefsServe'
  BY <1>2, <1>3, RefsServeOn
<1>8. ~LazyDisabled' /\ PendingFunctions' = <<>>
  BY DEF Serving
<1>. QED BY <1>3, <1>5, <1>6, <1>7, <1>8, ServingKept DEF Base

\* What the thread that emits carries on with, whatever it does next.
LEMMA EmitterCarries ==
  ASSUME Serving, NEW t \in Threads, NEW q, q = th[t], q.pc = "emit",
         NEW pc \in {"start", "next", "crashed"}, NEW res,
         \A a, f : Serves(a, f) => Serves(a, f)',
         pc = "start" => job'.fn = job.fn /\ job'.queued = job.queued,
         pc = "next" => job' = job /\ GlobalAddress' = GlobalAddress /\ job.body \in Codes
  PROVE  Carries(pc, q.at, q.callee, q.want, q.after, res)'
<1>1. Carries("emit", q.at, q.callee, q.want, q.after, q.res)
  BY DEF Serving, ThreadCarries
<1>2. /\ q.after = "erase" => q.at \in Stubs /\ Serves(q.at, q.callee)
      /\ q.after \in {"call", "erase"} => q.want = q.callee
      /\ q.want \notin External /\ job.fn = q.want /\ ~job.queued /\ GlobalAddress[q.want] = job.body
  BY <1>1 DEF Carries, InStub, Holding
<1>3. q.after = "erase" => Serves(q.at, q.callee)'
  BY <1>2
<1>4. pc = "next" => GlobalAddress'[q.want] \in Codes
  BY <1>2
<1>5. pc \in {"start", "next"} => job'.fn = q.want /\ ~job'.queued
  BY <1>2
<1>. QED BY <1>2, <1>3, <1>4, <1>5 DEF Carries, InStub, Holding

LEMMA RetryServing ==
  ASSUME Unfreed, Base, Serving, NEW t \in Threads, RetryWithMoreMemory(t), UNCHANGED LazyDisabled
  PROVE  Serving'
<1>1. PICK q : q = th[t]
  OBVIOUS
<1>2. /\ TypeOK /\ q.pc = "emit" /\ lock = t /\ job.fn \in Functions /\ job.body \in Codes
      /\ code[job.body].state = "emitting" /\ Deallocate(job.fn, job.body)
      /\ Goes(t, "start", q.at, q.callee, q.want, q.after, q.res)
      /\ job'.fn = job.fn /\ UNCHANGED <<LazyDisabled, stub, PendingFunctions>>
  BY <1>1, RetryDoes DEF Base
<1>3. job'.queued = job.queued
  BY <1>2 DEF RetryWithMoreMemory, TypeOK
<1>4. NoUses
  BY DEF Unfreed, Base, Filings, NoUses
<1>5. code' = [code EXCEPT ![job.body].state = "freed"] /\ UNCHANGED <<StubToFunction, GlobalAddress>>
  BY <1>2, <1>4, DeallocateFields
<1>6. \A a, f : Serves(a, f) => Serves(a, f)'
  <2>1. \A d \in Codes : d # job.body => code'[d] = code[d]
    BY <1>2, <1>5, StateFields
  <2>2. Stays
    BY <1>2, <1>5, <2>1 DEF Stays, Live
  <2>. QED BY <2>2, ServesOn
<1>7. Carries("start", q.at, q.callee, q.want, q.after, q.res)'
  BY <1>1, <1>2, <1>3, <1>6, EmitterCarries
<1>. QED BY <1>2, <1>5, <1>7, EmittedServing

LEMMA FinishServing ==
  ASSUME Base, Serving, NEW t \in Threads, FinishFunction(t), UNCHANGED LazyDisabled
  PROVE  Serving'
<1>1. PICK q : q = th[t]
  OBVIOUS
<1>r. PICK res : res = IF q.after = "report" THEN job.body ELSE q.res
  OBVIOUS
<1>2. /\ TypeOK /\ q.pc = "emit" /\ lock = t /\ job.body \in Codes /\ code[job.body].state = "emitting"
      /\ code' = [code EXCEPT ![job.body].state = "done"]
      /\ UNCHANGED <<job, LazyDisabled, maps, stub>>
  BY <1>1, FinishDoes DEF Base
<1>3. PICK pc \in {"crashed", "restub", "next"} : Goes(t, pc, q.at, q.callee, q.want, q.after, res)
  BY <1>1, <1>r, FinishDoes
<1>4. UNCHANGED <<GlobalAddress, StubToFunction, PendingFunctions>>
  BY <1>2 DEF maps
<1>5. pc # "restub"
  <2>1. ~job.queued
    BY <1>1, <1>2 DEF Serving, ThreadCarries, Carries, Holding
  <2>2. th'[t].pc # "restub"
    BY <1>2, <2>1 DEF FinishFunction, TypeOK, ThreadState
  <2>. QED BY <1>3, <2>2 DEF Goes
<1>6. \A a, f : Serves(a, f) => Serves(a, f)'
  <2>1. \A d \in Codes : d # job.body => code'[d] = code[d]
    BY <1>2, StateFields
  <2>2. Stays
    BY <1>2, <1>4, <2>1 DEF Stays, Live
  <2>. QED BY <2>2, ServesOn
<1>7. Carries(pc, q.at, q.callee, q.want, q.after, res)'
  BY <1>1, <1>2, <1>4, <1>5, <1>6, EmitterCarries
<1>. QED BY <1>2, <1>3, <1>4, <1>7, EmittedServing

LEMMA CompiledServing ==
  ASSUME Base, Published, Serving, NEW t \in Threads, Compiled(t), UNCHANGED LazyDisabled
  PROVE  Serving'
<1>1. PICK q : q = th[t]
  OBVIOUS
<1>a. PICK a : a = GlobalAddress[q.want]
  OBVIOUS
<1>2. /\ TypeOK /\ q.pc = "next" /\ lock = t /\ Return(t, a)
      /\ UNCHANGED <<LazyDisabled, maps, stub, code>>
  BY <1>1, <1>a, CompiledDoes DEF Base, Compiled, memory
<1>3. /\ GlobalAddress' = GlobalAddress /\ StubToFunction' = StubToFunction /\ stub' = stub
      /\ code' = code /\ PendingFunctions' = PendingFunctions
  BY <1>2 DEF maps
<1>4. Stays
  BY <1>3 DEF Stays, Live
<1>5. \A b, f : Serves(b, f) => Serves(b, f)'
  BY <1>4, ServesOn
<1>6. /\ q.want \in Functions /\ q.after \in {"call", "erase", "report"}
      /\ q.after = "erase" => q.at \in Stubs /\ Serves(q.at, q.callee)
      /\ q.after \in {"call", "erase"} => q.want = q.callee
      /\ a \in Codes
  <2>1. q.want \in Functions /\ q.after \in {"call", "erase", "report"}
    BY <1>1, <1>2 DEF Base, LocalsRight, Local, ThreadState, Holding
  <2>2. Carries("next", q.at, q.callee, q.want, q.after, q.res)
    BY <1>1, <1>2 DEF Serving, ThreadCarries
  <2>. QED BY <1>a, <2>1, <2>2 DEF Carries, InStub, Holding
<1>7. Serves(a, q.want) /\ a \in Address
  <2>1. \A u \in Threads : th[u].pc \notin {"start", "emit"}
    <3>1. \A u \in Threads : u # t => th[u].pc \notin Locks
      BY <1>2, OneCompiles DEF Base
    <3>. QED BY <1>1, <1>2, <3>1 DEF Locks, Holding
  <2>2. code[a].fn = q.want /\ Live(a)
    BY <1>6, <1>a, <2>1, PublishedLive DEF Base
  <2>. QED BY <1>6, <2>2, Addresses DEF Serves
<1>8. /\ Serves(a, q.want)'
      /\ q.after = "erase" => Serves(q.at, q.callee)'
  BY <1>5, <1>6, <1>7
<1>9. \E pc, at, res : /\ Goes(t, pc, at, q.callee, q.want, q.after, res)
                       /\ Carries(pc, at, q.callee, q.want, q.after, res)'
  <2>1. CASE q.after = "call"
    <3>1. Goes(t, "run", a, q.callee, q.want, q.after, q.res)
      BY <1>1, <1>2, <1>7, <2>1, ReturnGoes
    <3>2. Carries("run", a, q.callee, q.want, q.after, q.res)'
      BY <1>6, <1>8, <2>1 DEF Carries, InStub, Holding
    <3>. QED BY <3>1, <3>2
  <2>2. CASE q.after = "erase"
    <3>1. Goes(t, "erase", q.at, q.callee, q.want, q.after, a)
      BY <1>1, <1>2, <1>7, <2>2, ReturnGoes
    <3>2. Carries("erase", q.at, q.callee, q.want, q.after, a)'
      BY <1>6, <1>8, <2>2 DEF Carries, InStub, Holding
    <3>. QED BY <3>1, <3>2
  <2>3. CASE q.after = "report"
    <3>1. Goto(t, "idle")
      BY <1>1, <1>2, <2>3 DEF Return, Goto
    <3>2. Goes(t, "idle", q.at, q.callee, q.want, q.after, q.res)
      BY <1>1, <1>2, <3>1, GotoGoes DEF PCs
    <3>3. Carries("idle", q.at, q.callee, q.want, q.after, q.res)'
      BY <2>3 DEF Carries, InStub, Holding
    <3>. QED BY <3>2, <3>3
  <2>. QED BY <1>6, <2>1, <2>2, <2>3
<1>10. PICK pc, at, res : /\ Goes(t, pc, at, q.callee, q.want, q.after, res)
                          /\ Carries(pc, at, q.callee, q.want, q.after, res)'
  BY <1>9
<1>11. MapServes' /\ StubsServe' /\ RefsServe' /\ ~LazyDisabled' /\ PendingFunctions' = <<>>
  <2>1. MapServes'
    BY <1>3 DEF Serving, MapServes, Serves, Live
  <2>2. StubsServe'
    BY <1>3 DEF Serving, StubsServe, Serves, Live
  <2>3. RefsServe'
    BY <1>3, <1>4, RefsServeOn
  <2>. QED BY <1>2, <1>3, <2>1, <2>2, <2>3 DEF Serving
<1>. QED BY <1>2, <1>4, <1>10, <1>11, ServingKept DEF Base

-----------------------------------------------------------------------------
(***************************************************************************)
(* Every step keeps it, and calls are served.                              *)
(***************************************************************************)
LEMMA InitServing == ASSUME Lazy, Init PROVE Serving
<1>1. LazyDisabled \in LazyModes /\ LazyModes \subseteq {FALSE}
  BY DEF Init, Lazy
<1>2. ~LazyDisabled
  BY <1>1, Zenon
<1>3. PendingFunctions = <<>> /\ MapServes /\ StubsServe /\ RefsServe
  BY Addresses DEF Init, MapServes, StubsServe, RefsServe
<1>4. ASSUME NEW t \in Threads PROVE ThreadCarries(t)
  BY DEF Init, Idle, ThreadCarries, Carries, InStub, Holding
<1>. QED BY <1>2, <1>3, <1>4 DEF Serving

LEMMA ActionsServing ==
  ASSUME Unfreed, Base, Published, Serving, NEW t \in Threads, UNCHANGED LazyDisabled,
         \/ GetFunctionStub(t) \/ Rejit(t) \/ DeallocateMem(t)
         \/ Acquire(t) \/ StartFunction(t) \/ Relocate(t) \/ RetryWithMoreMemory(t) \/ FinishFunction(t)
         \/ UpdateFunctionStub(t) \/ NextPending(t) \/ Compiled(t)
  PROVE  Serving'
<1>1. th[t].pc \notin {"restub", "free"} /\ PendingFunctions = <<>>
  BY DEF Serving, ThreadCarries, Carries
<1>2. ~DeallocateMem(t) /\ ~UpdateFunctionStub(t) /\ ~NextPending(t)
  BY <1>1 DEF DeallocateMem, UpdateFunctionStub, NextPending, At
<1>3. CASE GetFunctionStub(t)
  BY <1>3, StubFoundServing, StubMadeServing
<1>4. CASE Acquire(t)
  BY <1>4, AcquireFoundServing, AcquireExternalServing, AcquireServing
<1>5. CASE Rejit(t)
  BY <1>5, RejitServing
<1>6. CASE StartFunction(t) \/ Relocate(t)
  BY <1>6, StartServing, RelocateServing
<1>7. CASE RetryWithMoreMemory(t) \/ FinishFunction(t)
  BY <1>7, RetryServing, FinishServing
<1>8. CASE Compiled(t)
  BY <1>8, CompiledServing
<1>. QED BY <1>2, <1>3, <1>4, <1>5, <1>6, <1>7, <1>8

LEMMA NextServing ==
  ASSUME Unfreed, Base, Published, Serving, [Next]_vars
  PROVE  Serving'
<1>1. ASSUME Next PROVE Serving'
  <2>1. UNCHANGED LazyDisabled
    BY <1>1 DEF Next
  <2>2. PICK t \in Threads :
          \/ \E f \in Functions : Request(t, f)
          \/ Step(t) \/ Leave(t) \/ RetryWithMoreMemory(t) \/ Call(t)
    BY <1>1 DEF Next
  <2>3. ASSUME NEW f \in Functions, Request(t, f) PROVE Serving'
    <3>1. ~FreeMachineCode(t, f)
      BY DEF Unfreed, FreeMachineCode
    <3>. QED BY <2>1, <2>3, <3>1, GetPointerServing, GetStubServing, RunJITServing, RecompileServing
             DEF Request
  <2>4. CASE Step(t)
    <3>1. CASE \/ GetFunctionStub(t) \/ Rejit(t) \/ DeallocateMem(t)
               \/ Acquire(t) \/ StartFunction(t) \/ Relocate(t) \/ FinishFunction(t)
               \/ UpdateFunctionStub(t) \/ NextPending(t) \/ Compiled(t)
      BY <2>1, <3>1, ActionsServing
    <3>2. CASE Run(t) \/ FindStub(t) \/ CheckCompiled(t)
      BY <2>1, <3>2, RunServing, FindStubServing, CheckServing
    <3>3. CASE EraseStub(t) \/ TearStub(t) \/ MendStub(t)
      BY <2>1, <3>3, EraseStubServing, TearServing, MendServing
    <3>. QED BY <2>4, <3>1, <3>2, <3>3 DEF Step
  <2>5. CASE Leave(t) \/ Call(t)
    BY <2>1, <2>5, LeaveServing, CallServing DEF Leave
  <2>6. CASE RetryWithMoreMemory(t)
    BY <2>1, <2>6, ActionsServing
  <2>. QED BY <2>2, <2>3, <2>4, <2>5, <2>6
<1>2. ASSUME UNCHANGED vars PROVE Serving'
  <2>1. /\ th' = th /\ job' = job /\ LazyDisabled' = LazyDisabled /\ GlobalAddress' = GlobalAddress
        /\ StubToFunction' = StubToFunction /\ PendingFunctions' = PendingFunctions /\ stub' = stub /\ code' = code
    BY <1>2 DEF vars, compiler, maps, memory
  <2>2. MapServes' /\ StubsServe' /\ RefsServe'
    BY <2>1 DEF Serving, MapServes, StubsServe, RefsServe, Serves, Live
  <2>3. ASSUME NEW t \in Threads PROVE ThreadCarries(t)'
    BY <2>1 DEF Serving, ThreadCarries, Carries, Serves, Live
  <2>. QED BY <2>1, <2>2, <2>3 DEF Serving
<1>. QED BY <1>1, <1>2

LEMMA ServingSays ==
  ASSUME Base, Published, Serving
  PROVE  NoCallLost /\ StubsAgree /\ Settled /\ InCallee
<1>1. NoCallLost
  BY DEF Serving, ThreadCarries, Carries, NoCallLost
<1>2. StubsAgree
  BY Addresses DEF Base, Filings, Serving, StubsServe, Serves, StubsAgree
<1>3. Settled
  <2>1. ASSUME NEW c \in Codes, NEW g \in Functions, NEW s \in Stubs, s = code[c].refs[g]
        PROVE  stub[s] \notin {Null, Unused}
    <3>1. stub[s] # Unused
      BY <2>1, Addresses DEF Serving, RefsServe, Serves
    <3>2. stub[s] \in {Resolver, Torn} \/ Serves(stub[s], StubToFunction[s])
      BY <3>1 DEF Serving, StubsServe
    <3>. QED BY <3>1, <3>2, Addresses DEF Serves
  <2>. QED BY <2>1 DEF Serving, Settled
<1>4. InCallee
  <2>1. ASSUME NEW t \in Threads, th[t].pc = "body", NEW a, a = th[t].at
        PROVE  Live(a) /\ code[a].fn = th[t].callee
    <3>1. a \in Codes /\ Serves(a, th[t].callee)
      BY <2>1 DEF Base, LocalsRight, Local, Serving, ThreadCarries, Carries
    <3>. QED BY <3>1, Addresses DEF Serves
  <2>. QED BY <2>1 DEF InCallee, At
<1>. QED BY <1>1, <1>2, <1>3, <1>4

LEMMA AlwaysServing ==
  ASSUME Lazy, Unfreed
  PROVE  Spec => [](NoCallLost /\ StubsAgree /\ Settled /\ InCallee)
<1>1. Init => Serving
  BY InitServing
<1>2. OneFrees
  BY DEF Unfreed, OneFrees
<1>3. Base /\ Published /\ [Next]_vars => Published'
  BY <1>2, PublishedNext
<1>4. Base /\ Published /\ Serving /\ [Next]_vars => Serving'
  BY NextServing
<1>5. Base /\ Published /\ Serving => NoCallLost /\ StubsAgree /\ Settled /\ InCallee
  BY ServingSays
<1>. QED BY <1>1, <1>3, <1>4, <1>5, InitPublished, AlwaysBase, PTL DEF Spec

\* No call reaches a null address, code that is not finished, or a stub that
\* the resolver does not know: where clients only ask for functions and call
\* them, and with lazy compilation where they also compile functions again
\* while others call them, ask for stubs and wait for reports.
THEOREM NeverLost == ASSUME Plain \/ (Lazy /\ Unfreed) PROVE Spec => []NoCallLost
<1>1. CASE Plain
  BY <1>1, AlwaysRight, PTL
<1>2. CASE Lazy /\ Unfreed
  BY <1>2, AlwaysServing, PTL
<1>. QED BY <1>1, <1>2

\* For the same clients the maps of stubs agree, and a rewritten stub enters
\* finished code of its function, however the rewriting interleaves with the
\* resolver's erasing and with compiling the function again.
THEOREM StubsRight == ASSUME Plain \/ (Lazy /\ Unfreed) PROVE Spec => []StubsAgree
<1>1. CASE Plain
  BY <1>1, AlwaysRight, PTL
<1>2. CASE Lazy /\ Unfreed
  BY <1>2, AlwaysServing, PTL
<1>. QED BY <1>1, <1>2

\* For the same clients, when the lock is given back nothing is left on the
\* work list, and no code refers to a stub that leads nowhere.
THEOREM WorkDone == ASSUME Plain \/ (Lazy /\ Unfreed) PROVE Spec => []Settled
<1>1. CASE Plain
  BY <1>1, AlwaysRight, PTL
<1>2. CASE Lazy /\ Unfreed
  BY <1>2, AlwaysServing, PTL
<1>. QED BY <1>1, <1>2

\* With lazy compilation, a thread that is in a body is in finished code of
\* the function it called, also while another thread compiles it again.
THEOREM CallsEnd == ASSUME Lazy, Unfreed PROVE Spec => []InCallee
BY AlwaysServing, PTL
=============================================================================
