----------------------------- MODULE JITResolver -----------------------------
(***************************************************************************)
(* Compilation on demand by several threads: the driver                    *)
(* (lib/ExecutionEngine/JIT/JIT.cpp), the resolver of stubs and the        *)
(* emitter's bookkeeping of them (JITEmitter.cpp), and the rewriting of a  *)
(* stub by the target (lib/Target/X86/X86JITInfo.cpp).  The lock of the    *)
(* engine is held while a function is compiled; machine code runs, and     *)
(* rewrites its stubs, without it.  Every reference of one function to     *)
(* another is a call that needs a stub.                                    *)
(***************************************************************************)
EXTENDS Integers, Sequences, FiniteSets

CONSTANTS Threads, Functions,
          External,      \* the functions found with dlsym
          Calls,         \* function |-> the functions it refers to, in order
          LazyModes,     \* whether lazy compilation is disabled: what engines there are
          DlsymStubs,
          ClientOps,     \* what clients do besides getPointerToFunction and calls:
                         \* some of "free", "stub", "report", "recompile"
          MaxStubs, MaxCodes,        \* bounds on what is ever emitted
          MaxRetries,    \* function |-> bound on its retryWithMoreMemory
          NoThread, NoFunction

ASSUME JITResolverAssumption ==
  /\ External \subseteq Functions
  /\ Calls \in [Functions -> Seq(Functions)]
  /\ LazyModes \subseteq BOOLEAN /\ DlsymStubs \in BOOLEAN
  /\ MaxStubs \in Nat /\ MaxCodes \in Nat /\ MaxRetries \in [Functions -> Nat]
  /\ NoThread \notin Threads /\ NoFunction \notin Functions

\* Addresses.
Null    == 0
Stubs   == 1 .. MaxStubs
Codes   == MaxStubs + 1 .. MaxStubs + MaxCodes
Outside == MaxStubs + MaxCodes + 1      \* an external function
Address == 0 .. Outside
\* What a stub holds that is not the address it jumps to.
Resolver == -1   \* a call of the lazy resolver
Torn     == -2   \* half of the rewritten instruction
Unused   == -3   \* never emitted

VARIABLES
  th,            \* thread |-> its program counter and locals
  lock,          \* ExecutionEngine::lock
  job,           \* the compilation under that lock
  LazyDisabled,  \* set before the engine is used
  GlobalAddress, FunctionToStub, StubToFunction, PendingFunctions,
  stub,          \* stub |-> the target of its jump
  code,          \* body |-> function, "none" or "emitting" or "done" or "freed", its references
  FunctionBlock, \* function |-> its body, as the memory manager knows it
  CurFnStubUses, \* function |-> the stubs it refers to
  StubFnRefs     \* stub |-> the functions that refer to it

compiler == <<lock, job>>
maps     == <<GlobalAddress, FunctionToStub, StubToFunction, PendingFunctions>>
memory   == <<stub, code, FunctionBlock>>
uses     == <<CurFnStubUses, StubFnRefs>>
vars     == <<th, compiler, LazyDisabled, maps, memory, uses>>

-----------------------------------------------------------------------------
Idle     == [pc |-> "idle", at |-> Null, callee |-> NoFunction, want |-> NoFunction,
             after |-> "call", res |-> Null]
NoJob    == [fn |-> NoFunction, body |-> Null, todo |-> <<>>, queued |-> FALSE, tries |-> 0]
Begin(f) == [NoJob EXCEPT !.fn = f]

Init ==
  /\ th = [t \in Threads |-> Idle]
  /\ lock = NoThread /\ job = NoJob /\ LazyDisabled \in LazyModes
  /\ GlobalAddress  = [f \in Functions |-> Null]
  /\ FunctionToStub = [f \in Functions |-> Null]
  /\ StubToFunction = [s \in Stubs |-> NoFunction]
  /\ PendingFunctions = <<>>
  /\ stub = [s \in Stubs |-> Unused]
  /\ code = [c \in Codes |-> [fn |-> NoFunction, state |-> "none", refs |-> [f \in Functions |-> Null]]]
  /\ FunctionBlock = [f \in Functions |-> Null]
  /\ CurFnStubUses = [f \in Functions |-> {}]
  /\ StubFnRefs = [s \in Stubs |-> {}]

FreshStubs == {s \in Stubs : stub[s] = Unused /\ \A r \in 1 .. s - 1 : stub[r] # Unused}
FreshCodes == {c \in Codes : code[c].state = "none"
                             /\ \A d \in MaxStubs + 1 .. c - 1 : code[d].state # "none"}

At(t, pc)  == th[t].pc = pc
Goto(t, pc) == th' = [th EXCEPT ![t].pc = pc]

\* What is done with the address getPointerToFunction returned.
Return(t, a) ==
  th' = [th EXCEPT ![t] =
           CASE @.after = "call"   -> [@ EXCEPT !.pc = "run", !.at = a]
             [] @.after = "erase"  -> [@ EXCEPT !.pc = "erase", !.res = a]
             [] @.after = "report" -> [@ EXCEPT !.pc = "idle"]]

-----------------------------------------------------------------------------
\* JITResolver::getFunctionStub, when there is none yet for g.
ActualTarget(g) ==
  IF g \in External THEN IF GlobalAddress[g] = Null THEN Outside ELSE GlobalAddress[g]
  ELSE IF LazyDisabled THEN Null ELSE Resolver

\* Mutant: the function never gets on the work list.
QueuedNever(g) == PendingFunctions

Queued(g) == IF ActualTarget(g) = Null THEN Append(PendingFunctions, g) ELSE PendingFunctions

\* Mutant: the stub is not filed under its address.
FiledNowhere(g, s) == StubToFunction

Filed(g, s) == [StubToFunction EXCEPT ![s] = g]

EmitStub(g, s) ==
  /\ stub' = [stub EXCEPT ![s] = ActualTarget(g)]
  /\ FunctionToStub' = [FunctionToStub EXCEPT ![g] = s]
  /\ StubToFunction' = Filed(g, s)
  /\ GlobalAddress' = IF ActualTarget(g) = Resolver THEN GlobalAddress
                      ELSE [GlobalAddress EXCEPT ![g] = s]
  /\ PendingFunctions' = Queued(g)

\* AddStubToCurrentFunction.
AddStub(f, s) ==
  IF ~DlsymStubs THEN UNCHANGED uses
  ELSE /\ CurFnStubUses' = [CurFnStubUses EXCEPT ![f] = @ \cup {s}]
       /\ StubFnRefs' = [StubFnRefs EXCEPT ![s] = @ \cup {f}]

\* Mutant: a stub goes with the first function that drops it.
DroppedAll(f) == CurFnStubUses[f]

\* The stubs nobody refers to any more once f drops its references.
Dropped(f) == {s \in CurFnStubUses[f] : StubFnRefs[s] = {f}}

Orphans(f) == {StubToFunction[s] : s \in Dropped(f)}

\* JITEmitter::deallocateMemForFunction, whose block is body.
Deallocate(f, body) ==
  /\ code' = IF body = Null THEN code ELSE [code EXCEPT ![body].state = "freed"]
  /\ FunctionBlock'  = [FunctionBlock EXCEPT ![f] = Null]
  /\ CurFnStubUses'  = [CurFnStubUses EXCEPT ![f] = {}]
  /\ StubFnRefs'     = [s \in Stubs |-> StubFnRefs[s] \ (IF s \in CurFnStubUses[f] THEN {f} ELSE {})]
  /\ StubToFunction' = [s \in Stubs |-> IF s \in Dropped(f) THEN NoFunction ELSE StubToFunction[s]]
  /\ FunctionToStub' = [g \in Functions |-> IF g \in Orphans(f) THEN Null ELSE FunctionToStub[g]]
  /\ GlobalAddress'  = [g \in Functions |-> IF g \in Orphans(f) THEN Null ELSE GlobalAddress[g]]

-----------------------------------------------------------------------------
\* The clients' calls.

\* Bound: room to compile everything once more, as these calls can require.
CodesNeeded == Cardinality({a \in (Functions \ External) \X (0 .. MaxCodes) : a[2] <= MaxRetries[a[1]]})

Room ==
  /\ Cardinality({c \in Codes : code[c].state = "none"}) >= CodesNeeded
  /\ Cardinality({s \in Stubs : stub[s] = Unused}) >= Cardinality(Functions) + Cardinality(Threads)

\* getPointerToFunction, before it takes the lock.
GetPointerToFunction(t, f) ==
  /\ At(t, "idle") /\ lock = NoThread
  /\ th' = [th EXCEPT ![t] =
       IF GlobalAddress[f] # Null
       THEN [Idle EXCEPT !.callee = f, !.pc = "run", !.at = GlobalAddress[f]]
       ELSE [Idle EXCEPT !.callee = f, !.pc = "acquire", !.want = f]]
  /\ UNCHANGED <<compiler, maps, memory, uses>>

\* getPointerToFunctionOrStub; what it returns is called.
GetPointerToFunctionOrStub(t, f) ==
  /\ "stub" \in ClientOps /\ Room
  /\ At(t, "idle") /\ lock = NoThread
  /\ th' = [th EXCEPT ![t] =
       IF GlobalAddress[f] # Null
       THEN [Idle EXCEPT !.callee = f, !.pc = "run", !.at = GlobalAddress[f]]
       ELSE [Idle EXCEPT !.callee = f, !.pc = "stub"]]
  /\ UNCHANGED <<compiler, maps, memory, uses>>

GetFunctionStub(t) == LET f == th[t].callee IN
  /\ At(t, "stub") /\ lock = NoThread
  /\ \/ /\ FunctionToStub[f] # Null
        /\ th' = [th EXCEPT ![t].pc = "run", ![t].at = FunctionToStub[f]]
        /\ UNCHANGED <<stub, maps>>
     \/ /\ FunctionToStub[f] = Null
        /\ \E s \in FreshStubs : EmitStub(f, s) /\ th' = [th EXCEPT ![t].pc = "run", ![t].at = s]
  /\ UNCHANGED <<compiler, code, FunctionBlock, uses>>

\* runJITOnFunction with a MachineCodeInfo; the client waits for what it reports.
RunJITOnFunction(t, f) ==
  /\ "report" \in ClientOps /\ Room /\ f \notin External
  /\ At(t, "idle") /\ lock = NoThread
  /\ th' = [th EXCEPT ![t] = [Idle EXCEPT !.pc = "start", !.want = f, !.after = "report"]]
  /\ lock' = t /\ job' = Begin(f)
  /\ UNCHANGED <<maps, memory, uses>>

\* recompileAndRelinkFunction; the old mapping is deleted before the lock is
\* taken, and the MachineCodeInfo that is reported to is a null pointer.
RecompileAndRelinkFunction(t, f) ==
  /\ "recompile" \in ClientOps /\ Room /\ f \notin External
  /\ At(t, "idle") /\ lock = NoThread
  /\ th' = [th EXCEPT ![t] = [Idle EXCEPT !.callee = f, !.want = f,
       !.pc = IF GlobalAddress[f] = Null THEN "acquire" ELSE "rejit"]]
  /\ GlobalAddress' = [GlobalAddress EXCEPT ![f] = Null]
  /\ UNCHANGED <<compiler, FunctionToStub, StubToFunction, PendingFunctions, memory, uses>>

Rejit(t) ==
  /\ At(t, "rejit") /\ lock = NoThread
  /\ th' = [th EXCEPT ![t].pc = "start", ![t].after = "relink"]
  /\ lock' = t /\ job' = Begin(th[t].want)
  /\ UNCHANGED <<maps, memory, uses>>

\* Mutant: the mapping stays.
FreeMachineCodeMapped(t, f) ==
  /\ "free" \in ClientOps /\ Room /\ f \notin External
  /\ At(t, "idle") /\ lock = NoThread
  /\ th' = [th EXCEPT ![t] = [Idle EXCEPT !.pc = "free", !.want = f]]
  /\ UNCHANGED <<compiler, maps, memory, uses>>

\* freeMachineCodeForFunction: the mapping goes under the lock, the rest not,
\* except for the stubs that are invalidated.
FreeMachineCode(t, f) ==
  /\ "free" \in ClientOps /\ Room /\ f \notin External
  /\ At(t, "idle") /\ lock = NoThread
  /\ th' = [th EXCEPT ![t] = [Idle EXCEPT !.pc = "free", !.want = f]]
  /\ GlobalAddress' = [GlobalAddress EXCEPT ![f] = Null]
  /\ UNCHANGED <<compiler, FunctionToStub, StubToFunction, PendingFunctions, memory, uses>>

\* deallocateMemForFunction takes many steps and the lock only for each stub it
\* invalidates.  One step stands for them all, as no other thread looks at the
\* uses of stubs meanwhile: clients free where there is one thread only.
DeallocateMem(t) == LET f == th[t].want IN
  /\ At(t, "free")
  /\ Dropped(f) = {} \/ lock = NoThread
  /\ Deallocate(f, FunctionBlock[f])
  /\ Goto(t, "idle")
  /\ UNCHANGED <<compiler, stub, PendingFunctions>>

-----------------------------------------------------------------------------
\* Compilation.

\* Mutant: nobody looks again once the lock is taken.
AcquireNoRecheck(t) == LET f == th[t].want IN
  /\ At(t, "acquire") /\ lock = NoThread /\ f \notin External
  /\ lock' = t /\ job' = Begin(f)
  /\ Goto(t, "start")
  /\ UNCHANGED <<maps, memory, uses>>

\* getPointerToFunction, with the lock.
Acquire(t) == LET f == th[t].want IN
  /\ At(t, "acquire") /\ lock = NoThread
  /\ \/ /\ GlobalAddress[f] # Null
        /\ Return(t, GlobalAddress[f])
        /\ UNCHANGED <<compiler, maps>>
     \/ /\ GlobalAddress[f] = Null /\ f \in External
        /\ Return(t, Outside)
        /\ GlobalAddress' = [GlobalAddress EXCEPT ![f] = Outside]
        /\ UNCHANGED <<compiler, FunctionToStub, StubToFunction, PendingFunctions>>
     \/ /\ GlobalAddress[f] = Null /\ f \notin External
        /\ lock' = t /\ job' = Begin(f)
        /\ Goto(t, "start")
        /\ UNCHANGED maps
  /\ UNCHANGED <<memory, uses>>

StartFunction(t) ==
  /\ At(t, "start")
  /\ \E c \in FreshCodes :
       /\ code' = [code EXCEPT ![c].fn = job.fn, ![c].state = "emitting"]
       /\ GlobalAddress' = [GlobalAddress EXCEPT ![job.fn] = c]
       /\ job' = [job EXCEPT !.body = c, !.todo = Calls[job.fn]]
  /\ Goto(t, "emit")
  /\ UNCHANGED <<lock, FunctionToStub, StubToFunction, PendingFunctions, stub, FunctionBlock, uses>>

\* finishFunction resolves a relocation: getPointerToGlobal.
Resolve(g, a) ==
  /\ job' = [job EXCEPT !.todo = Tail(@)]
  /\ code' = [code EXCEPT ![job.body].refs[g] = a]

Relocate(t) == LET g == Head(job.todo) IN
  /\ At(t, "emit") /\ job.todo # <<>>
  /\ \/ /\ LazyDisabled /\ GlobalAddress[g] # Null
        /\ Resolve(g, GlobalAddress[g])
        /\ UNCHANGED <<maps, stub, uses>>
     \/ /\ ~LazyDisabled \/ GlobalAddress[g] = Null
        /\ FunctionToStub[g] # Null
        /\ Resolve(g, FunctionToStub[g])
        /\ AddStub(job.fn, FunctionToStub[g])
        /\ UNCHANGED <<maps, stub>>
     \/ /\ ~LazyDisabled \/ GlobalAddress[g] = Null
        /\ FunctionToStub[g] = Null
        /\ \E s \in FreshStubs : Resolve(g, s) /\ EmitStub(g, s) /\ AddStub(job.fn, s)
  /\ UNCHANGED <<th, lock, FunctionBlock>>

\* The function did not fit, which shows before or after its relocations.
RetryWithMoreMemory(t) ==
  /\ At(t, "emit") /\ job.tries < MaxRetries[job.fn]
  /\ job.todo = <<>> \/ job.todo = Calls[job.fn]
  /\ Deallocate(job.fn, job.body)
  /\ job' = [job EXCEPT !.tries = @ + 1]
  /\ Goto(t, "start")
  /\ UNCHANGED <<lock, PendingFunctions, stub>>

\* Mutant: only a first attempt is reported.
FinishFunctionFirst(t) ==
  /\ At(t, "emit") /\ job.todo = <<>>
  /\ code' = [code EXCEPT ![job.body].state = "done"]
  /\ FunctionBlock' = [FunctionBlock EXCEPT ![job.fn] = job.body]
  /\ th' = [th EXCEPT ![t].pc = IF th[t].after = "relink" THEN "crashed"
                                 ELSE IF job.queued THEN "restub" ELSE "next",
                      ![t].res = IF th[t].after = "report" /\ job.tries = 0 THEN job.body ELSE @]
  /\ UNCHANGED <<compiler, maps, stub, uses>>

FinishFunction(t) ==
  /\ At(t, "emit") /\ job.todo = <<>>
  /\ code' = [code EXCEPT ![job.body].state = "done"]
  /\ FunctionBlock' = [FunctionBlock EXCEPT ![job.fn] = job.body]
  /\ th' = [th EXCEPT ![t].pc = IF th[t].after = "relink" THEN "crashed"
                                 ELSE IF job.queued THEN "restub" ELSE "next",
                      ![t].res = IF th[t].after = "report" THEN job.body ELSE @]
  /\ UNCHANGED <<compiler, maps, stub, uses>>

\* updateFunctionStub of a function from the work list.  It still has its stub,
\* or that of a later attempt: only a free by another thread would drop it.
UpdateFunctionStub(t) == LET s == FunctionToStub[job.fn] IN
  /\ At(t, "restub") /\ s # Null
  /\ stub' = [stub EXCEPT ![s] = GlobalAddress[job.fn]]
  /\ Goto(t, "next")
  /\ UNCHANGED <<compiler, maps, code, FunctionBlock, uses>>

\* Mutant: the function stays on the work list while it is compiled.
NextPendingKept(t) == LET n == Len(PendingFunctions) IN
  /\ At(t, "next") /\ n > 0
  /\ job' = [Begin(PendingFunctions[n]) EXCEPT !.queued = TRUE]
  /\ Goto(t, "start")
  /\ UNCHANGED <<lock, maps, memory, uses>>

NextPending(t) == LET n == Len(PendingFunctions) IN
  /\ At(t, "next") /\ n > 0
  /\ job' = [Begin(PendingFunctions[n]) EXCEPT !.queued = TRUE]
  /\ PendingFunctions' = SubSeq(PendingFunctions, 1, n - 1)
  /\ Goto(t, "start")
  /\ UNCHANGED <<lock, GlobalAddress, FunctionToStub, StubToFunction, memory, uses>>

\* Mutant: the lock is not given back after a lazy compilation.
CompiledLocked(t) ==
  /\ At(t, "next") /\ PendingFunctions = <<>>
  /\ lock' = (IF th[t].after = "erase" THEN lock ELSE NoThread) /\ job' = NoJob
  /\ Return(t, GlobalAddress[th[t].want])
  /\ UNCHANGED <<maps, memory, uses>>

Compiled(t) ==
  /\ At(t, "next") /\ PendingFunctions = <<>>
  /\ lock' = NoThread /\ job' = NoJob
  /\ Return(t, GlobalAddress[th[t].want])
  /\ UNCHANGED <<maps, memory, uses>>

-----------------------------------------------------------------------------
\* Machine code, and the resolver it enters through a lazy stub.

Run(t) == LET a == th[t].at IN
  /\ At(t, "run")
  /\ th' = [th EXCEPT ![t] =
       CASE a = Null        -> [@ EXCEPT !.pc = "null"]
         [] a = Outside     -> Idle
         [] a \in Codes     -> [@ EXCEPT !.pc = IF code[a].state = "done" THEN "body" ELSE "dead"]
         [] a \in Stubs     -> CASE stub[a] = Resolver -> [@ EXCEPT !.pc = "lookup"]
                                 [] stub[a] = Torn     -> [@ EXCEPT !.pc = "torn"]
                                 [] OTHER              -> [@ EXCEPT !.at = stub[a]]]
  /\ UNCHANGED <<compiler, maps, memory, uses>>

Call(t) == LET refs == code[th[t].at].refs IN
  /\ At(t, "body")
  /\ \E g \in {h \in Functions : refs[h] # Null} :
       th' = [th EXCEPT ![t] = [Idle EXCEPT !.pc = "run", !.callee = g, !.at = refs[g]]]
  /\ UNCHANGED <<compiler, maps, memory, uses>>

ReturnFromBody(t) ==
  /\ At(t, "body")
  /\ th' = [th EXCEPT ![t] = Idle]
  /\ UNCHANGED <<compiler, maps, memory, uses>>

\* Mutant: lower_bound for upper_bound, and the address is that of the stub.
CandidatesBelow(a) == {s \in Stubs : s < a /\ StubToFunction[s] # NoFunction}

\* JITCompilerFn knows an address near the stub only and takes the last stub
\* that does not lie behind it.
Candidates(a) == {s \in Stubs : s <= a /\ StubToFunction[s] # NoFunction}

FindStub(t) == LET known == Candidates(th[t].at) IN
  /\ At(t, "lookup") /\ lock = NoThread
  /\ \/ known = {} /\ Goto(t, "unknown")
     \/ \E s \in known : /\ \A r \in known : r <= s
                         /\ th' = [th EXCEPT ![t].pc = "check", ![t].want = StubToFunction[s]]
  /\ UNCHANGED <<compiler, maps, memory, uses>>

\* Mutant: the global map is read without the lock.
CheckCompiledUnlocked(t) == LET f == th[t].want IN
  /\ At(t, "check")
  /\ th' = [th EXCEPT ![t] =
       IF GlobalAddress[f] # Null THEN [@ EXCEPT !.pc = "erase", !.res = GlobalAddress[f]]
       ELSE [@ EXCEPT !.pc = "acquire", !.after = "erase"]]
  /\ UNCHANGED <<compiler, maps, memory, uses>>

CheckCompiled(t) == LET f == th[t].want IN
  /\ At(t, "check") /\ lock = NoThread
  /\ th' = [th EXCEPT ![t] =
       IF GlobalAddress[f] # Null THEN [@ EXCEPT !.pc = "erase", !.res = GlobalAddress[f]]
       ELSE [@ EXCEPT !.pc = "acquire", !.after = "erase"]]
  /\ UNCHANGED <<compiler, maps, memory, uses>>

\* Mutant: the wrong null.
EraseStubNull(t) ==
  /\ At(t, "erase") /\ lock = NoThread
  /\ FunctionToStub' = [FunctionToStub EXCEPT ![th[t].want] = Resolver]
  /\ Goto(t, "patch")
  /\ UNCHANGED <<compiler, GlobalAddress, StubToFunction, PendingFunctions, memory, uses>>

EraseStub(t) ==
  /\ At(t, "erase") /\ lock = NoThread
  /\ FunctionToStub' = [FunctionToStub EXCEPT ![th[t].want] = Null]
  /\ Goto(t, "patch")
  /\ UNCHANGED <<compiler, GlobalAddress, StubToFunction, PendingFunctions, memory, uses>>

\* X86CompilationCallback2 rewrites the stub in two stores, the first of which
\* changes nothing once the stub has been rewritten, and runs it again.
TearStub(t) == LET s == th[t].at IN
  /\ At(t, "patch")
  /\ stub' = [stub EXCEPT ![s] = IF @ = Resolver THEN Torn ELSE @]
  /\ Goto(t, "mend")
  /\ UNCHANGED <<compiler, maps, code, FunctionBlock, uses>>

MendStub(t) ==
  /\ At(t, "mend")
  /\ stub' = [stub EXCEPT ![th[t].at] = th[t].res]
  /\ Goto(t, "run")
  /\ UNCHANGED <<compiler, maps, code, FunctionBlock, uses>>

-----------------------------------------------------------------------------
Request(t, f) ==
  \/ GetPointerToFunction(t, f) \/ GetPointerToFunctionOrStub(t, f)
  \/ RunJITOnFunction(t, f) \/ RecompileAndRelinkFunction(t, f) \/ FreeMachineCode(t, f)

\* What a thread does by itself once it was asked something.
Step(t) == UNCHANGED LazyDisabled /\
  \/ GetFunctionStub(t) \/ Rejit(t) \/ DeallocateMem(t)
  \/ Acquire(t) \/ StartFunction(t) \/ Relocate(t) \/ FinishFunction(t)
  \/ UpdateFunctionStub(t) \/ NextPending(t) \/ Compiled(t)
  \/ Run(t) \/ FindStub(t) \/ CheckCompiled(t) \/ EraseStub(t) \/ TearStub(t) \/ MendStub(t)

Leave(t) == UNCHANGED LazyDisabled /\ ReturnFromBody(t)

Next == UNCHANGED LazyDisabled /\ \E t \in Threads :
  \/ \E f \in Functions : Request(t, f)
  \/ Step(t) \/ Leave(t) \/ RetryWithMoreMemory(t) \/ Call(t)

Spec == Init /\ [][Next]_vars

\* The lock is not fair but is held for one compilation at a time only; code
\* returns, and gives up what it has, sooner or later.
FairSpec == Spec /\ \A t \in Threads : SF_vars(Step(t)) /\ WF_vars(Leave(t))

-----------------------------------------------------------------------------
ThreadState == [pc : {"idle", "run", "acquire", "stub", "rejit", "start", "emit", "restub", "next",
                      "free", "body", "lookup", "check", "erase", "patch", "mend",
                      "null", "dead", "torn", "unknown", "crashed"},
                at : Address, callee : Functions \cup {NoFunction},
                want : Functions \cup {NoFunction},
                after : {"call", "erase", "report", "relink"}, res : Address]

\* Threads, the compilation, the maps and the memory keep their types.
TypeOK ==
  /\ th \in [Threads -> ThreadState]
  /\ lock \in Threads \cup {NoThread} /\ LazyDisabled \in BOOLEAN
  /\ job \in [fn : Functions \cup {NoFunction}, body : Codes \cup {Null}, todo : Seq(Functions),
              queued : BOOLEAN, tries : Nat]
  /\ GlobalAddress \in [Functions -> Address]
  /\ FunctionToStub \in [Functions -> Stubs \cup {Null}]
  /\ StubToFunction \in [Stubs -> Functions \cup {NoFunction}]
  /\ PendingFunctions \in Seq(Functions)
  /\ stub \in [Stubs -> Address \cup {Resolver, Torn, Unused}]
  /\ code \in [Codes -> [fn : Functions \cup {NoFunction}, state : {"none", "emitting", "done", "freed"},
                         refs : [Functions -> Address]]]
  /\ FunctionBlock \in [Functions -> Codes \cup {Null}]
  /\ CurFnStubUses \in [Functions -> SUBSET Stubs]
  /\ StubFnRefs \in [Stubs -> SUBSET Functions]

Live(c) == code[c].state = "done"

\* No call ends at a null address, in code that is half written or freed, or
\* in a stub the resolver does not know.  Addresses are published when
\* emission starts; nobody may follow one before it ends.
NoCallLost == \A t \in Threads : th[t].pc \notin {"null", "dead", "unknown"}

\* However many threads are stuck in stubs of a function, it is compiled once.
OneBody == \A c, d \in Codes : Live(c) /\ Live(d) /\ code[c].fn = code[d].fn => c = d

\* While nobody compiles, the global map names finished bodies of the function.
PublishedFinished == lock = NoThread => \A f \in Functions :
  GlobalAddress[f] \in Codes => Live(GlobalAddress[f]) /\ code[GlobalAddress[f]].fn = f

\* The two maps of stubs agree, and a stub that was rewritten leads where the
\* resolver says it does.
StubsAgree ==
  /\ \A g \in Functions : FunctionToStub[g] # Null => StubToFunction[FunctionToStub[g]] = g
  /\ \A s \in Stubs : stub[s] \in Codes => Live(stub[s]) /\ code[stub[s]].fn = StubToFunction[s]

\* Without a lock holder the work list is empty and no code that can run
\* refers to a stub that leads nowhere.
Settled == lock = NoThread =>
  /\ PendingFunctions = <<>>
  /\ \A c \in Codes : Live(c) => \A g \in Functions :
       code[c].refs[g] \in Stubs => stub[code[c].refs[g]] \notin {Null, Unused}

\* A stub that the current body of a function refers to is one the resolver knows.
ReferencedKnown == \A f \in Functions, g \in Functions :
  LET c == FunctionBlock[f] IN
  c # Null /\ code[c].refs[g] \in Stubs => StubToFunction[code[c].refs[g]] = g

\* What runJITOnFunction reports is the code of the function it was asked for.
ReportsFunction == \A t \in Threads :
  At(t, "idle") /\ th[t].after = "report" =>
    th[t].res \in Codes /\ code[th[t].res].fn = th[t].want

\* Pending functions have not been generated yet.
PendingNotGenerated == \A i \in DOMAIN PendingFunctions : \A c \in Codes :
  code[c].fn = PendingFunctions[i] => ~Live(c)

\* Where OnDemandCalls sees a thread.
where == [t \in Threads |->
  IF At(t, "idle") THEN <<"client">>
  ELSE IF At(t, "body") THEN <<"in", code[th[t].at].fn>>
  ELSE IF th[t].pc \in {"null", "dead", "unknown"} THEN <<"lost">>
  ELSE <<"calling", th[t].callee>>]
Promised == INSTANCE OnDemandCalls WITH
  compiled <- {f \in Functions : \E c \in Codes : Live(c) /\ code[c].fn = f}

\* Functions are compiled once and calls end in the code of what they call,
\* whatever stubs and locks they meet on the way: OnDemandCalls is implemented.
CallsSpec == Promised!Spec

\* Every call arrives, or meets a stub that is being rewritten.
CallsArrive == \A t \in Threads :
  th[t].pc \in {"run", "stub", "acquire", "lookup"} ~> th[t].pc \in {"body", "idle", "torn"}
=============================================================================
