----------------------------- MODULE JITEmitter -----------------------------
(***************************************************************************)
(* The output buffer of the emitter                                        *)
(* (lib/ExecutionEngine/JIT/JITEmitter.cpp): the memory it asks for a      *)
(* function and its exception table, what it writes there, how it saves    *)
(* the buffer while it writes a stub, how it notices that the buffer was   *)
(* too small and tries again, and where global variables go that it meets  *)
(* on the way.  Everything happens under the lock of the engine.  The      *)
(* memory manager is what CodeHeap says of it.                             *)
(***************************************************************************)
EXTENDS Integers, Sequences, FiniteSets

CONSTANTS Functions, Variables,
          Pool, Code, Table,   \* function |-> words of constants, code and exception table
          ConstantRefs, Relocations, TypeInfos,
                               \* function |-> the functions and variables its constants,
                               \* its code and its exception table refer to
          Size, Initializer,   \* variable |-> its words, what its value refers to
          Undefined,           \* the variables whose initialiser writes nothing
          Engines,             \* the ways the engine may be set up
          MaxBlocks,           \* bound on blocks in use at once
          Spare,               \* blocks a client leaves for what one request needs
          Stride,              \* bound on the length of a block; blocks are this far apart
          None

\* An engine: its two switches, the sizes of the free blocks its heap offers,
\* the variables its clients ask for and what else they do.
Engine == [AllocateGVsWithCode : BOOLEAN, DwarfExceptionHandling : BOOLEAN,
           BlockSizes : SUBSET (Nat \ {0}),
           Asked : SUBSET Variables,
           ClientOps : SUBSET {"free", "recompile"}]

ASSUME JITEmitterAssumption ==
  /\ Functions \cap Variables = {} /\ None \notin Functions \cup Variables
  /\ (Functions \cup Variables) \cap Int = {}
  /\ {Pool, Code, Table} \subseteq [Functions -> Nat]
  /\ {ConstantRefs, Relocations} \subseteq [Functions -> Seq(Functions \cup Variables)]
  /\ TypeInfos \in [Functions -> Seq(Variables)]
  /\ Size \in [Variables -> Nat \ {0}]
  /\ Initializer \in [Variables -> Seq(Functions \cup Variables)]
  /\ Undefined \subseteq {v \in Variables : Initializer[v] = <<>>}
  /\ Engines \subseteq Engine
  /\ MaxBlocks \in Nat /\ Spare \in Nat /\ Stride \in Nat \ {0}

Blocks == 1 .. MaxBlocks
NoBlock == 0
Stub == -1       \* memory of stubs

\* Addresses are blocks with offsets.
Pointer(b, n) == [block |-> b, off |-> n]
Null == Pointer(NoBlock, 0)
Wild == Pointer(NoBlock, 1)     \* what lay in memory that nobody initialised

VARIABLES
  engine,
  buf,            \* BufferBegin, BufferEnd, CurBufferPtr
  saved,          \* SavedBufferBegin, SavedBufferEnd, SavedCurBufferPtr
  SizeEstimate,
  job,            \* what is being emitted and what is left to do for it
  block,          \* block |-> its state and its words
  FunctionBlock, TableBlock,  \* as the memory manager knows them
  address,        \* variable |-> its address
  extent,         \* function |-> the words its code and its table were written to
  mapped,         \* the functions the engine has an address for
  stubs           \* the functions that have a stub

buffer == <<buf, saved, SizeEstimate>>
names  == <<address, extent, mapped, stubs>>
heap   == <<block, FunctionBlock, TableBlock>>
vars   == <<engine, buffer, job, heap, names>>

NoBuffer == [begin |-> Null, end |-> Null, cur |-> Null]
Uninitialised == [begin |-> Wild, end |-> Wild, cur |-> Wild]
NoExtent == [block |-> NoBlock, from |-> 0, to |-> 0]
Idle     == [fn |-> None, phase |-> "idle", todo |-> <<>>]

\* The constructor leaves the pointers of the buffer as they are.
Init ==
  /\ engine \in Engines
  /\ buf \in {NoBuffer, Uninitialised} /\ saved = buf /\ SizeEstimate = 0
  /\ job = Idle
  /\ block = [b \in Blocks |-> [state |-> "free", size |-> 0]]
  /\ FunctionBlock = [f \in Functions |-> NoBlock]
  /\ TableBlock = [f \in Functions |-> NoBlock]
  /\ address = [v \in Variables |-> Null]
  /\ extent = [f \in Functions |-> [code |-> NoExtent, table |-> NoExtent]]
  /\ mapped = {} /\ stubs = {}

Fresh(b) == b \in Blocks /\ block[b].state = "free" /\ \A c \in 1 .. b - 1 : block[c].state # "free"
WithBlock(b, s, n) == [block EXCEPT ![b] = [state |-> s, size |-> n]]
FreeBlocks(S) == [b \in Blocks |-> IF b \in S THEN [state |-> "free", size |-> 0] ELSE block[b]]

\* What is left to do: words to write, or something referred to.
Words(what, n) == [op |-> what, words |-> n, to |-> None]
Refer(x) == [op |-> "refer", words |-> 0, to |-> x]
References(s) == [i \in DOMAIN s |-> Refer(s[i])]
Next1 == Head(job.todo)
Doing(op) == job.todo # <<>> /\ Next1.op = op
Done == [job EXCEPT !.todo = Tail(@)]

\* Mutant: a buffer that is exactly full is taken for one that sufficed.
FullPassed == buf.cur.off > buf.end.off

Full == buf.cur = buf.end

Room == buf.end.off - buf.cur.off

-----------------------------------------------------------------------------
\* JITMemoryManager::startFunctionBody: a block of at least n words.
Offers(n) == IF \E s \in engine.BlockSizes : s >= n THEN {s \in engine.BlockSizes : s >= n} ELSE {n}

Buffer(b, n) == [begin |-> Pointer(b, 0), end |-> Pointer(b, n), cur |-> Pointer(b, 0)]

Roomy == Cardinality({b \in Blocks : block[b].state = "free"}) >= Spare

\* startFunction up to the constants, for a function that is asked for or tried again.
StartFunction(f) ==
  /\ \/ job.phase = "idle" /\ Roomy /\ f \notin mapped
     \/ job.phase = "again" /\ f = job.fn
  /\ \E b \in Blocks, n \in Offers(SizeEstimate) \cap 0 .. Stride :
       /\ Fresh(b)
       /\ block' = WithBlock(b, "open", n)
       /\ buf' = Buffer(b, n)
  /\ job' = [fn |-> f, phase |-> "body", todo |-> <<Words("pool", Pool[f]), Words("code", Code[f])>>]
  /\ UNCHANGED <<engine, saved, SizeEstimate, FunctionBlock, TableBlock, names>>

\* allocateSpace in the current buffer, for the constants, which are then
\* initialised unless they did not fit.
EmitConstantPool ==
  /\ Doing("pool")
  /\ \/ /\ Next1.words >= Room
        /\ buf' = [buf EXCEPT !.cur = buf.end]
        /\ job' = Done
     \/ /\ Next1.words < Room
        /\ buf' = [buf EXCEPT !.cur.off = @ + Next1.words]
        /\ job' = [job EXCEPT !.todo = References(ConstantRefs[job.fn]) \o Tail(@)]
  /\ UNCHANGED <<engine, saved, SizeEstimate, heap, names>>

\* Mutant: writing does not.
EmittedUnchecked == buf.cur.off + Next1.words

\* Writing stops at the end of the buffer.
Emitted == IF Next1.words <= Room THEN buf.cur.off + Next1.words ELSE buf.end.off

\* The code or the exception table; when the code begins startFunction gives
\* the function its address.
EmitWords ==
  /\ Doing("code") \/ Doing("table")
  /\ buf' = [buf EXCEPT !.cur.off = Emitted]
  /\ extent' = [extent EXCEPT ![job.fn][Next1.op] =
                  [block |-> buf.cur.block, from |-> buf.cur.off, to |-> Emitted]]
  /\ mapped' = mapped \cup {job.fn}
  /\ job' = Done
  /\ UNCHANGED <<engine, saved, SizeEstimate, heap, address, stubs>>

\* A function is referred to by its stub or its code; a stub is made for it
\* by startGVStub, the target and finishGVStub, after which the buffer is as
\* before.
ReferToFunction ==
  /\ Doing("refer") /\ Next1.to \in Functions
  /\ \/ /\ Next1.to \in stubs \cup mapped
        /\ UNCHANGED <<saved, stubs>>
     \/ /\ Next1.to \notin stubs
        /\ saved' = [buf EXCEPT !.begin = Pointer(Stub, 0)]
        /\ stubs' = stubs \cup {Next1.to}
  /\ job' = Done
  /\ UNCHANGED <<engine, buf, SizeEstimate, heap, address, extent, mapped>>

\* JIT::getOrEmitGlobalVariable of a variable that has an address.
ReferToEmitted ==
  /\ Doing("refer") /\ Next1.to \in Variables /\ address[Next1.to] # Null
  /\ job' = Done
  /\ UNCHANGED <<engine, buffer, heap, names>>

\* Afterwards its initialiser is written.
PlaceVariable(v, p) ==
  /\ address' = [address EXCEPT ![v] = p]
  /\ job' = [job EXCEPT !.todo = References(Initializer[v]) \o Tail(@)]

Unplaced == Doing("refer") /\ Next1.to \in Variables /\ address[Next1.to] = Null

\* JIT::getMemoryForGV, in memory that holds variables only.
AllocateGlobal == LET v == Next1.to IN
  /\ Unplaced /\ ~engine.AllocateGVsWithCode
  /\ PlaceVariable(v, Pointer(v, 0))
  /\ UNCHANGED <<engine, buffer, heap, extent, mapped, stubs>>

\* JITEmitter::allocateSpace when there is no buffer: a block becomes one.
AllocateSpace == LET v == Next1.to IN
  /\ Unplaced /\ engine.AllocateGVsWithCode /\ buf.begin = Null /\ Size[v] <= Stride
  /\ \E b \in Blocks : /\ Fresh(b)
                       /\ block' = WithBlock(b, "kept", Size[v])
                       /\ buf' = Buffer(b, Size[v])
                       /\ PlaceVariable(v, Pointer(b, 0))
  /\ UNCHANGED <<engine, saved, SizeEstimate, FunctionBlock, TableBlock, extent, mapped, stubs>>

\* JITCodeEmitter::allocateSpace in the buffer there is.
AllocateInBuffer == LET v == Next1.to IN
  /\ Unplaced /\ engine.AllocateGVsWithCode /\ buf.begin.block # NoBlock
  /\ Size[v] < Room
  /\ buf' = [buf EXCEPT !.cur.off = @ + Size[v]]
  /\ PlaceVariable(v, buf.cur)
  /\ UNCHANGED <<engine, saved, SizeEstimate, heap, extent, mapped, stubs>>

\* It returns null when there is no room; initialising the variable there
\* ends the program, unless there is nothing to write.
AllocateNothing == LET v == Next1.to IN
  /\ Unplaced /\ engine.AllocateGVsWithCode /\ buf.begin.block # NoBlock
  /\ Size[v] >= Room
  /\ buf' = [buf EXCEPT !.cur = buf.end]
  /\ job' = IF v \in Undefined THEN Done ELSE [job EXCEPT !.phase = "crashed", !.todo = <<>>]
  /\ UNCHANGED <<engine, saved, SizeEstimate, heap, names>>

\* Before the first function the pointers may be anything; what is written
\* through them ends the program, or worse.
AllocateWild ==
  /\ Unplaced /\ engine.AllocateGVsWithCode /\ buf.begin = Wild
  /\ job' = [job EXCEPT !.phase = "crashed", !.todo = <<>>]
  /\ UNCHANGED <<engine, buffer, heap, names>>

-----------------------------------------------------------------------------
\* Mutant: the block ends with the code, not with the buffer pointer.
EndFunctionBodyAtFnEnd ==
  /\ block' = WithBlock(buf.begin.block, "kept", extent[job.fn].code.to)
  /\ FunctionBlock' = [FunctionBlock EXCEPT ![job.fn] = buf.begin.block]

\* JITMemoryManager::endFunctionBody.
EndFunctionBody ==
  /\ block' = WithBlock(buf.begin.block, "kept", buf.cur.off)
  /\ FunctionBlock' = [FunctionBlock EXCEPT ![job.fn] = buf.begin.block]

\* finishFunction, when nothing more fits before the relocations are resolved.
FinishOverflown ==
  /\ job.phase = "body" /\ job.todo = <<>> /\ Full
  /\ EndFunctionBody
  /\ job' = [job EXCEPT !.phase = "retry"]
  /\ UNCHANGED <<engine, buffer, TableBlock, names>>

ResolveRelocations ==
  /\ job.phase = "body" /\ job.todo = <<>> /\ ~Full
  /\ job' = [job EXCEPT !.phase = "relocations", !.todo = References(Relocations[job.fn])]
  /\ UNCHANGED <<engine, buffer, heap, names>>

\* The rest of finishFunction, up to the exception table; resolving
\* relocations may have filled the buffer.
FinishFunction ==
  /\ job.phase = "relocations" /\ job.todo = <<>>
  /\ EndFunctionBody
  /\ IF Full THEN /\ job' = [job EXCEPT !.phase = "retry"]
                  /\ UNCHANGED <<buf, SizeEstimate>>
             ELSE /\ job' = IF engine.DwarfExceptionHandling THEN [job EXCEPT !.phase = "finished"] ELSE Idle
                  /\ buf' = [buf EXCEPT !.begin = Null, !.cur = Null]
                  /\ SizeEstimate' = 0
  /\ UNCHANGED <<engine, saved, TableBlock, names>>

\* Mutant: the exception table is forgotten.
DeallocateBodyOnly(f) ==
  /\ block' = FreeBlocks({FunctionBlock[f]})
  /\ FunctionBlock' = [FunctionBlock EXCEPT ![f] = NoBlock]
  /\ extent' = [extent EXCEPT ![f] = [code |-> NoExtent, table |-> NoExtent]]
  /\ UNCHANGED TableBlock

\* JITMemoryManager::deallocateMemForFunction.
DeallocateMemForFunction(f) ==
  /\ block' = FreeBlocks({FunctionBlock[f], TableBlock[f]})
  /\ FunctionBlock' = [FunctionBlock EXCEPT ![f] = NoBlock]
  /\ TableBlock' = [TableBlock EXCEPT ![f] = NoBlock]
  /\ extent' = [extent EXCEPT ![f] = [code |-> NoExtent, table |-> NoExtent]]

\* Mutant: not twice as much.
RetryWithSameMemory ==
  /\ job.phase = "retry"
  /\ DeallocateMemForFunction(job.fn)
  /\ SizeEstimate' = buf.end.off - buf.begin.off
  /\ job' = [job EXCEPT !.phase = "again"]
  /\ UNCHANGED <<engine, buf, saved, address, mapped, stubs>>

RetryWithMoreMemory ==
  /\ job.phase = "retry"
  /\ DeallocateMemForFunction(job.fn)
  /\ SizeEstimate' = 2 * (buf.end.off - buf.begin.off)
  /\ job' = [job EXCEPT !.phase = "again"]
  /\ UNCHANGED <<engine, buf, saved, address, mapped, stubs>>

StartExceptionTable ==
  /\ job.phase = "finished"
  /\ saved' = buf
  /\ \E b \in Blocks, n \in Offers(0) \cap 0 .. Stride :
       /\ Fresh(b)
       /\ block' = WithBlock(b, "open", n)
       /\ buf' = Buffer(b, n)
  /\ job' = [job EXCEPT !.phase = "table",
                        !.todo = <<Words("table", Table[job.fn])>> \o References(TypeInfos[job.fn])]
  /\ UNCHANGED <<engine, SizeEstimate, FunctionBlock, TableBlock, names>>

EndExceptionTable ==
  /\ job.phase = "table" /\ job.todo = <<>>
  /\ block' = WithBlock(buf.begin.block, "kept", buf.cur.off)
  /\ TableBlock' = [TableBlock EXCEPT ![job.fn] = buf.begin.block]
  /\ buf' = saved
  /\ job' = Idle
  /\ UNCHANGED <<engine, saved, SizeEstimate, FunctionBlock, names>>

-----------------------------------------------------------------------------
\* Clients: a variable is asked for between functions, a function is freed.
GetPointerToGlobal(v) ==
  /\ v \in engine.Asked /\ Roomy /\ job.phase = "idle" /\ address[v] = Null
  /\ job' = [job EXCEPT !.phase = "variable", !.todo = <<Refer(v)>>]
  /\ UNCHANGED <<engine, buffer, heap, names>>

ReturnPointer ==
  /\ job.phase = "variable" /\ job.todo = <<>>
  /\ job' = Idle
  /\ UNCHANGED <<engine, buffer, heap, names>>

\* The address is taken back, then the memory.
FreeMachineCodeForFunction(f) ==
  /\ "free" \in engine.ClientOps /\ job.phase = "idle" /\ FunctionBlock[f] # NoBlock
  /\ mapped' = mapped \ {f}
  /\ DeallocateMemForFunction(f)
  /\ UNCHANGED <<engine, buffer, job, address, stubs>>

\* The address is taken back for a new compilation; the old code stays.
RecompileAndRelinkFunction(f) ==
  /\ "recompile" \in engine.ClientOps /\ job.phase = "idle" /\ Roomy /\ f \in mapped
  /\ mapped' = mapped \ {f}
  /\ job' = [fn |-> f, phase |-> "again", todo |-> <<>>]
  /\ UNCHANGED <<engine, buffer, heap, address, extent, stubs>>

Emit ==
  \/ EmitConstantPool \/ EmitWords \/ ReferToFunction \/ ReferToEmitted
  \/ AllocateGlobal \/ AllocateSpace \/ AllocateInBuffer \/ AllocateNothing \/ AllocateWild
  \/ FinishOverflown \/ ResolveRelocations \/ FinishFunction \/ RetryWithMoreMemory
  \/ StartExceptionTable \/ EndExceptionTable \/ ReturnPointer

Next ==
  \/ \E f \in Functions : \/ StartFunction(f) \/ FreeMachineCodeForFunction(f)
                        \/ RecompileAndRelinkFunction(f)
  \/ \E v \in Variables : GetPointerToGlobal(v)
  \/ Emit

Spec == Init /\ [][Next]_vars

\* The thread that emits holds the lock of the engine and goes on.
FairSpec == Spec /\ WF_vars(Emit)
                 /\ \A f \in Functions : WF_vars(job.phase = "again" /\ StartFunction(f))

-----------------------------------------------------------------------------
Address == [block : Blocks \cup Variables \cup {NoBlock, Stub}, off : Int]
Buf == [begin : Address, end : Address, cur : Address]
Task == [op : {"pool", "code", "table", "refer"}, words : Nat, to : Functions \cup Variables \cup {None}]
Phase == {"idle", "body", "relocations", "retry", "again", "finished", "table", "variable", "crashed"}
Extent == [block : Blocks \cup {NoBlock}, from : Nat, to : Nat]

\* Every variable has its type, the buffer that code is written to is an open
\* block, and its pointers are in it, in order.
TypeOK ==
  /\ engine \in Engines
  /\ buf \in Buf /\ saved \in Buf /\ SizeEstimate \in Nat
  /\ job \in [fn : Functions \cup {None}, phase : Phase, todo : Seq(Task)]
  /\ block \in [Blocks -> [state : {"free", "open", "kept"}, size : Nat]]
  /\ {FunctionBlock, TableBlock} \subseteq [Functions -> Blocks \cup {NoBlock}]
  /\ address \in [Variables -> Address]
  /\ extent \in [Functions -> [code : Extent, table : Extent]]
  /\ mapped \subseteq Functions /\ stubs \subseteq Functions
  /\ job.phase \in {"body", "relocations", "table"} =>
       /\ {b \in Blocks : block[b].state = "open"} = {buf.begin.block}
       /\ buf.cur.block = buf.begin.block /\ buf.end.block = buf.begin.block
       /\ buf.begin.off <= buf.cur.off /\ buf.cur.off <= buf.end.off

\* Between two requests, whatever the emission of a function took -- retries,
\* stubs and variables in between, an exception table --, a function with an
\* address has all of its code, and of its table, in the blocks the memory
\* manager will free for it.
EmittedWhole ==
  LET Whole(e, b, n) == b # NoBlock /\ e.block = b /\ e.to - e.from = n
  IN  job.phase = "idle" =>
        \A f \in mapped :
          /\ Whole(extent[f].code, FunctionBlock[f], Code[f])
          /\ engine.DwarfExceptionHandling => Whole(extent[f].table, TableBlock[f], Table[f])

\* What was written and may be used -- code, exception tables, variables --
\* lies in blocks that are in use, within what the memory manager was told to
\* keep of them, and no two share a word.
EmittedApart ==
  LET Written(x) == IF x \in Variables
                    THEN [block |-> address[x].block, from |-> address[x].off,
                          to |-> address[x].off + Size[x]]
                    ELSE extent[x[1]][x[2]]
      Things == {x \in Variables \cup (Functions \X {"code", "table"}) : Written(x).block \in Blocks}
  IN  \A x \in Things : LET e == Written(x) IN
        /\ block[e.block].state # "free" /\ e.to <= block[e.block].size
        /\ \A y \in Things \ {x} :
             Written(y).block = e.block => e.to <= Written(y).from \/ Written(y).to <= e.from

\* The emitter uses the memory manager the way CodeHeap describes it: a
\* region is reserved, becomes code of a function when it is finished, keeps
\* its start, and goes back with the function.
Start(b) == b * Stride
Arena == [s \in {0} |-> (MaxBlocks + 1) * Stride]
InUse == {b \in Blocks : block[b].state # "free"}
Regions == [s \in {Start(b) : b \in InUse} |-> block[s \div Stride].size]
BlocksOf(f) == {FunctionBlock[f], TableBlock[f]} \ {NoBlock}
Coded == {f \in Functions : BlocksOf(f) # {}}
Heap == INSTANCE CodeHeap WITH
  arena   <- Arena,
  regions <- Regions,
  code    <- [f \in Coded |-> {Start(b) : b \in BlocksOf(f)}]
HeapUse == Heap!Spec

\* Every emission ends, however small the first buffer was: each retry asks
\* for twice as much, and a function always fits in the end.
EmissionEnds == job.phase # "idle" ~> job.phase \in {"idle", "crashed"}
=============================================================================
