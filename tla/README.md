# Models of LLVM 2.6

This directory holds TLA+ models of parts of LLVM 2.6, the TLC configurations
that check them on small instances, and proofs of their main properties for
every value of the constants.  Paths such as `lib/Support/ManagedStatic.cpp`
are relative to `src/`.

LLVM is for the most part a library of sequential algorithms over a program
representation.  The models start where it is something else: where several
threads meet, where a long sequence of calls works on one long-lived data
structure, and where two structures have to agree.  That is the JIT and the
runtime support it stands on.

1. [Inventory](#1-inventory)
2. [The modules and the code](#2-the-modules-and-the-code)
3. [What the runs show](#3-what-the-runs-show)
4. [What is proved](#4-what-is-proved)
5. [Findings](#5-findings)
6. [Not modelled](#6-not-modelled)
7. [Plan](#7-plan)

To repeat the work, in this directory:

    tlc -workers 2 -config JITMemoryManagerOneSlab.cfg MCJITMemoryManager
    tlapm JITMemoryManagerProofs.tla

with the module and configuration of each run listed in section 3.

## 1. Inventory

### Components that are modelled

**Code heap of the JIT** (`lib/ExecutionEngine/JIT/JITMemoryManager.cpp`,
`DefaultJITMemoryManager`).
*State*: slabs of executable memory; in them blocks, each with a header
(`ThisAllocated`, `PrevAllocated`, `BlockSize`) and, when free, two links and a
copy of the size in its last word; the head of the circular free list; the block
being emitted; the maps from functions to their code and their exception table.
*Operations*: `startFunctionBody`/`endFunctionBody`,
`startExceptionTable`/`endExceptionTable`, `allocateSpace`,
`deallocateMemForFunction`, and the mapping of a new slab inside the search for
room.  *Callers*: the JIT emitter, which offers a size, writes, and ends with
what it used; the JIT, when a function is discarded.
*Hard*: one wrong flag, marker or link shows only many calls later, when a
neighbour is freed; sizes at the limits (a rest too small to be a block, the
tombstone exactly as large as the request, a request above the slab size);
the head of the list being merged away.
*Correct when*: the blocks tile the slabs; tags and links agree; every allocated
block has one owner; no two regions in use share a word; a request is met; no
assert fails.

**Global address maps** (`lib/ExecutionEngine/ExecutionEngine.cpp`,
`ExecutionEngineState`).
*State*: `GlobalAddressMap`, from global values to addresses, and
`GlobalAddressReverseMap`, built lazily and from then on kept up to date.
*Operations*: `addGlobalMapping`, `updateGlobalMapping`,
`clearAllGlobalMappings`, `clearGlobalMappingsFromModule` (through
`removeModuleProvider` and `deleteModuleProvider`), `getGlobalValueAtAddress`.
*Callers*: the JIT while it compiles (a function's address when its emission
starts, globals when they are referenced, `emitGlobals`), clients, and the
debugging aids that look addresses up.  *Hard*: "not built yet" is encoded as
"empty", which any removal can bring back; several globals may have one address;
the removal of modules and null mappings.
*Correct when*: a lookup finds the global whose address is its own and names no
other, the assert against double mappings fires when there are some and only
then, nothing is kept about a global that is destroyed.

**Managed statics and the threading mode** (`lib/Support/ManagedStatic.cpp`,
`include/llvm/Support/ManagedStatic.h`, `lib/System/Threading.cpp`).
*State*: per static its pointer, its deleter and its link; the list of statics;
whether LLVM runs multithreaded; the recursive global lock.
*Operations*: dereferencing a static (double-checked creation),
`llvm_start_multithreaded`, `llvm_shutdown`, `llvm_stop_multithreaded`.
*Users*: nearly every library; constructors and destructors of statics
dereference other statics.  *Hard*: memory is read without the lock; the
pointer is visible before the rest of the static is; constructors nest under a
recursive lock; a destructor can bring a destroyed static back to life in the
middle of a shutdown.  *Correct when*: every static is created once and handed
out only complete, a shutdown destroys all in dependency order, and every call
returns.

**JIT driver, resolver of stubs and target support**
(`lib/ExecutionEngine/JIT/JIT.cpp`, `JITResolver` in `JITEmitter.cpp`,
`lib/Target/X86/X86JITInfo.cpp`).
*State*: the lock of the engine; the work list of pending functions; the maps
between functions and their stubs; which function refers to which stub; the
stubs themselves, which are code that is rewritten; whether compilation is lazy.
*Operations*: `getPointerToFunction`, `getPointerToFunctionOrStub`,
`runJITOnFunction`, `recompileAndRelinkFunction`, `freeMachineCodeForFunction`;
`JITCompilerFn`, which a thread enters from machine code through a stub; the
rewriting of that stub.
*Hard*: machine code runs without the lock, so several threads are stuck in one
stub while the function behind it is compiled; `JITCompilerFn` takes the lock and
gives it back between finding the function, compiling it and erasing the stub;
the address of a function is published when its emission starts; functions met
on the way are compiled from a list later; a retry takes stubs back.
*Correct when*: a function is compiled once; a call ends in finished code of the
function it names; the stub maps agree and no running code refers to a stub that
leads nowhere.

**Output buffer of the emitter** (`JITEmitter.cpp`, the members `BufferBegin`,
`BufferEnd`, `CurBufferPtr` of `JITCodeEmitter.h`; `getMemoryForGV` and
`getOrEmitGlobalVariable` in `JIT.cpp`).
*State*: three pointers into the block that is written, a saved copy of them,
the size to ask for next; the addresses of global variables.
*Operations*: `startFunction`, the constants, the code, `finishFunction`,
`retryWithMoreMemory`, the exception table, `startGVStub`/`finishGVStub` in the
middle of all this, `allocateSpace` for variables.
*Hard*: a full buffer swallows what does not fit and only a comparison of two
pointers tells, at two places; a function can overflow before, while and after
its relocations are resolved; a retry starts over after things were already
mapped, written and freed; variables may be placed in the buffer of the function
that refers to them.
*Correct when*: a function with an address has all its words in the blocks the
memory manager frees for it; no two things written share a word; emission ends.

**Value handles** (`include/llvm/Support/ValueHandle.h`, `lib/VMCore/Value.cpp`).
*State*: the handles of a value, linked through pointers to pointers; the table
of list heads in the context, which moves when it grows; a bit in the value.
*Operations*: construction, assignment, copying and destruction of handles;
`ValueIsDeleted` and `ValueIsRAUWd`, which walk a list and call back.
*Hard*: callbacks move handles on the very list that is walked, their own and
others, and delete and replace further values, so walks nest; a walk keeps the
next handle while a callback runs; growth of the table invalidates the back
pointers of every first handle.
*Correct when*: the list of a value holds exactly the handles that watch it;
a walk stays on the list of its value; nobody who watched it is missed.

### How the JIT's components interact

    client threads ── getPointerToFunction ──► JIT (lock) ──► JITEmitter ──► JITMemoryManager
         │                                        │               │             (CodeHeap)
         └── call through a stub ──► JITCompilerFn ┘               └──► addGlobalMapping
                                     (JITResolver)                      (GlobalMapping)
    the JIT's maps ── AssertingVH ──► value handles
    every component ── operator-> ──► ManagedStatic ──► global lock (Threading)

Everything on the first line runs under the lock of the engine, except machine
code, the rewriting of stubs, and the freeing of a function's memory.

### Components that are not modelled

| component | state | operations and what is hard | what would make it correct |
|---|---|---|---|
| pass manager, `VMCore/PassManager.cpp` | stacks of managers, available analyses, last users | scheduling with preservation and freeing of analyses | an analysis is available and fresh when a pass asks for it, and is freed after its last user |
| types, `VMCore/Type.cpp` | uniquing tables, abstract users, forwarding | refinement that triggers refinement | structurally equal types stay one type; forwarding ends |
| dominators | the tree | Lengauer–Tarjan | equals the definition by paths |
| linker | two modules | resolution of linkage pairs | result depends as documented on both linkages |
| containers and allocators | open addressing with tombstones, arenas | probing after erasures, growth at load limits | agree with a set or a map |
| arithmetic | none | wrap-around ranges | `ConstantRange` operations contain all results |
| operating system interface | children, files to remove | the alarm in `Program::Wait`, signals during removal | time-outs kill once; files are removed once |
| bugpoint's list reduction | lists | bisection with an interesting test that may lie | the result still fails |

The other components (interpreter, constants and instructions, command line,
analyses, transformations, code generation, targets, readers and writers, MC,
driver, debugger, tools, clang, tests) are in `PROJECT.json` with the reason
they are left out.  The hazards of the code, each at its line and with the
properties that look after it, are there too.

## 2. The modules and the code

| module | what it is |
|---|---|
| `JITMemoryManager` | the code heap, one action per public operation |
| `CodeHeap` | what the JIT relies on from a memory manager: regions that never overlap |
| `JITMemoryManagerProofs`, `CodeHeapProofs` | proofs |
| `GlobalMapping`, `GlobalMappingProofs` | the two global maps, and proofs |
| `ManagedStatic`, `ManagedStaticProofs` | managed statics, the global lock, shutdown, at the grain of memory accesses, and proofs |
| `LazyObjects`, `LazyObjectsProofs` | what users of managed statics rely on, and a proof |
| `JITResolver`, `JITResolverProofs` | threads that compile on demand: driver, resolver, stubs, and proofs |
| `OnDemandCalls` | what a client of the JIT is promised |
| `JITEmitter`, `JITEmitterProofs` | the output buffer, over a memory manager that is a `CodeHeap`, and proofs |
| `ValueHandles`, `ValueHandlesProofs` | the lists of handles and the walks over them, and proofs |
| `MCJITMemoryManager`, `MCGlobalMapping`, `MCManagedStatic`, `MCJITResolver`, `MCJITEmitter`, `MCValueHandles` | constants for TLC and, for symmetry, one instance of a liveness property |

`CodeHeap` stands between two of them: `JITMemoryManager` implements it and
`JITEmitter` keeps to it (`HeapUse`; both are proved), so that the emitter can be
studied without the boundary tags.  `JITResolver` leaves out the words of the
code and `JITEmitter` the threads; what they share is the order of emission:
`StartFunction`, the relocations, `RetryWithMoreMemory`, `FinishFunction`.

### JITMemoryManager

Memory is one record `mem`: the headers (`size`, `allocated`, `prevAllocated`),
the links (`next`, `prev`), the end markers (`mark`) and the head of the free
list.  Headers are keyed by the address of their block and a marker by the
address just behind it, the place `getFreeBlockBefore` reads it from.  The
operators of `MemoryRangeHeader` and `FreeRangeHeader` are functions from one
memory to the next under the names they have in the code; every `assert` they
contain is conjoined to `mem.ok`.  What a caller's data overwrites is *removed*
from the marks, so no operation can profit from a stale one.

| code | model |
|---|---|
| `FreeBlock`, `AllocateBlock`, `GrowBlock`, `TrimAllocationToSize`, `AddToFreeList`, `RemoveFromFreeList`, `SetEndOfBlockSizeMarker` | the operators of the same name |
| the first part of `FreeBlock` | `MergeFollowing` |
| `allocateNewCodeSlab` | `WithSlab` |
| the constructor | `InitialMem`, `Mem0` to `Mem3` |
| `startFunctionBody` and the search in it | `StartFunctionBody`, `StartBlock`, `Candidates`, `BigEnough` |
| `endFunctionBody`, `endExceptionTable` | `EndFunctionBody`, `EndExceptionTable` |
| `allocateSpace` | `AllocateSpace` |
| `deallocateMemForFunction` | `DeallocateMemForFunction` |

Abstractions: a machine word is the unit (a header is one word, the smallest
block four, and the alignment of a header one, so that rounding sizes up to it
is already done); the search for the largest free block keeps any of the largest
where the code keeps the first it meets; `mmap` places a new slab behind the one
it was told to follow, at a distance taken from `SlabGaps` (the data and stub
slabs, not modelled otherwise, lie in those gaps).  `emitting` is the protocol of
the interface: no two start calls without an end call between them, and nothing
is freed during an emission (`JITMemoryManager.h`).  `spaceBlocks` and
`leakedBlocks` are history variables: the code forgets these blocks.

`Spec` assumes that callers of `allocateSpace` know the head of the free list to
be large enough (`HeadHolds`); `SpecUnchecked` drops that, as
`JITEmitter::allocateSpace` does.  Section 5 has the difference.

### GlobalMapping

The maps are functions with the names of the code.  Every operation of the code
runs under `ExecutionEngine::lock`, so each is one action; building the reverse
map is part of the lookup.  A null address is a value of the forward map, as in
the code: the JIT maps weak externals it cannot resolve to null
(`JIT.cpp:666`, `JIT.cpp:697`) and takes the address from a function it
recompiles (`JIT.cpp:721`).  `module` says where a module is; a deleted one takes
its globals with it.

Several globals may have one address: `emitGlobals` gives the copies of a global in
other modules the address of the canonical one (`ExecutionEngine.cpp:1018`), and
equally named declarations of several modules are found at one address of the
process (`JIT.cpp:662`, `JIT.cpp:692`).  So any global is given any address here.
The reverse map then names one of them, which one depends on the order of the
globals in memory (`BuiltReverse`), and the update or removal of any of them erases
the entry of all.  `AddGlobalMapping` is for a global without an address, which is
the first assert of `addGlobalMapping` and what its callers look at before; the
exception, an `emitGlobals` that maps copies a second time, is not in the model.

Two history variables constrain no step: `leftBehind` is what an operation took out
of the forward map only, and `shared` the addresses that several globals had at
once since the reverse map was last built.  Three specifications share the actions:
`SpecModules` (no null), `SpecNull` (modules stay) and `Spec` (everything).

### ManagedStatic

Each thread has a stack of calls; a call is at a point of the function it runs
for some static.  One step is one access to shared memory: the unlocked read of
`Ptr`, the lock, the second read, the end of the constructor, the store to `Ptr`,
the linking into the list, the unlock, the last read of `Ptr` in `operator->`.
Memory is taken to be sequentially consistent because the code puts a
`sys::MemoryFence` between the construction of the object and the store to `Ptr`,
and behind the unlocked read.  Linking sets `DeleterFn`, `Next` and `StaticList` in one
step: all three are touched under the lock only, or during a shutdown, where
nobody else runs.

Constructors and destructors are the sets of statics they dereference
(`CreatorUses`, `DeleterUses`), in any order, and may be entered at any depth.
A constructor that came back to its own static would not terminate in the code
either, hence the assumption `ManagedStaticAssumption` that the uses are well
founded.  Clients behave as `Threading.h` and `docs/ProgrammersManual.html`
demand: `llvm_start_multithreaded` and `llvm_shutdown` run alone, and before the
former only one thread uses LLVM (`Isolated`, `MayCall`).

### JITResolver

A thread has a program counter and the locals of the function it is in.  A
stretch of code under the lock is one action that waits for the lock, except for
a compilation: it takes the lock, and its steps happen one by one while other
threads run machine code.

| code | model |
|---|---|
| `JIT::getPointerToFunction`, before and with the lock | `GetPointerToFunction`, `Acquire` |
| `getPointerToFunctionOrStub` | `GetPointerToFunctionOrStub`, `GetFunctionStub` |
| `runJITOnFunction`, `recompileAndRelinkFunction`, `freeMachineCodeForFunction` | `RunJITOnFunction`; `RecompileAndRelinkFunction`, `Rejit`; `FreeMachineCode`, `DeallocateMem` |
| `startFunction`, the relocations of `finishFunction`, its end, `retryWithMoreMemory` | `StartFunction`, `Relocate`, `FinishFunction`, `RetryWithMoreMemory` |
| the loop of `runJITOnFunctionUnlocked` over pending functions | `NextPending`, `UpdateFunctionStub`, `Compiled` |
| `getFunctionStub`, `AddStubToCurrentFunction`, `deallocateMemForFunction` and what it invalidates | `EmitStub`, `AddStub`, `Deallocate` |
| a thread in machine code | `Run`, `Call`, `ReturnFromBody` |
| `JITCompilerFn` | `FindStub`, `CheckCompiled`, `Acquire`, `EraseStub` |
| `X86CompilationCallback2` | `TearStub`, `MendStub` |

A stub is a number, so that the search of `JITCompilerFn` for the last stub at or
before a return address can be what it is; it holds the address it jumps to, or
calls the resolver.  Its two stores when it is rewritten are two steps, and in
between it is `Torn`.  A thread that meets what it should not ends in a program
counter of its own: `"null"`, `"dead"` (code that is not finished, or freed),
`"unknown"` (a stub the resolver does not know), `"torn"`, `"crashed"` (a report
to a null `MachineCodeInfo`).  Freeing a function is one step, `DeallocateMem`, where
the code gives up the lock between the stubs it invalidates
(`JITEmitter.cpp:1166`).  That is the same as long as the thread that frees is the
only one (`OneFrees`), and every run and theorem about frees is for that case.
`updateFunctionStub` emits a stub anew if its function has none
(`JITEmitter.cpp:1427`); a function on the work list that has been compiled has one
unless another thread frees in between, so this is not modelled.  Every reference of one function to another is a
call that needs a stub, and what a function refers to is `Calls`.  External
functions are found with `dlsym`.  A retry shows before or after the relocations
are resolved; how it comes about is the business of `JITEmitter`.  `ClientOps`
says which calls clients make besides `getPointerToFunction`.

### JITEmitter

One request at a time, since everything here holds the lock of the engine.  A
block is a number with a size, a pointer a block with an offset; `todo` is the
list of what is left to be done in this phase: words to write (constants, code,
exception table) or a function or variable that is referred to, whose own
initialiser is put in front of the rest.

| code | model |
|---|---|
| `startFunction` | `StartFunction`, `EmitConstantPool`, the first part of `EmitWords` |
| `emitByte`, `emitWordLE`, … | `EmitWords`, `Emitted` |
| `finishFunction` | `FinishOverflown`, `ResolveRelocations`, `FinishFunction` |
| its part behind `DwarfExceptionHandling` | `StartExceptionTable`, `EndExceptionTable` |
| `retryWithMoreMemory` | `RetryWithMoreMemory` |
| `startGVStub`, `finishGVStub` | `ReferToFunction` |
| `JITCodeEmitter::allocateSpace` | `EmitConstantPool`, `AllocateInBuffer`, `AllocateNothing` |
| `JITEmitter::allocateSpace` outside of a function | `AllocateSpace`, `AllocateWild` |
| `getOrEmitGlobalVariable`, `getMemoryForGV` | `ReferToEmitted`, `AllocateGlobal`, `PlaceVariable` |
| `recompileAndRelinkFunction`, `freeMachineCodeForFunction` | the actions of the same name |

The constructor leaves the three pointers uninitialised, so `Init` takes them to
be null or `Wild`.  The memory manager offers a block of one of the sizes the
engine's `BlockSizes` has, at least as large as asked, or exactly what was asked.
An engine is a record of its switches (`AllocateGVsWithCode`,
`DwarfExceptionHandling`) and of what its clients do.  Alignment is left out.

### ValueHandles

`mem` holds the three words of each handle, the head of each value's list, its
`HasValueHandle` bit and the number of the table the heads are in now.  A handle's
`Prev` is a place: `Next` of another handle, or the bucket of a value in a certain
table; `FixPrevPointers` is the loop that mends them after a move.  A walk is an
entry of `walks`, innermost first, with the handle to visit next (`entry`, advanced
before the present one is notified) and the callback it is in (`calling`).  A handle
that is set to null keeps its old `Next`, which only a walk that kept the handle
still reads: that is `left`.  A handle that is destroyed, or made again at the same
place, is taken to read the same way, as memory that nobody has overwritten.  For
the properties each walk also records whom it has notified, or who came to its
value since it began (`seen`), and whether the handle it kept was moved (`strayed`).

| code | model |
|---|---|
| `AddToExistingUseList`, `AddToUseList`, `RemoveFromUseList` | the operators of the same name |
| assignment and construction from a value, destruction; from a handle | `Assign`; `Copy` |
| `ValueIsDeleted`, and `~Value` around it | `DeleteValue`, `VisitWeak`, `VisitCallback`, `Return`, `Destroyed` |
| `ValueIsRAUWd`, and `replaceAllUsesWith` around it | `ReplaceAllUsesWith`, the visits with `VisitAssert`, `Replaced` |

Whether an insertion moves the table is open, once per table.  In a callback a
client may do what it may do anywhere else: assign, copy and destroy any handle,
those of the values being walked included, put handles on a value that is dying
(`SCEVCallbackVH::deleted` does, for the key it looks up, `ScalarEvolution.cpp:5038`),
replace the value being walked once more.  Three rules remain.  No value is used once
it is destroyed, nor destroyed while a member function of it runs (`Walked`): that
would be a use of freed memory outside of this code.  `deleted()` must let go of the
value, as the header demands.  And with `OwnOnly`, in one run, a callback moves no
handle but its own.  Deleting a value that an asserting handle watches, or that is
still used, ends the program, and the model stops there; so it does where "All
references to V were not removed?" fires.

## 3. What the runs show

| run | module, configuration | checks |
|---|---|---|
| `one_slab` | `MCJITMemoryManager`, `JITMemoryManagerOneSlab.cfg` | `TypeOK`, `CheckInvariants`, `Coalesced`, `OneOwner`, `NoAssertFails` |
| `two_slabs` | `MCJITMemoryManager`, `JITMemoryManagerTwoSlabs.cfg` | `LastBlocksUntouched`, `OffersRequested`, `HeapSpec` |
| `unchecked_space` | `MCJITMemoryManager`, `JITMemoryManagerUnchecked.cfg` | `LastBlocksUntouched` is violated |
| `mapping_all` | `MCGlobalMapping`, `GlobalMappingAll.cfg` | `TypeOK`, `ReverseComplete`, `ReverseSound`, `SharingCaught`, `OnlySharingCaught` |
| `mapping_deleted` | `MCGlobalMapping`, `GlobalMappingDeleted.cfg` | `NoHandleToDestroyed` is violated |
| `mapping_null` | `MCGlobalMapping`, `GlobalMappingNull.cfg` | `AssertMeansEstablished` is violated |
| `statics` | `MCManagedStatic`, `ManagedStatic.cfg` | `TypeOK`, `CreatorsSerialized`, `OneObject`, `AssertsHold`, `ListIntact`, `ShutdownClean`, `ObjectsSpec`, `CallsReturn` |
| `resolver` | `MCJITResolver`, `JITResolverCalls.cfg` | `TypeOK`, `NoCallLost`, `OneBody`, `StubsAgree`, `Settled`, `PendingNotGenerated`, `CallsSpec`, `CallsArrive` |
| `resolver_lifecycle` | `MCJITResolver`, `JITResolverLifecycle.cfg` | `ReferencedKnown`, `ReportsFunction`, `PublishedFinished` |
| `emitter` | `MCJITEmitter`, `JITEmitter.cfg` | `TypeOK`, `EmittedWhole`, `EmittedApart`, `HeapUse`, `EmissionEnds` |
| `handles` | `MCValueHandles`, `ValueHandles.cfg` | `ListsIntact`, `OnlyMovesStray`, `NoneMissed` |
| `handles_recovering` | `MCValueHandles`, `ValueHandlesRecovering.cfg` | `WatchesWalked` is violated |

**Code heap.** `one_slab` has one slab of 28 words, of which 22 can be allocated:
room for up to five small blocks, so that a block can be freed with no, a
front, a back and two free neighbours, the head of the list is merged away, and
rests just too small and just large enough to split come up (`CodeSizes` 3 and 5,
and code that fills its block).  The two functions have tables and are emitted
again without being freed.  `two_slabs` makes the first slab too small for most
requests (17 words where 12 can be allocated), so the second slab, page rounding
(`PageSize = 2`), the head in the other slab and the refusal of the tombstone are
reached.  It also checks that the manager implements `CodeHeap` under the mapping of
`JITMemoryManager` (a region is an allocated block that is no separator).  Both
runs set `CHECK_DEADLOCK FALSE`: with `MaxSlabs` slabs in use and none free the
model stops where the program would map a further slab, or end through
`llvm_report_error` when `mmap` fails.  `FunctionSymmetry` is sound since no
property names a function.

**Global maps.** Three globals of two modules and two addresses, besides null:
enough for one entry to be displaced by a second while a third keeps the reverse
map built, for two globals to share an address while a third has its own, and for
the last entry to go.  A lookup finds every global whose address was only its own
since the reverse map was built (`ReverseComplete`), and a wrong answer stems from a
module that left or a null mapping (`ReverseSound`).  The second assert of
`addGlobalMapping`, which is only reached with a reverse map in use, misses no
address that comes to be shared (`SharingCaught`), and fires for nothing but such an
address and entries left behind (`OnlySharingCaught`).  That it fires for the former
means that `emitGlobals` with copies must not run after a lookup by address.

**Managed statics.** Four statics: one whose constructor uses another (the
pseudo source values use the global context, `PseudoSourceValue.cpp`) and one
whose destructor uses another (destroying the pass timing report removes timers
under their lock, `Timer.cpp`).  That gives nesting under the lock, and a static
that is resurrected during a shutdown.  Three threads are needed for a thread
that misses the pointer while a second holds the lock and a third already uses
the object.  Multithreaded mode may be entered at any time, left by a shutdown and
entered again.  Deadlock is checked.

**Resolver.** `main` calls `leaf` and `helper`, `helper` calls `leaf`, and `leaf`
calls the external `puts`: a function that is referred to from two places, one of
them compiled while the other is pending, and one that is never compiled.  `leaf`
may turn out not to fit once (`MCLeafRetries`).  `resolver` runs two threads, with
and without lazy compilation; with two there is one in the middle of a compilation
while another looks up, waits, checks again or rewrites the same stub.
`MaxStubs = 5` and `MaxCodes = 4` are all that these functions can need there; a
behaviour that ran out of them would not satisfy `CallsArrive`.
`CallsSpec` shows that the promise of `OnDemandCalls` is kept, with a call being
anything from the request to the arrival; a thread in a torn stub counts as still
calling.  `CallsArrive` says it arrives, or meets a stub that is being rewritten.
`resolver_lifecycle` has one thread, which between its calls frees, recompiles and
asks for reports in any order, with `dlsym` stubs, whose references are counted;
clients call only while there is `Room` for what the call can need (`MaxStubs = 8`,
`MaxCodes = 7`), which leaves time for two rounds.  Both set `CHECK_DEADLOCK FALSE`
for the end states: a torn stub, the null `MachineCodeInfo`, no more room.

**Emitter.** Two functions that refer to each other and three variables, among
them one whose value refers to another variable and a function, and one whose
initialiser writes nothing.  Block sizes 2, 3 and 5 (3, 5 and 6 for the other
engine) against functions of 4 and 2 words make buffers that are ample, exactly
full, and overflown by the constants, the code, or a variable that a relocation
placed in them, and retries that ask for twice as much.  The first engine
keeps variables apart, writes exception tables, frees and recompiles; the second
puts variables next to code, frees nothing and has clients ask for one variable
only.  Section 5 says what those restrictions avoid.  `MaxBlocks = 6` and
`Spare = 2` bound the blocks in use, and `Stride = 100`, more than any block can
come to, is how far apart they are for `HeapUse`; `CHECK_DEADLOCK FALSE` is for engines that
have used them up, and for the crash on a null or uninitialised buffer pointer.

**Value handles.** `handles` has one handle of each kind, two values and one user
of them; walks nest two deep and the table moves once.  Three handles on one list
are what it takes for a callback to move the handle that comes next while a further
one waits behind it, and with two values a walk starts inside another one for the
same value or for the other, and moves handles from one list to the other and back.
A third value makes the run five times as large; what holds for any number of values
is proved.  Callbacks may do anything.  What holds is that the
lists stay whole; that a walk is led astray by one thing only, that somebody moved
the handle it kept (`OnlyMovesStray`); and that a walk that is not misses nobody
(`NoneMissed`), so that for one with a moved handle the blame is the callback's.
`handles_recovering` has two weak and two callback handles besides the asserting
one, two values and no user, and asks what the header says: that whoever is notified
watches the value in question.  There callbacks move no handle but their own
(`OwnOnly`), and still it fails (section 5).  Values are alike, and so are handles of
one kind.  `CHECK_DEADLOCK FALSE`: with an asserting handle on a dying value the
program ends.

*Fairness.*  `ManagedStatic`: each thread inside a call goes on if it can
(`WF_vars(Step(t))`), as an operating system's scheduler grants.  Nothing is
assumed of clients calling again, nor of the order in which the lock is given to
waiting threads: between two shutdowns each static is created at most once, so a
thread can be overtaken only finitely often.  `CallsReturn` is checked for one of
the three threads, which differ in nothing.  `JITResolver`: strong fairness of each
thread's own steps, since the lock of the engine need not be fair but is free
again and again, and weak fairness of code returning.  Which call code makes
next, new requests and retries are not fair.  `JITEmitter`: the thread that emits
goes on (`WF`), and a retry starts.  The others state no liveness: a memory
manager's and a map's operations are single calls that run to their end, and a
walk over handles goes on as long as callbacks put more on the list.

## 4. What is proved

TLAPS checks the following for every value of the constants that satisfies the
assumptions `JMMAssumption`, `GlobalMappingAssumption`,
`ManagedStaticAssumption`, `JITResolverAssumption`, `JITEmitterAssumption` and
`ValueHandlesAssumption` (none for `CodeHeap` and `LazyObjects`).

**Code heap** (`JITMemoryManagerProofs`).  `Invariance`: `IInv` is an invariant
of `Spec`, for any number of functions, slabs, sizes and requests.  From it
follow `TypeCorrect`, `NoAssertFailsEver`, `CheckInvariantsHold`,
`AlwaysCoalesced`, `LastBlocksStay`, `OneOwnerEver`, `RequestsMet`, the refinement
`ImplementsCodeHeap`, and `HeapExclusiveEver`, which is `AlwaysExclusive` of the
abstract heap carried over by the refinement's invariant.

The properties are not inductive: freeing a block is right only if the marker in
front of it is, which depends on the size of the block before it, on its being on
the list, and on the list's being one circle.  `IInv` therefore adds, for the
memory,

- `Layout`: blocks are disjoint, follow each other without a gap and lie in slabs;
- `Fixed`: separators, tombstone and slab starts are as they were made;
- `Tags`: each flag repeats the state of the block before, each free block has its
  marker and an allocated block behind it;
- `Circle`: the links of the free blocks form one circle holding all of them,
  stated without reachability: a set of free blocks that is not empty and closed
  under `next` is all of them;

and for the manager `SlabsOK` (slabs do not overlap), `EmittingOK` (what follows
the block being emitted stays allocated, so trimming need not merge) and
`OneOwner`.  The argument goes operator by operator: the `…Fields` lemmas say
which fields an operator changes to what, the `…Well` lemmas that it preserves
`Well`, under preconditions that the actions then discharge.

**Global maps** (`GlobalMappingProofs`).  `Invariance` of the inductive invariant,
and from it `TypeCorrect`, `AlwaysComplete`, `AlwaysSound`, `AlwaysUnmapped` and the
two about the assert, `NoSharingMissed` and `NoFalseAlarm`; all of `Spec`, for any
globals, modules and addresses, shared or not.  The strengthening says that an
address of several globals is on record in `shared` while the reverse map is in use
(`SharingNoted`), and a null mapping in `leftBehind` (`NullLeftBehind`).  An update
of one global then erases no entry of a global whose address is not on record,
because that address is another one.  For the assert, each step gives at most one
global an address (`StepFiles`).  If another one has it and it is not on record, the
reverse map has the entry of that one, also after the update dropped the old entry,
and the assert fires; and what the assert finds is an entry of which `ReverseSound`
says where it comes from.

**Managed statics** (`ManagedStaticProofs`).  `Invariance`: `IInv` is an invariant
of `Spec`, for any number of threads and any well-founded use of statics by
constructors and destructors.  From it follow `TypeCorrect`,
`CreatorsSerializedEver`, `OneObjectEver`, `AssertsHoldEver`, `ListIntactEver`,
`ShutdownCleanEver`, the refinement `ImplementsLazyObjects`, and with the theorem
`NeverDangles` of `LazyObjectsProofs` (whatever implements `LazyObjects` lets no
object outlive one its constructor was given) `NoneDanglesEver`.

None of these properties is inductive.  That no second object is built rests on
the pointer's being unset while its constructor runs, which rests on the lock,
whose depth has to be read off the nesting of the calls; that the list is intact
after a shutdown step rests on nobody's pointing to its head.  `IInv` says

- `Shape`: how calls may lie on each other.  Each waits for a static its own uses,
  so by `ManagedStaticAssumption` no thread waits for itself (lemma `Distinct`);
- `Isolation`: a thread is alone before `llvm_start_multithreaded` and in
  `llvm_shutdown`;
- `LockCounts`: the owner holds the lock as often as its stack shows (`Held`), the
  others not at all.  These three give mutual exclusion (lemma `Mutex`);
- `CallsRight`: what each call knows of its static, and a constructor of those it
  has already used;
- `PointersRight`: which statics have an object and a deleter;
- `ListRight`: `Next` is injective and leaves out the head, everything set up is
  reachable, and what a constructor used is reachable from its successor.
  Reachability is stated, without recursion, by sets closed under `Next`.

The argument first says what each action does to one stack (`Effects`), shows the
parts about control from that alone, and then treats the actions that leave
pointers and list alone together and the other five one by one.

**Resolver** (`JITResolverProofs`).  For any number of threads, functions, stubs
and bodies, any calls between functions, external or not, and any number of
retries.  The first group of theorems is about calls: `NeverLost`, `CompiledOnce`,
`StubsRight`, `WorkDone` and `PendingFresh`, and the refinement `ImplementsCalls`.
They hold lazily or not under `Plain`: clients ask for functions and call them, and
nothing else (`ClientOps = {}`), and no stub goes with its last reference
(`DlsymStubs = FALSE`), as in the run `resolver`.  `NeverLost`, `StubsRight` and
`WorkDone` hold as well under `Lazy` and `Unfreed`: compilation is lazy, and clients
may also recompile, ask for stubs and wait for reports, but not free
(`"free" \notin ClientOps`, `DlsymStubs = FALSE`).  Frees break them (section 5),
and recompiling or reporting gives a function a second body.  With `dlsym` stubs a
retry takes back the stubs that only the retried function refers to: of a function
that is compiled again also those its previous body still calls, which TLC shows to
lose calls.  The second
group, about a function's life, is for all clients and follows below.

The code publishes addresses long before they may be followed: a function is in the
global map from the start of its emission, the stubs of a compilation exist
before the functions they stand for, and without lazy compilation finished code
refers to functions that are still on the work list.  What keeps a thread from
running into any of it is that only the thread with the lock learns of it, until the
work list is empty.  So the invariant is, under `Plain`,

    IInv == \E S \in SUBSET Codes : Right(S)

where `S` is the code that threads without the lock may come to.  `Right(S)` says

- `Compiling`: what the global map, the stubs, the references and the work list
  hold while the lock holder compiles `job`: `JobRight`, `CodeRight`, `MapRight`,
  `StubRight`, `QueueRight`, `RefsRight`.  A stub that jumps nowhere belongs to a
  function on the work list, which is there once and has no code;
- `Runnable(S)`: code in `S` is finished and refers only to code in `S` and to stubs
  that lead to it, to the resolver or outside; while the lock is free, all finished
  code is in `S`;
- `ThreadsRight(S)`: a thread that runs code runs code in `S`, and one that waits
  in a stub for the resolver is in a stub of the function that was called;
- `LockRight`: the thread with the lock, and no other, is in a step of a compilation.

A step keeps `S` (`Keeps`), except the one that ends a compilation: the work list
is empty, so all finished code may run from then on (`SettledRight`).  The proof
takes the actions one by one, those of the lock holder first.  For the refinement
it then remains to show that most steps change nothing `OnDemandCalls` sees
(`ProceedsSame`), that `FinishFunction` is `Compile` of a function without code, and
that a thread that enters a body enters one of the function it called.

The second group lets clients free, recompile, ask for stubs and wait for reports,
with `dlsym` stubs or without.  All of it assumes `OneFrees`: either nobody frees, or
who frees is the only thread, since only then is a free one step.  `TypeCorrect`,
`MapsAgree` (a function's stub is filed under that function and was emitted, and the
two maps of references are inverse to each other) and `OnlyFinished` assume no more;
`ReportsRight` and `ReferencesKnown` also assume `Lazy`, the former since without
lazy compilation a report names the last pending function (section 5).  `OneFrees` is
what section 5 says of frees without the lock: a second thread can publish a body again between the moment the first looks it
up and the moment it frees it, and a free in the middle of an emission drops stubs
that are about to be referred to.  The invariant is here

    Base == TypeOK /\ LocalsRight /\ CompilationRight /\ BodiesRight /\ AllBuilt /\ Filings

- `LocalsRight`: what a thread carries in each program counter, and that the
  counters of a compilation are those of the thread with the lock;
- `CompilationRight`: what `job` is while the lock is held;
- `BodiesRight`: one body at a time is being emitted, that of `job`, and
  `FunctionBlock` names a finished or freed body of the function;
- `AllBuilt`: a stub that an address, another stub or code leads to was emitted;
- `Filings`, which `MapsAgree` states.

`NextDoes` reduces the actions to what matters to them: a step that only moves its
thread (`Passes`), one that starts a compilation (`Begins`), one that stores to a
stub (`Rewrites`), and eight that stay as they are.  On `Base` rest three more,
each with its own lemma for every class of steps: `Reports` (a compilation for a
client that waits for a report stays with its function), `Published` (an address in
the map is that of finished code, or of the one body being emitted) and
`Refers` (a stub that current code refers to is filed under its callee, and
counts the reference).

On `Base` and `Published` also rests what `Lazy` and `Unfreed` add about calls.  No
set of code that may be run is needed there: with an empty work list the only
address that must not be followed is that of the body being emitted.  `Serves(a, f)`
says that a call of `f` may go to `a`: an external address, finished code of `f`, or
a stub that was emitted and is filed under `f`.  It is stable, since finished code
and stubs stay (`Stays`, `ServesOn`), however often `f` is compiled again.  `Serving`
then says that what the global map, the stubs and the code hold serves its function,
but for code under emission, and that what each thread holds serves its callee
(`Carries`): in a stub, on the way to it, and with the address it is about to store
there.  `NeverLost`, `StubsRight` and `WorkDone` follow, and `CallsEnd`: a thread in
a body runs finished code of the function it called.  What the theorems do not say is
that such a client is well off: a recompilation ends in the null `MachineCodeInfo`,
with the lock held (section 5).

**Emitter** (`JITEmitterProofs`).  For any functions, variables, initialisers,
block sizes and switches.  `TypeCorrect`: the buffer pointers stay in order in the
one open block.  `AlwaysWhole`: between two requests every function with an
address has all of its code, and its exception table, in the blocks the memory
manager will free for it.  `IInv` adds to the types

- `Phases`: which block is open, and which function is worked on, in each phase;
- `Progress`: what is left to do.  While code is still to be written it is the last
  thing to be written (`CodeLeft`); once it is, it is complete or the buffer is
  exactly full (`CodeWritten`).  That is why two comparisons of pointers are
  enough: a cut-off function leaves `CurBufferPtr` at the end, whatever is placed
  behind it, until one of them sees it;
- `OthersWhole`: retries, stubs and variables in between leave the others alone.

`AlwaysWhole`, and no other of these theorems, assumes `TablesFit`, that a block
offered for an exception table holds it.  The code neither asks for a size there nor
looks afterwards (`JITEmitter.cpp:1138`), so this is what it relies on; the instance
of the run satisfies it.

Where things lie is the matter of a second invariant, `Memory`: which blocks belong
to which function, that no block belongs to two or to one twice, and that extents
lie in them.  From it follow `AlwaysCodeApart` (code and exception tables share no
word and lie in memory in use, whatever is retried, freed and recompiled) and the
refinement `UsesHeap`: every step is one of `CodeHeap`, under the mapping at the end
of `JITEmitter`, or invisible to it.  Composed with `ImplementsCodeHeap` this says
that the emitter asks of the memory manager only what that provides.
`AlwaysApart` adds the variables to `AlwaysCodeApart`.  It assumes `Separate`, that
they are not placed with code, as is the default of `EngineBuilder`
(`ExecutionEngine.h:410`).  Without it the retry or the free of a function takes
the memory of variables along (section 5); the run checks `EmittedApart` of such an
engine whose clients stay clear of that.

**Value handles** (`ValueHandlesProofs`).  For any handles, values and kinds, any
nesting of walks, any number of moves of the table, and whatever callbacks do.
`AlwaysIntact`: the list of each value holds exactly the handles that watch it, and
every pointer back is right.  `AlwaysOnCourse`: a walk leaves the list of its value
only if the very handle it kept was moved.  `NobodyMissed`: a walk of which that is
not so ends with nobody on its value but those it notified or that came meanwhile.
Neither assumes that callbacks behave; that what they are allowed does lead walks
astray is what `handles_recovering` shows.

That a handle is on the list of its value is stated without recursion: `Follows(m,
e, h)` says that every set with `e` that is closed under `Next` has `h`.  An
operation takes a handle off and puts it back, and in between all lists are right
but for that handle (`WellBut`); so the lemmas come in pairs, one that says what an
operation does to each pointer (`CutOut`, `PutBefore`, `PutFirst`) and one that the
lists are then right.  The second kind also says what is left of the order:
`KeepsOrder`, that what follows another handle still does, and `PassesOver`, that
what followed the handle that left follows its successor.  `Moves` sums it up.

For the walks the invariant is `Watching`: the lists are right, and each walk that
nobody led astray is `OnCourse`: its entry watches its value, and so do only handles
it has `seen` or that come at or after its entry.  When somebody else moves a handle
that is not the entry, `KeepsOrder` keeps what comes after the entry, and a handle
that comes to the value from elsewhere is seen from then on (`RightWhileMoving`); when
it is the entry, the walk has strayed.  The innermost walk, which moves a weak handle
itself, has advanced its entry before: what came at or after the old one comes at or
after the new one by `PassesOver` (`RightPastWeak`).  At the end the entry is null,
after which nothing comes.  This holds for walks of one value inside each other as
well, each with its own `seen`.

Only model-checked: liveness (`CallsReturn`, `CallsArrive`, `EmissionEnds`), which is
beyond the proof system, and `EmittedApart` of engines that place variables with
code.  Every safety property of a passing run is stated by a theorem.

## 5. Findings

- **The tombstone can be handed out** (`unchecked_space`).  `allocateSpace` takes
  the head of the free list, whatever block that is and however large
  (`JITMemoryManager.cpp:426`), although the constructor says of the tombstone
  that "The last three blocks are never deallocated or touched"
  (`JITMemoryManager.cpp:583`).  A client that fills the slab, or frees in an
  order that puts the tombstone first, gets four words where it asked for more.
- **A module that leaves stays in the reverse map** (`mapping_deleted`).
  `clearGlobalMappingsFromModule` erases the globals from the reverse map, whose
  keys are addresses (`ExecutionEngine.cpp:156`), so its entries remain; after
  `deleteModuleProvider` they name destroyed globals.
- **Two null mappings trip an assert** (`mapping_null`).  The second global mapped
  to null while the reverse map is in use meets "GlobalMapping already
  established!" (`ExecutionEngine.cpp:135`), although no mapping was.
- **A walk goes astray after a recovery** (`handles_recovering`).  `ValueIsDeleted`
  keeps the next handle across the callback (`Value.cpp:483`).  If the callback
  replaces all uses of the dying value, as the unit test `CallbackVH_DeletionCanRAUW`
  does (`unittests/Support/ValueHandleTest.cpp:305`), a weak handle that comes next
  moves to the list of the new value, and the walk goes on there: it sets weak
  handles of a living value to null and calls `deleted()` of callbacks for it.  A
  callback that moves the next handle by itself, to another value or to none, has
  the same effect; the rest of the list is then missed, which "All references to V
  were not removed?" may or may not report.

Reading the JIT for its models brought up more that has no run of its own, because
nothing in the repository says otherwise, or because one look at the code settles
it.  The models contain these cases, unless said otherwise, and the runs are
instantiated so as to stay clear of them:

- `emitGlobals` maps copies of globals to the canonical global's address
  (`ExecutionEngine.cpp:1022`).  After that a lookup by address finds one of them
  only, updating any of them hides the others, and if the reverse map is in use
  already the assert at `ExecutionEngine.cpp:135` fires.  These behaviours are in
  `mapping_all`; the properties there say how far the damage goes.
- `recompileAndRelinkFunction` leaves the `MachineCodeInfo` of the listener null,
  which the listener then dereferences (`JIT.cpp:580`): the counter `"crashed"`.
- A stub that has been rewritten keeps jumping to the code of a function that was
  freed (`JITEmitter.cpp:1523`), and `freeMachineCodeForFunction` frees memory
  without the lock, hence perhaps during an emission, which
  `JITMemoryManager.h:135` forbids.  Between the steps of such a free another thread
  may compile the function again, whose references are then forgotten with the old
  ones (`JITEmitter.cpp:1210`), while its stubs still count it.  `resolver_lifecycle`
  has one thread, and does not claim `NoCallLost`; frees by one of several threads
  are in no run and no theorem.
- A stub is rewritten by two stores without a lock while other threads may run it
  (`X86JITInfo.cpp:373`): the counter `"torn"`.
- Without lazy compilation `getPointerToFunctionOrStub` returns a stub that jumps
  to null, with its function on the work list, until something else is compiled
  (`JITEmitter.cpp:239`): `"stub"` is in no run's `ClientOps`.
- There, too, the report of `runJITOnFunction` is overwritten by pending functions
  (`JIT.cpp:575`), and a stub whose address the global map holds is used without
  being counted (`JITEmitter.cpp:644`), so a retry may take it back, and list its
  function twice: `resolver_lifecycle` is lazy only.
- `JITEmitter::allocateSpace` outside of a function makes a block the buffer and
  leaves it (`JITEmitter.cpp:1219`), so that the next variable is placed over the
  first; before the first function it finds the pointers uninitialised.  A
  variable in the buffer of a function is freed by its retry and keeps its
  address.  The second engine of the `emitter` run asks for one variable, refers to
  others where no retry follows, and frees nothing.
- An exception table that does not fit is cut off and nobody looks
  (`JITEmitter.cpp:1138`).  In the run every table fits.  A stub made while one is
  written overwrites the saved buffer, which matters only where variables are
  placed with the code.
- A retry of a function that is being recompiled frees the exception table of its
  older body, which may still be running (`JITEmitter.cpp:1159`).
- A relocation against an alias compiles the aliased function in the middle of
  the one being emitted (`JITEmitter.cpp:633`); not in the models.

## 6. Not modelled

In the modelled components: the bump allocators for stubs and data, the global
offset table, the page protection setters and the destructor of the memory
manager; emission of initialisers, constant evaluation and `runFunction` of the
execution engine; `ManagedCleanup`, which nothing in the repository uses.  The
separate compilation mode without threads (`LLVM_MULTITHREADED` off), in which the
lock does not exist, behaves as the model does before `StartMultithreaded`.
Weak memory is not modelled; the fences are taken to do what they say.

`JITMemoryManager.h` forbids freeing a function while one is emitted; the model of
the memory manager takes that from the interface, and that of the emitter ends the
body before a retry frees it (`HeapUse`).  Clients that free from another thread
during an emission break the rule.

In the JIT: module providers and materialisation, thread-local variables,
indirect symbols, references that need no stub, the global offset table, the
`dlsym` table, jump tables, memory managers that need exact sizes, relocation kinds
and their encodings, the other targets.  Deleting functions that the engine still
knows is not modelled together with the resolver.  Of values, the use lists (a
user has one operand), names and the layout of uses.

The rest of LLVM is mostly sequential algorithms over large data, where a model
that is shorter than the program says little about it.  What is left that has
state of its own and could be modelled is in the table of section 1.

## 7. Plan

1. Calls with lazy compilation and `dlsym` stubs where nothing is compiled twice: a
   retry then takes back only stubs that nobody has seen.  Calls with frees: what a
   client that is alone, and calls nothing it has freed, may rely on.
2. `PassScheduling`: requirement, preservation and freeing of analyses by
   `PMDataManager`.
3. `TypeRefinement`: uniquing while refinement triggers refinement.
4. Pure algorithms against reference definitions: `ConstantRange`, linkage
   resolution, `SmallPtrSet`/`DenseMap` probing, dominators, list reduction.
5. `ProgramWait`: time-out, interruption and the child's exit in any order.
