-------------------------- MODULE JITMemoryManager --------------------------
(***************************************************************************)
(* The code heap of DefaultJITMemoryManager                                *)
(* (lib/ExecutionEngine/JIT/JITMemoryManager.cpp): slabs of executable     *)
(* memory cut into blocks that carry boundary tags, the free blocks linked *)
(* on a circular doubly linked list whose head is FreeMemoryList.          *)
(*                                                                         *)
(* Addresses and sizes count machine words: a MemoryRangeHeader is one     *)
(* word, a FreeRangeHeader three, getMinBlockSize() four and the alignment *)
(* of a header one word, so the rounding of TrimAllocationToSize is done.  *)
(***************************************************************************)
EXTENDS Integers, FiniteSets

CONSTANTS Functions,            \* the llvm::Function's the JIT compiles
          Requests,             \* values of ActualSize and Size callers pass
          CodeSizes,            \* words of code or table a function may need
          DefaultCodeSlabSize,  \* words of a slab, 512K in the code
          PageSize,             \* AllocateRWX rounds a slab up to pages
          SlabGaps,             \* distances mmap may leave between two slabs
          MaxSlabs,             \* bound: after so many slabs mmap fails
          NoFunction, NoBlock   \* null pointers

HeaderSize   == 1               \* sizeof(MemoryRangeHeader)
MinBlockSize == 4               \* FreeRangeHeader::getMinBlockSize()

ASSUME JMMAssumption ==
  /\ Requests \subseteq Nat
  /\ CodeSizes \subseteq Nat
  /\ PageSize \in Nat \ {0}
  /\ SlabGaps \subseteq Nat
  /\ MaxSlabs \in Nat \ {0}
  /\ DefaultCodeSlabSize \in Nat
  /\ DefaultCodeSlabSize >= 2 * MinBlockSize + 2 * HeaderSize
  /\ DefaultCodeSlabSize % PageSize = 0
  /\ NoFunction \notin Functions
  /\ NoBlock \notin Nat

VARIABLES
  mem,             \* the contents of the slabs, see MemType
  CodeSlabs,       \* base address |-> size
  LastSlab,        \* base of the slab the next one is to follow
  CurBlock,        \* the block code is emitted into
  FunctionBlocks,  \* function |-> block of its body
  TableBlocks,     \* function |-> block of its exception table
  emitting,        \* the start call that has not met its end call yet
  spaceBlocks,     \* history: blocks handed out by allocateSpace
  leakedBlocks     \* history: blocks whose map entry was overwritten

vars == <<mem, CodeSlabs, LastSlab, CurBlock, FunctionBlocks, TableBlocks, emitting,
          spaceBlocks, leakedBlocks>>

-----------------------------------------------------------------------------
(* The contents of memory.  A header is keyed by the address of its block, *)
(* a marker by the address just after it, which is where the block ends.   *)

MemType ==
  [size          : UNION {[S -> Nat] : S \in SUBSET Nat}, \* BlockSize
   allocated     : SUBSET Nat,    \* blocks with ThisAllocated set
   prevAllocated : SUBSET Nat,    \* blocks with PrevAllocated set
   next          : UNION {[S -> Nat] : S \in SUBSET Nat},
   prev          : UNION {[S -> Nat] : S \in SUBSET Nat},
   mark          : UNION {[S -> Nat] : S \in SUBSET Nat},
   head          : Nat,           \* FreeMemoryList
   ok            : BOOLEAN]       \* every assert reached so far held

Blocks(m) == DOMAIN m.size
Free(m)   == Blocks(m) \ m.allocated
getBlockAfter(m, b) == b + m.size[b]

\* The blocks a walk along Next from FreeMemoryList meets.
Listed(m) ==
  {b \in DOMAIN m.next :
     \A S \in SUBSET DOMAIN m.next :
       (m.head \in S /\ \A x \in S : m.next[x] \in S) => b \in S}

RemoveFromFreeList(m, b) ==
  LET n == m.next[b]
      p == m.prev[b]
      rest == DOMAIN m.next \ {b}
  IN [m EXCEPT !.next = [x \in rest |-> IF x = p THEN n ELSE m.next[x]],
               !.prev = [x \in rest |-> IF x = n THEN p ELSE m.prev[x]],
               !.ok = @ /\ m.prev[n] = b /\ m.next[p] = b]

AddToFreeList(m, b, list) ==
  LET p == m.prev[list]
      all == DOMAIN m.next \cup {b}
  IN [m EXCEPT !.next = [x \in all |-> IF x = b THEN list
                                       ELSE IF x = p THEN b ELSE m.next[x]],
               !.prev = [x \in all |-> IF x = b THEN p
                                       ELSE IF x = list THEN b ELSE m.prev[x]]]

SetEndOfBlockSizeMarker(m, b) ==
  LET e == getBlockAfter(m, b)
  IN [m EXCEPT !.mark = [x \in DOMAIN m.mark \cup {e} |->
                           IF x = e THEN m.size[b] ELSE m.mark[x]]]

\* Mutant: the block after is not told that this one is allocated.
AllocateBlockFlagLost(m, b) ==
  RemoveFromFreeList([m EXCEPT !.allocated = @ \cup {b},
                               !.mark = [x \in DOMAIN m.mark \ {getBlockAfter(m, b)} |-> m.mark[x]],
                               !.head = m.next[b]], b)

\* The words of block b are its owner's from now on, so its marker is gone.
AllocateBlock(m, b) ==
  LET a == getBlockAfter(m, b)
  IN RemoveFromFreeList(
       [m EXCEPT !.allocated = @ \cup {b},
                 !.prevAllocated = @ \cup {a},
                 !.mark = [x \in DOMAIN m.mark \ {a} |-> m.mark[x]],
                 !.head = m.next[b],
                 !.ok = @ /\ b \notin m.allocated /\ a \notin m.prevAllocated],
       b)

\* Give the words of block c, which follows b, to b; c is no block any more.
Absorb(m, b, c) ==
  [m EXCEPT !.size = [x \in Blocks(m) \ {c} |->
                        IF x = b THEN m.size[b] + m.size[c] ELSE m.size[x]],
            !.allocated = @ \ {c},
            !.prevAllocated = @ \ {c},
            !.mark = [x \in DOMAIN m.mark \ {c} |-> m.mark[x]]]

\* Mutant: the absorbed block stays on the free list.
MergeFollowingStillListed(m, b) ==
  LET a == getBlockAfter(m, b)
      g == Absorb(m, b, a)
  IN [g EXCEPT !.prevAllocated = @ \cup {getBlockAfter(g, b)},
               !.head = IF a = m.head THEN m.next[a] ELSE @]

\* First half of FreeBlock: take in the following block when it is free.
MergeFollowing(m, b) ==
  LET a == getBlockAfter(m, b)
      r == RemoveFromFreeList(m, a)
      g == Absorb(r, b, a)
  IN [g EXCEPT !.prevAllocated = @ \cup {getBlockAfter(g, b)},
               !.head = IF a = m.head THEN m.next[a] ELSE @,
               !.ok = @ /\ (a = m.head => m.next[a] # a)]

\* getFreeBlockBefore, for a block whose PrevAllocated is clear.
FreeBlockBefore(m, b) == b - m.mark[b]

\* Mutant: the grown block keeps the end marker it had before.
GrowBlockOldMarker(m, p, b) ==
  LET g == Absorb(m, p, b)
  IN [g EXCEPT !.prevAllocated = @ \ {getBlockAfter(g, p)}]

GrowBlock(m, p, b) ==
  LET g == Absorb(m, p, b)
      s == SetEndOfBlockSizeMarker(g, p)
  IN [s EXCEPT !.prevAllocated = @ \ {getBlockAfter(g, p)},
               !.ok = @ /\ g.size[p] > m.size[p]]

\* The block turns free without a free neighbour in front of it.
MarkFree(m, b) ==
  LET u == [m EXCEPT !.allocated = @ \ {b},
                     !.prevAllocated = @ \ {getBlockAfter(m, b)}]
  IN SetEndOfBlockSizeMarker(AddToFreeList(u, b, m.head), b)

\* Mutant: a free block in front is not looked for.
FreeBlockNoLookBack(m, b) ==
  MarkFree(IF getBlockAfter(m, b) \in m.allocated THEN m ELSE MergeFollowing(m, b), b)

FreeBlock(m, b) ==
  LET a == getBlockAfter(m, b)
      n == IF a \in m.allocated THEN m ELSE MergeFollowing(m, b)
      c == [n EXCEPT !.ok = @ /\ b \in m.allocated /\ a \in m.prevAllocated
                              /\ getBlockAfter(n, b) \in n.allocated]
      q == FreeBlockBefore(c, b)
      \* FreeListToReturn: the old head, unless that was merged away
      list(dflt) == IF a = m.head THEN dflt ELSE m.head
  IN IF b \notin m.prevAllocated
     THEN [GrowBlock(c, q, b) EXCEPT !.head = list(q)]
     ELSE [MarkFree(c, b) EXCEPT !.head = list(b)]

AtLeastMin(n) == IF n < MinBlockSize THEN MinBlockSize ELSE n

\* The rest would be too small to be a block.
TooSmallToSplit(m, b, n) == m.size[b] <= n + MinBlockSize

TrimAllocationToSize(m, b, newSize) ==
  LET n == AtLeastMin(newSize)
      a == getBlockAfter(m, b)
      t == b + n
      c == [m EXCEPT !.ok = @ /\ b \in m.allocated /\ a \in m.prevAllocated
                              /\ n <= m.size[b]]
      s == [c EXCEPT !.size = [x \in Blocks(m) \cup {t} |->
                                 IF x = b THEN n
                                 ELSE IF x = t THEN a - t ELSE m.size[x]],
                     !.prevAllocated = (@ \ {a}) \cup {t}]
  IN IF TooSmallToSplit(m, b, n) THEN c
     ELSE [AddToFreeList(SetEndOfBlockSizeMarker(s, t), t, m.head)
             EXCEPT !.head = t]

\* allocateNewCodeSlab: one free block and the sentinel that ends the slab.
\* Mutant: the header of the sentinel is not counted.
PaddedMinOneHeader(minSize) == minSize + HeaderSize

PaddedMin(minSize) == minSize + 2 * HeaderSize

WithSlab(m, base, slabSize, minSize) ==
  LET e == base + slabSize - HeaderSize
      s == [m EXCEPT !.size = [x \in Blocks(m) \cup {base, e} |->
                                 IF x = base THEN e - base
                                 ELSE IF x = e THEN HeaderSize ELSE m.size[x]],
                     !.allocated = @ \cup {e},
                     !.prevAllocated = @ \cup {base},
                     !.ok = @ /\ (e - base) - HeaderSize >= minSize]
  IN AddToFreeList(SetEndOfBlockSizeMarker(s, base), base, m.head)

-----------------------------------------------------------------------------
(* The constructor: block Mem0 to allocate from and three that "are never  *)
(* deallocated or touched".                                                *)

Mem0 == 0
Mem3 == DefaultCodeSlabSize - HeaderSize
Mem2 == Mem3 - MinBlockSize
Mem1 == Mem2 - HeaderSize

InitialMem ==
  LET sz == [b \in {Mem0, Mem1, Mem2, Mem3} |->
               CASE b = Mem0 -> Mem1 - Mem0
                 [] b = Mem2 -> MinBlockSize
                 [] OTHER    -> HeaderSize]
  IN [size          |-> sz,
      allocated     |-> {Mem1, Mem3},
      prevAllocated |-> {Mem0, Mem2},
      next          |-> [b \in {Mem0, Mem2} |-> IF b = Mem0 THEN Mem2 ELSE Mem0],
      prev          |-> [b \in {Mem0, Mem2} |-> IF b = Mem0 THEN Mem2 ELSE Mem0],
      mark          |-> [e \in {Mem1, Mem3} |->
                           IF e = Mem1 THEN Mem1 - Mem0 ELSE MinBlockSize],
      head          |-> Mem0,
      ok            |-> TRUE]

NotEmitting == [stage |-> "none", fn |-> NoFunction]

NoBlocks == [f \in {} |-> 0]

Init ==
  /\ mem = InitialMem
  /\ CodeSlabs = [b \in {Mem0} |-> DefaultCodeSlabSize]
  /\ LastSlab = Mem0
  /\ CurBlock = NoBlock
  /\ FunctionBlocks = NoBlocks
  /\ TableBlocks = NoBlocks
  /\ emitting = NotEmitting
  /\ spaceBlocks = {}
  /\ leakedBlocks = {}

-----------------------------------------------------------------------------
(* startFunctionBody and startExceptionTable *)

\* The blocks the search for the largest free block may end with; it keeps
\* the first of equally large ones, the model any of them.
Candidates(m) ==
  {c \in Listed(m) : \A d \in Listed(m) : m.size[d] <= m.size[c]}

\* Mutant: the tombstone is big enough for a request of its size.
BigEnoughForTombstone(n, req) == n - HeaderSize >= req

BigEnough(n, req) == n - HeaderSize >= req /\ n - HeaderSize > MinBlockSize

\* What allocateNewSlab asks for is rounded up to whole pages.
SlabSizes(minSize) ==
  LET want == IF DefaultCodeSlabSize > PaddedMin(minSize)
              THEN DefaultCodeSlabSize ELSE PaddedMin(minSize)
  IN {s \in want..(want + PageSize - 1) : s % PageSize = 0}

TakeBlock(m, b) ==
  /\ mem' = AllocateBlock(m, b)
  /\ CurBlock' = b

StartBlock(req) ==
  \E c \in Candidates(mem) :
    \/ /\ BigEnough(mem.size[c], req)
       /\ TakeBlock(mem, c)
       /\ UNCHANGED <<CodeSlabs, LastSlab>>
    \/ /\ ~ BigEnough(mem.size[c], req)
       /\ Cardinality(DOMAIN CodeSlabs) < MaxSlabs
       /\ \E gap \in SlabGaps, s \in SlabSizes(req) :
            LET base == LastSlab + CodeSlabs[LastSlab] + gap
            IN /\ LastSlab' = base
               /\ CodeSlabs' = [b \in DOMAIN CodeSlabs \cup {base} |->
                                  IF b = base THEN s ELSE CodeSlabs[b]]
               /\ TakeBlock(WithSlab(mem, base, s, req), base)

StartFunctionBody(f, req) ==
  /\ emitting = NotEmitting
  /\ StartBlock(req)
  /\ emitting' = [stage |-> "body", fn |-> f]
  /\ UNCHANGED <<FunctionBlocks, TableBlocks, spaceBlocks, leakedBlocks>>

StartExceptionTable(f, req) ==
  /\ emitting = NotEmitting
  /\ f \in DOMAIN FunctionBlocks
  /\ StartBlock(req)
  /\ emitting' = [stage |-> "table", fn |-> f]
  /\ UNCHANGED <<FunctionBlocks, TableBlocks, spaceBlocks, leakedBlocks>>

-----------------------------------------------------------------------------
(* endFunctionBody and endExceptionTable: `used' words were written, one at *)
(* least and no more than the start call offered.                           *)

Written(used) ==
  /\ used >= 1
  /\ used <= mem.size[CurBlock] - HeaderSize

\* map[F] = CurBlock, whatever the entry of F was
Assign(map, f) ==
  [g \in DOMAIN map \cup {f} |-> IF g = f THEN CurBlock ELSE map[g]]

Overwritten(map, f) == {map[g] : g \in DOMAIN map \cap {f}}

EndFunctionBody(used) ==
  /\ emitting.stage = "body"
  /\ Written(used)
  /\ mem' = TrimAllocationToSize(mem, CurBlock, used + HeaderSize)
  /\ FunctionBlocks' = Assign(FunctionBlocks, emitting.fn)
  /\ leakedBlocks' = leakedBlocks \cup Overwritten(FunctionBlocks, emitting.fn)
  /\ emitting' = NotEmitting
  /\ UNCHANGED <<CodeSlabs, LastSlab, CurBlock, TableBlocks, spaceBlocks>>

EndExceptionTable(used) ==
  /\ emitting.stage = "table"
  /\ Written(used)
  /\ mem' = TrimAllocationToSize(mem, CurBlock, used + HeaderSize)
  /\ TableBlocks' = Assign(TableBlocks, emitting.fn)
  /\ leakedBlocks' = leakedBlocks \cup Overwritten(TableBlocks, emitting.fn)
  /\ emitting' = NotEmitting
  /\ UNCHANGED <<CodeSlabs, LastSlab, CurBlock, FunctionBlocks, spaceBlocks>>

-----------------------------------------------------------------------------
(* allocateSpace takes the head of the free list, whatever its size.       *)

AllocateSpace(n) ==
  /\ emitting = NotEmitting
  /\ mem' = TrimAllocationToSize(AllocateBlock(mem, mem.head), mem.head,
                                 n + HeaderSize)
  /\ CurBlock' = mem.head
  /\ spaceBlocks' = spaceBlocks \cup {mem.head}
  /\ UNCHANGED <<CodeSlabs, LastSlab, FunctionBlocks, TableBlocks, emitting, leakedBlocks>>

\* What the caller must know and JITEmitter::allocateSpace does not ask.
HeadHolds(n) ==
  /\ mem.head # Mem2
  /\ AtLeastMin(n + HeaderSize) <= mem.size[mem.head]

-----------------------------------------------------------------------------
(* deallocateMemForFunction, "never called when the JIT is currently       *)
(* emitting a function" (JITMemoryManager.h).                              *)

Checked(m, b) == [m EXCEPT !.ok = @ /\ b \in m.allocated]

\* Mutant: the entry of f stays.
EraseNothing(map, f) == map

Erase(map, f) == [g \in DOMAIN map \ {f} |-> map[g]]

\* Mutant: the exception table is forgotten.
DeallocateBodyOnly(f) ==
  /\ emitting = NotEmitting
  /\ f \in DOMAIN FunctionBlocks
  /\ mem' = FreeBlock(Checked(mem, FunctionBlocks[f]), FunctionBlocks[f])
  /\ FunctionBlocks' = Erase(FunctionBlocks, f)
  /\ TableBlocks' = Erase(TableBlocks, f)
  /\ UNCHANGED <<CodeSlabs, LastSlab, CurBlock, emitting, spaceBlocks, leakedBlocks>>

DeallocateMemForFunction(f) ==
  /\ emitting = NotEmitting
  /\ f \in DOMAIN FunctionBlocks
  /\ LET b == FunctionBlocks[f]
         body == FreeBlock(Checked(mem, b), b)
     IN IF f \in DOMAIN TableBlocks
        THEN mem' = FreeBlock(Checked(body, TableBlocks[f]), TableBlocks[f])
        ELSE mem' = body
  /\ FunctionBlocks' = Erase(FunctionBlocks, f)
  /\ TableBlocks' = Erase(TableBlocks, f)
  /\ UNCHANGED <<CodeSlabs, LastSlab, CurBlock, emitting, spaceBlocks, leakedBlocks>>

-----------------------------------------------------------------------------
\* Code or a table of some size, or one that fills what it was offered.
UsedSizes ==
  IF emitting = NotEmitting THEN {}
  ELSE CodeSizes \cup {mem.size[CurBlock] - HeaderSize}

EmitStep ==
  \/ \E f \in Functions, req \in Requests : StartFunctionBody(f, req)
  \/ \E f \in Functions, req \in Requests : StartExceptionTable(f, req)
  \/ \E used \in UsedSizes : EndFunctionBody(used)
  \/ \E used \in UsedSizes : EndExceptionTable(used)
  \/ \E f \in Functions : DeallocateMemForFunction(f)

\* Callers that know the head of the free list to be large enough.
Next == EmitStep \/ \E n \in Requests : HeadHolds(n) /\ AllocateSpace(n)

\* Callers that call allocateSpace as JITEmitter does, at any time.
NextUnchecked == EmitStep \/ \E n \in Requests : AllocateSpace(n)

Spec == Init /\ [][Next]_vars
SpecUnchecked == Init /\ [][NextUnchecked]_vars

-----------------------------------------------------------------------------
(* Properties *)

\* Every variable has its type; TLC cannot enumerate MemType, so membership
\* is spelled out.
TypeOK ==
  /\ Blocks(mem) \subseteq Nat
  /\ \A b \in Blocks(mem) : mem.size[b] \in Nat
  /\ mem.allocated \subseteq Blocks(mem)
  /\ mem.prevAllocated \subseteq Blocks(mem)
  /\ DOMAIN mem.prev = DOMAIN mem.next
  /\ DOMAIN mem.next \subseteq Blocks(mem)
  /\ \A b \in DOMAIN mem.next : mem.next[b] \in Blocks(mem) /\ mem.prev[b] \in Blocks(mem)
  /\ mem.head \in Blocks(mem)
  /\ mem.ok \in BOOLEAN
  /\ \A b \in DOMAIN CodeSlabs : b \in Nat /\ CodeSlabs[b] \in Nat
  /\ LastSlab \in DOMAIN CodeSlabs
  /\ CurBlock \in Nat \cup {NoBlock}
  /\ DOMAIN FunctionBlocks \subseteq Functions
  /\ DOMAIN TableBlocks \subseteq DOMAIN FunctionBlocks
  /\ emitting \in [stage : {"none", "body", "table"}, fn : Functions \cup {NoFunction}]
  /\ spaceBlocks \cup leakedBlocks \subseteq Nat

SlabEnd(slabs, s) == s + slabs[s]

\* The allocated blocks of one word that separate regions.
SentinelsOf(slabs) ==
  {Mem1, Mem3} \cup {SlabEnd(slabs, s) - HeaderSize : s \in DOMAIN slabs}
Sentinels == SentinelsOf(CodeSlabs)

InSlab(s) == {b \in Blocks(mem) : s <= b /\ b < SlabEnd(CodeSlabs, s)}

\* The walk CheckInvariants makes over a slab meets block after block and
\* ends exactly at the end of the slab.
Tiled(s) ==
  /\ s \in Blocks(mem)
  /\ \A b \in InSlab(s) : getBlockAfter(mem, b) \in (InSlab(s) \ {b}) \cup {SlabEnd(CodeSlabs, s)}
  /\ \A b \in InSlab(s) \ {s} : \E c \in InSlab(s) : getBlockAfter(mem, c) = b

FlagsAgree(b) ==
  getBlockAfter(mem, b) \in Blocks(mem) =>
    (b \in mem.allocated <=> getBlockAfter(mem, b) \in mem.prevAllocated)

MarkerRight(b) ==
  /\ getBlockAfter(mem, b) \in DOMAIN mem.mark
  /\ mem.mark[getBlockAfter(mem, b)] = mem.size[b]

\* DefaultJITMemoryManager::CheckInvariants: the free list lies in the slabs
\* and its links agree, every free block is on it with a right end marker,
\* each PrevAllocated flag repeats ThisAllocated of the block before.
CheckInvariants ==
  /\ \A b \in Listed(mem) : \E s \in DOMAIN CodeSlabs : b \in InSlab(s)
  /\ \A b \in Listed(mem) : mem.prev[mem.next[b]] = b
  /\ \A s \in DOMAIN CodeSlabs :
       /\ Tiled(s)
       /\ s \in mem.prevAllocated
       /\ \A b \in InSlab(s) :
            /\ FlagsAgree(b)
            /\ b \in Free(mem) => b \in Listed(mem) /\ MarkerRight(b)

\* FreeBlock coalesces with both neighbours and nothing else frees a block,
\* so two free blocks never touch ("Missed coalescing?"), and the free list
\* holds no block that is in use.
Coalesced ==
  /\ \A b \in Free(mem) : getBlockAfter(mem, b) \notin Free(mem)
  /\ Listed(mem) \subseteq Free(mem)

\* "The last three blocks are never deallocated or touched": the separators
\* stay allocated and the tombstone stays free, at their first sizes.
LastBlocksUntouched ==
  /\ {Mem1, Mem2, Mem3} \subseteq Blocks(mem)
  /\ Mem1 \in mem.allocated /\ Mem3 \in mem.allocated /\ Mem2 \in Free(mem)
  /\ mem.size[Mem1] = HeaderSize /\ mem.size[Mem3] = HeaderSize
  /\ mem.size[Mem2] = MinBlockSize

\* No assert of the memory manager fails: "Freelist broken!", "Flags out of
\* sync!", "No tombstone block?", "The block was too small!" and the others.
NoAssertFails == mem.ok

BlocksOf(f) == {FunctionBlocks[g] : g \in {f} \cap DOMAIN FunctionBlocks}
               \cup {TableBlocks[g] : g \in {f} \cap DOMAIN TableBlocks}

Owned == UNION {BlocksOf(f) : f \in Functions}

BeingEmitted == IF emitting = NotEmitting THEN {} ELSE {CurBlock}

\* Every allocated block has exactly one owner: no function's map entry
\* names a block that was freed, reused for another function, handed out by
\* allocateSpace or is being emitted into; only re-emission loses blocks.
OneOwner ==
  /\ mem.allocated = Sentinels \cup Owned \cup BeingEmitted \cup spaceBlocks \cup leakedBlocks
  /\ Owned \cap (Sentinels \cup BeingEmitted \cup spaceBlocks \cup leakedBlocks) = {}
  /\ BeingEmitted \cap (Sentinels \cup spaceBlocks \cup leakedBlocks) = {}
  /\ spaceBlocks \cap (Sentinels \cup leakedBlocks) = {}
  /\ leakedBlocks \cap Sentinels = {}
  /\ \A f, g \in Functions : f # g => BlocksOf(f) \cap BlocksOf(g) = {}
  /\ \A f \in DOMAIN TableBlocks : FunctionBlocks[f] # TableBlocks[f]

\* "this method returns a block with at least that size"
\* (JITMemoryManager.h): also when a slab of exactly the padded size is new.
OffersRequested ==
  [][\A f \in Functions, req \in Requests :
       StartFunctionBody(f, req) \/ StartExceptionTable(f, req)
         => mem'.size[CurBlock'] - HeaderSize >= req]_vars

-----------------------------------------------------------------------------
(* The inductive invariant.  Well says of one memory and a set of slabs    *)
(* what every operation above needs and keeps.                             *)

Fields(m) ==
  DOMAIN m = {"size", "allocated", "prevAllocated", "next", "prev", "mark",
              "head", "ok"}

\* Blocks are disjoint, lie in slabs and follow each other without a gap.
Layout(m, slabs) ==
  /\ \A b \in Blocks(m) : b \in Nat /\ m.size[b] \in Nat \ {0}
  /\ m.allocated \subseteq Blocks(m) /\ m.prevAllocated \subseteq Blocks(m)
  /\ \A b, c \in Blocks(m) : b < c => getBlockAfter(m, b) <= c
  /\ \A b \in Blocks(m) \ SentinelsOf(slabs) :
       /\ getBlockAfter(m, b) \in Blocks(m) \ DOMAIN slabs
       /\ m.size[b] >= MinBlockSize
  /\ \A b \in Blocks(m) : \E s \in DOMAIN slabs :
       s <= b /\ getBlockAfter(m, b) <= SlabEnd(slabs, s)
  /\ \A c \in Blocks(m) \ DOMAIN slabs : \E b \in Blocks(m) : getBlockAfter(m, b) = c

\* What the constructor and allocateNewCodeSlab put in place stays there.
Fixed(m, slabs) ==
  /\ \A s \in DOMAIN slabs : slabs[s] \in Nat
  /\ DOMAIN slabs \subseteq Blocks(m) \cap m.prevAllocated
  /\ SentinelsOf(slabs) \subseteq m.allocated
  /\ \A k \in SentinelsOf(slabs) : m.size[k] = HeaderSize
  /\ Mem2 \in Free(m) /\ m.size[Mem2] = MinBlockSize

\* Boundary tags: the flag repeats the state of the block before, the marker
\* the size of a free one, and what follows a free block is allocated.
Tags(m) ==
  /\ \A b \in Blocks(m) : getBlockAfter(m, b) \in Blocks(m) =>
       (b \in m.allocated <=> getBlockAfter(m, b) \in m.prevAllocated)
  /\ \A b \in Free(m) :
       /\ getBlockAfter(m, b) \in m.allocated
       /\ getBlockAfter(m, b) \in DOMAIN m.mark
       /\ m.mark[getBlockAfter(m, b)] = m.size[b]

\* The free blocks, all of them, form one circle.
Circle(F, next, prev) ==
  /\ DOMAIN next = F /\ DOMAIN prev = F
  /\ \A x \in F : next[x] \in F /\ prev[x] \in F
  /\ \A x \in F : next[prev[x]] = x /\ prev[next[x]] = x
  /\ \A S \in SUBSET F : S # {} /\ (\A x \in S : next[x] \in S) => S = F

Well(m, slabs) ==
  /\ Fields(m)
  /\ Layout(m, slabs)
  /\ Fixed(m, slabs)
  /\ Tags(m)
  /\ Circle(Free(m), m.next, m.prev)
  /\ m.head \in Free(m)
  /\ m.ok = TRUE

\* Slabs do not overlap, and a new one is mapped behind all others.
SlabsOK ==
  /\ Mem0 \in DOMAIN CodeSlabs /\ CodeSlabs[Mem0] = DefaultCodeSlabSize
  /\ \A s \in DOMAIN CodeSlabs : CodeSlabs[s] \in Nat \ {0}
  /\ \A s, t \in DOMAIN CodeSlabs : s < t => SlabEnd(CodeSlabs, s) <= t
  /\ LastSlab \in DOMAIN CodeSlabs
  /\ \A s \in DOMAIN CodeSlabs : SlabEnd(CodeSlabs, s) <= SlabEnd(CodeSlabs, LastSlab)

\* Nothing behind the block being emitted turns free before its end call.
EmittingOK ==
  \/ emitting = NotEmitting
  \/ /\ emitting \in [stage : {"body", "table"}, fn : Functions]
     /\ emitting.stage = "table" => emitting.fn \in DOMAIN FunctionBlocks
     /\ CurBlock \in mem.allocated
     /\ getBlockAfter(mem, CurBlock) \in mem.allocated

IInv ==
  /\ Well(mem, CodeSlabs)
  /\ SlabsOK
  /\ EmittingOK
  /\ CurBlock \in Nat \cup {NoBlock}
  /\ DOMAIN FunctionBlocks \subseteq Functions
  /\ DOMAIN TableBlocks \subseteq DOMAIN FunctionBlocks
  /\ OneOwner

-----------------------------------------------------------------------------
(* What the code heap promises to the JIT: see CodeHeap.                   *)

\* The words of each region, the header that starts it included.
Regions == [b \in mem.allocated \ Sentinels |-> mem.size[b]]

Heap == INSTANCE CodeHeap WITH
          arena <- CodeSlabs,
          regions <- Regions,
          code <- [f \in DOMAIN FunctionBlocks |-> BlocksOf(f)]

HeapSpec == Heap!Spec

\* Two blocks in use, be they code, tables, raw space or blocks no map knows
\* any more, never share a word, and all of them lie in the slabs.
HeapExclusive == Heap!Exclusive

=============================================================================
