------------------------------ MODULE CodeHeap ------------------------------
(***************************************************************************)
(* What the JIT relies on from its memory manager                          *)
(* (include/llvm/ExecutionEngine/JITMemoryManager.h), with no word about   *)
(* headers, free lists or slabs' layout: regions of an arena that grows,   *)
(* no two of which share a word, some of which hold the code of a function *)
(* and stay as they are until that function is discarded.                  *)
(***************************************************************************)
EXTENDS Integers, FiniteSets

CONSTANT Functions

VARIABLES
  arena,    \* mapped memory: base |-> size
  regions,  \* memory in use: start |-> size
  code      \* function |-> the regions its code and tables are in

heapVars == <<arena, regions, code>>

\* Two runs of words that share none.
Apart(s, n, t, k) == s + n <= t \/ t + k <= s

Within(a, s, n) == \E b \in DOMAIN a : b <= s /\ s + n <= b + a[b]

Keeps(f, g, S) == \A x \in S : g[x] = f[x]

\* A map from addresses to sizes.
Sized(f) == \A x \in DOMAIN f : x \in Nat /\ f[x] \in Nat

Init ==
  /\ Sized(arena)
  /\ DOMAIN regions = {}
  /\ DOMAIN code = {}

\* Hand out one new region, of memory nobody holds; map more if needed.
Reserve ==
  \E s \in DOMAIN regions' \ DOMAIN regions :
    /\ DOMAIN regions' = DOMAIN regions \cup {s}
    /\ Keeps(regions, regions', DOMAIN regions)
    /\ \A t \in DOMAIN regions : Apart(s, regions'[s], t, regions[t])
    /\ Sized(arena') /\ Sized(regions')
    /\ DOMAIN arena \subseteq DOMAIN arena'
    /\ Keeps(arena, arena', DOMAIN arena)
    /\ Within(arena', s, regions'[s])
    /\ UNCHANGED code

\* A region that held no code becomes the code of f and keeps its start; the
\* words f did not need go back.
Commit(f) ==
  \E s \in DOMAIN regions :
    /\ \A g \in DOMAIN code : s \notin code[g]
    /\ DOMAIN regions' = DOMAIN regions
    /\ Keeps(regions, regions', DOMAIN regions \ {s})
    /\ regions'[s] \in Nat /\ regions'[s] <= regions[s]
    /\ DOMAIN code' = DOMAIN code \cup {f}
    /\ Keeps(code, code', DOMAIN code \ {f})
    /\ s \in code'[f]
    /\ code'[f] \ {s} \subseteq UNION {code[g] : g \in DOMAIN code \cap {f}}
    /\ UNCHANGED arena

\* The regions of f, and no other, are free again.
Discard(f) ==
  /\ f \in DOMAIN code
  /\ DOMAIN regions' = DOMAIN regions \ code[f]
  /\ Keeps(regions, regions', DOMAIN regions')
  /\ DOMAIN code' = DOMAIN code \ {f}
  /\ Keeps(code, code', DOMAIN code')
  /\ UNCHANGED arena

Next == Reserve \/ \E f \in Functions : Commit(f) \/ Discard(f)

Spec == Init /\ [][Next]_heapVars

TypeOK == Sized(arena) /\ Sized(regions)

\* No two regions in use share a word and all lie in mapped memory.
Exclusive ==
  /\ \A s, t \in DOMAIN regions : s # t => Apart(s, regions[s], t, regions[t])
  /\ \A s \in DOMAIN regions : Within(arena, s, regions[s])
=============================================================================
