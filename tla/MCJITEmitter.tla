--------------------------- MODULE MCJITEmitter ---------------------------
(* Two functions and three variables.  main has a constant that refers to  *)
(* leaf and a variable nothing is written to; leaf refers to main and to   *)
(* count, and its exception table to typeinfo, whose value refers to count *)
(* and to main.                                                            *)
EXTENDS JITEmitter, TLC

CONSTANTS main, leaf, blank, count, typeinfo

MCPool == (main :> 1) @@ (leaf :> 0)
MCCode == (main :> 3) @@ (leaf :> 2)
MCTable == (main :> 1) @@ (leaf :> 2)
MCConstantRefs == (main :> <<leaf>>) @@ (leaf :> <<>>)
MCRelocations == (main :> <<blank>>) @@ (leaf :> <<main, count>>)
MCTypeInfos == (main :> <<>>) @@ (leaf :> <<typeinfo>>)
MCSize == (blank :> 1) @@ (count :> 2) @@ (typeinfo :> 1)
MCInitializer == (blank :> <<>>) @@ (count :> <<main>>) @@ (typeinfo :> <<count, main>>)

\* The first engine has memory of its own for variables and does everything.
\* The second puts variables next to code and frees nothing.
MCEngines == {
  [AllocateGVsWithCode |-> FALSE, DwarfExceptionHandling |-> TRUE, BlockSizes |-> {2, 3, 5},
   Asked |-> {blank, count, typeinfo}, ClientOps |-> {"free", "recompile"}],
  [AllocateGVsWithCode |-> TRUE, DwarfExceptionHandling |-> FALSE, BlockSizes |-> {3, 5, 6},
   Asked |-> {count}, ClientOps |-> {}]}
===========================================================================
