--------------------------- MODULE OnDemandCalls ---------------------------
(***************************************************************************)
(* What a client of the JIT is promised (the comments of                   *)
(* getPointerToFunction in lib/ExecutionEngine/JIT/JIT.h and of            *)
(* JITCompilerFn in JITEmitter.cpp): functions are compiled when they are  *)
(* needed, once, and a call of a function ends in its code.                *)
(***************************************************************************)
CONSTANTS Threads, Functions, External

VARIABLES where,     \* thread |-> <<"client">>, <<"calling", f>> or <<"in", f>>
          compiled   \* the functions that have code

Client == <<"client">>

Init == where = [t \in Threads |-> Client] /\ compiled = {}

Ask(t, f) ==
  /\ \A g \in Functions : where[t] # <<"calling", g>>
  /\ where' = [where EXCEPT ![t] = <<"calling", f>>]
  /\ UNCHANGED compiled

Compile(f) ==
  /\ f \in Functions \ (External \cup compiled)
  /\ compiled' = compiled \cup {f}
  /\ UNCHANGED where

Arrive(t, f) ==
  /\ where[t] = <<"calling", f>> /\ f \in compiled
  /\ where' = [where EXCEPT ![t] = <<"in", f>>]
  /\ UNCHANGED compiled

Leave(t, f) ==
  /\ where[t] = <<"in", f>> \/ (where[t] = <<"calling", f>> /\ f \in External)
  /\ where' = [where EXCEPT ![t] = Client]
  /\ UNCHANGED compiled

Next ==
  \/ \E f \in Functions : Compile(f)
  \/ \E t \in Threads, f \in Functions : Ask(t, f) \/ Arrive(t, f) \/ Leave(t, f)

Spec == Init /\ [][Next]_<<where, compiled>>
=============================================================================
