---------------------------- MODULE LazyObjects ----------------------------
(***************************************************************************)
(* What users of ManagedStatic rely on                                     *)
(* (include/llvm/Support/ManagedStatic.h and the section of                *)
(* docs/ProgrammersManual.html on it), without threads, locks and lists:   *)
(* an object comes to life once, after the objects its constructor uses,   *)
(* and dies before them.                                                   *)
(***************************************************************************)
CONSTANTS Statics,
          CreatorUses  \* static |-> the statics its constructor dereferences

VARIABLE alive         \* the statics whose object is alive

Users(s) == {u \in alive : s \in CreatorUses[u]}

Init == alive = {}

Create(s) ==
  /\ s \notin alive
  /\ CreatorUses[s] \subseteq alive
  /\ alive' = alive \cup {s}

Destroy(s) ==
  /\ s \in alive
  /\ Users(s) = {}
  /\ alive' = alive \ {s}

Next == \E s \in Statics : Create(s) \/ Destroy(s)

Spec == Init /\ [][Next]_alive

\* No object outlives an object its constructor was given.
NoneDangles == \A s \in alive : CreatorUses[s] \subseteq alive
=============================================================================
