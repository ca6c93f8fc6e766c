------------------------ MODULE ManagedStaticProofs ------------------------
(***************************************************************************)
(* Proofs of the safety properties of ManagedStatic, for any number of     *)
(* threads and statics: IInv is inductive, and the properties follow.      *)
(*                                                                         *)
(* Each action starts, moves, pushes or pops the top call of one stack     *)
(* (Effects).  The parts of IInv that speak of control (shapes, isolation, *)
(* the lock) need no more than that, and yield mutual exclusion (Mutex).   *)
(* With it the parts that speak of data are shown, for the steps that      *)
(* leave pointers and list alone together (QuietKeepsData, QuietCalls),    *)
(* and for Create, Publish, Link, Destroy and Destroyed one by one.        *)
(***************************************************************************)
EXTENDS ManagedStatic, SequenceTheorems, TLAPS

(* What the operations on a stack of calls yield. *)

LEMMA ReplacedFacts ==
  ASSUME NEW q \in Seq(Calls), q # << >>, NEW c \in Calls
  PROVE  /\ Replaced(q, c) \in Seq(Calls)
         /\ Len(Replaced(q, c)) = Len(q)
         /\ Replaced(q, c)[Len(q)] = c
         /\ \A i \in 1..Len(q) : i # Len(q) => Replaced(q, c)[i] = q[i]
<1>1. Len(q) \in 1..Len(q)
  BY EmptySeq, LenProperties
<1> QED BY <1>1, ExceptSeq DEF Replaced

LEMMA AppendFacts ==
  ASSUME NEW q \in Seq(Calls), NEW c \in Calls
  PROVE  /\ Append(q, c) \in Seq(Calls)
         /\ Len(Append(q, c)) = Len(q) + 1
         /\ Append(q, c)[Len(q) + 1] = c
         /\ \A i \in 1..Len(q) : Append(q, c)[i] = q[i]
BY AppendProperties

LEMMA PoppedFacts ==
  ASSUME NEW q \in Seq(Calls), q # << >>
  PROVE  /\ Popped(q) \in Seq(Calls)
         /\ Len(Popped(q)) = Len(q) - 1
         /\ \A i \in 1..Len(q) - 1 : Popped(q)[i] = q[i]
<1>1. Len(q) \in Nat \ {0}
  BY EmptySeq, LenProperties
<1>2. \A i \in 1..Len(q) - 1 : q[i] \in Calls
  BY <1>1, ElementOfSeq
<1> DEFINE n == Len(q) - 1
           p == SubSeq(q, 1, n)
<1>3. n \in Nat /\ Popped(q) = p
  BY <1>1 DEF Popped
<1>4. \A i \in 1..n : q[i] \in Calls
  BY <1>2
<1> HIDE DEF n
<1>5. /\ p \in Seq(Calls)
      /\ Len(p) = IF 1 <= n THEN n - 1 + 1 ELSE 0
      /\ \A i \in 1..(n - 1 + 1) : p[i] = q[1 + i - 1]
  BY SMTT(30), <1>3, <1>4, SubSeqProperties
<1> HIDE DEF p
<1>6. Len(p) = n /\ \A i \in 1..n : p[i] = q[i]
  BY <1>3, <1>5
<1> QED BY <1>3, <1>5, <1>6 DEF n

\* The call at the top, and what is known of it.
LEMMA TopFacts ==
  ASSUME NEW q, Shape(q), q # << >>
  PROVE  /\ q \in Seq(Calls)
         /\ Len(q) \in Nat \ {0}
         /\ Len(q) \in 1..Len(q)
         /\ q[Len(q)] \in Calls
         /\ \A i \in 1..Len(q) : q[i] \in Calls
<1>1. q \in Seq(Calls)
  BY DEF Shape
<1>2. Len(q) \in Nat \ {0}
  BY <1>1, EmptySeq, LenProperties
<1> QED BY <1>1, <1>2, ElementOfSeq

\* No call waits, however indirectly, for its own static.
LEMMA Distinct ==
  ASSUME NEW q, Shape(q), NEW i \in 1..Len(q), NEW j \in 1..Len(q), i < j
  PROVE  q[i].of # q[j].of
<1> SUFFICES ASSUME q[i].of = q[j].of
             PROVE  FALSE
  OBVIOUS
<1> DEFINE S == {q[k].of : k \in i..(j - 1)}
<1>1. Len(q) \in Nat /\ \A k \in 1..Len(q) : q[k] \in Calls
  BY LenProperties, ElementOfSeq DEF Shape
<1>2. q[i].at # "shutdown"
  BY <1>1 DEF Shape
<1>3. \A k \in i..(j - 1) :
        /\ k \in 1..Len(q) /\ k + 1 \in 1..Len(q) /\ k < Len(q)
        /\ q[k].at # "shutdown"
  BY <1>1, <1>2 DEF Shape
<1>4. \A k \in i..(j - 1) : q[k].of \in Statics /\ q[k + 1].of \in Uses(q[k].of)
  <2> SUFFICES ASSUME NEW k \in i..(j - 1)
               PROVE  q[k].of \in Statics /\ q[k + 1].of \in Uses(q[k].of)
    OBVIOUS
  <2>1. q[k].of \in Statics
    BY <1>1, <1>3 DEF Shape, Calls
  <2>2. q[k].at \in {"create", "delete"}
    BY <1>3 DEF Shape
  <2> QED BY <1>3, <2>1, <2>2 DEF Shape, Uses
<1>5. S \in SUBSET Statics /\ S # {}
  BY <1>1, <1>4
<1>6. \A k \in i..(j - 1) : q[k + 1].of \in S
  <2> SUFFICES ASSUME NEW k \in i..(j - 1)
               PROVE  q[k + 1].of \in S
    OBVIOUS
  <2>1. CASE k + 1 = j
    BY <2>1, <1>1
  <2>2. CASE k + 1 # j
    BY <2>2, <1>1
  <2> QED BY <2>1, <2>2
<1>7. PICK s \in S : Uses(s) \cap S = {}
  BY <1>5, ManagedStaticAssumption
<1> QED BY <1>4, <1>6, <1>7

-----------------------------------------------------------------------------
(* Stacks keep their shape. *)

Waiting == {"create", "delete", "shutdown"}

LEMMA ShapeReplaced ==
  ASSUME NEW q, Shape(q), q # << >>, NEW c \in Calls,
         c.at = q[Len(q)].at \/ {c.at, q[Len(q)].at} \cap {"shutdown", "delete"} = {},
         c.of = q[Len(q)].of,
         c.at = "create" => c.left \subseteq CreatorUses[c.of],
         c.at = "delete" => c.left \subseteq DeleterUses[c.of]
  PROVE  Shape(Replaced(q, c))
<1> DEFINE r == Replaced(q, c)
<1>1. /\ r \in Seq(Calls) /\ Len(r) = Len(q) /\ r[Len(q)] = c
      /\ \A i \in 1..Len(q) : i # Len(q) => r[i] = q[i]
  BY TopFacts, ReplacedFacts
<1>2. Len(q) \in Nat \ {0} /\ Len(q) \in 1..Len(q)
  BY TopFacts
<1> HIDE DEF r
<1> SUFFICES Shape(r)
  BY DEF r
<1>3. \A i \in 1..Len(q) : i < Len(q) => r[i] = q[i] /\ r[i + 1].of = q[i + 1].of /\ i + 1 \in 1..Len(q)
  BY <1>1, <1>2
<1>4. \A i \in 1..Len(q) : i < Len(q) /\ q[i].at = "shutdown" => r[i + 1].at = "delete"
  <2> SUFFICES ASSUME NEW i \in 1..Len(q), i < Len(q), q[i].at = "shutdown"
               PROVE  r[i + 1].at = "delete"
    OBVIOUS
  <2>1. q[i + 1].at = "delete"
    BY DEF Shape
  <2> QED BY <1>1, <1>3, <2>1
<1>5. \A i \in 1..Len(q) : r[i].at = "delete" => q[i].at = "delete" /\ r[1] = q[1]
  <2> SUFFICES ASSUME NEW i \in 1..Len(q), r[i].at = "delete"
               PROVE  q[i].at = "delete" /\ r[1] = q[1]
    OBVIOUS
  <2>1. q[i].at = "delete"
    BY <1>1, <1>2
  <2>2. i = 2
    BY <2>1 DEF Shape
  <2>3. 1 \in 1..Len(q) /\ 1 < Len(q)
    BY <1>2, <2>2
  <2> QED BY <1>3, <2>1, <2>3
<1>6. ASSUME NEW i \in 1..Len(q)
      PROVE  LET call == r[i] IN
       /\ call.at = "shutdown" <=> call.of = Null
       /\ call.at = "shutdown" => i = 1
       /\ call.at = "delete" => i = 2 /\ r[1].at = "shutdown"
       /\ call.at = "create" => call.left \subseteq CreatorUses[call.of]
       /\ call.at = "delete" => call.left \subseteq DeleterUses[call.of]
       /\ i < Len(q) =>
            /\ call.at \in {"create", "delete", "shutdown"}
            /\ call.at = "shutdown" => r[i + 1].at = "delete"
            /\ call.at = "create" => r[i + 1].of \in CreatorUses[call.of] \ call.left
            /\ call.at = "delete" => r[i + 1].of \in DeleterUses[call.of]
  <2>1. CASE i = Len(q)
    <3>1. /\ c.at = "shutdown" <=> q[Len(q)].at = "shutdown"
          /\ c.at = "delete" => q[Len(q)].at = "delete"
      OBVIOUS
    <3> QED BY <2>1, <3>1, <1>1, <1>2, <1>5 DEF Shape
  <2>2. CASE i # Len(q)
    BY <2>2, <1>1, <1>2, <1>3, <1>4, <1>5 DEF Shape
  <2> QED BY <2>1, <2>2
<1> QED BY <1>1, <1>6 DEF Shape

LEMMA ShapePushed ==
  ASSUME NEW q, Shape(q), q # << >>, NEW c \in Calls,
         q[Len(q)].at \in Waiting, c.of # Null, c.at \notin {"shutdown", "create"},
         q[Len(q)].at = "shutdown" <=> c.at = "delete",
         q[Len(q)].at = "create" => c.of \in CreatorUses[q[Len(q)].of] \ q[Len(q)].left,
         q[Len(q)].at = "delete" => c.of \in DeleterUses[q[Len(q)].of],
         c.at = "delete" => c.left \subseteq DeleterUses[c.of]
  PROVE  Shape(Append(q, c))
<1> DEFINE r == Append(q, c)
<1>1. /\ r \in Seq(Calls) /\ Len(r) = Len(q) + 1 /\ r[Len(q) + 1] = c
      /\ \A i \in 1..Len(q) : r[i] = q[i]
  BY TopFacts, AppendFacts
<1>2. Len(q) \in Nat \ {0} /\ Len(q) \in 1..Len(q)
  BY TopFacts
<1> HIDE DEF r
<1> SUFFICES Shape(r)
  BY DEF r
<1>6. ASSUME NEW i \in 1..Len(r)
      PROVE  LET call == r[i] IN
       /\ call.at = "shutdown" <=> call.of = Null
       /\ call.at = "shutdown" => i = 1
       /\ call.at = "delete" => i = 2 /\ r[1].at = "shutdown"
       /\ call.at = "create" => call.left \subseteq CreatorUses[call.of]
       /\ call.at = "delete" => call.left \subseteq DeleterUses[call.of]
       /\ i < Len(r) =>
            /\ call.at \in {"create", "delete", "shutdown"}
            /\ call.at = "shutdown" => r[i + 1].at = "delete"
            /\ call.at = "create" => r[i + 1].of \in CreatorUses[call.of] \ call.left
            /\ call.at = "delete" => r[i + 1].of \in DeleterUses[call.of]
  <2>1. CASE i = Len(q) + 1
    BY <2>1, <1>1, <1>2 DEF Shape
  <2>2. CASE i = Len(q)
    BY <2>2, <1>1, <1>2 DEF Shape, Waiting
  <2>3. CASE i < Len(q)
    <3>1. i \in 1..Len(q) /\ i + 1 \in 1..Len(q) /\ r[i] = q[i] /\ r[i + 1] = q[i + 1] /\ r[1] = q[1]
      BY <2>3, <1>1, <1>2
    <3> QED BY <2>3, <3>1 DEF Shape
  <2> QED BY <1>1, <1>2, <2>1, <2>2, <2>3
<1> QED BY <1>1, <1>6 DEF Shape

LEMMA ShapePopped ==
  ASSUME NEW q, Shape(q), q # << >>
  PROVE  Shape(Popped(q))
<1> DEFINE r == Popped(q)
<1>1. /\ r \in Seq(Calls) /\ Len(r) = Len(q) - 1
      /\ \A i \in 1..Len(q) - 1 : r[i] = q[i]
  BY TopFacts, PoppedFacts
<1>2. Len(q) \in Nat \ {0} /\ Len(q) \in 1..Len(q)
  BY TopFacts
<1> HIDE DEF r
<1> SUFFICES Shape(r)
  BY DEF r
<1>6. ASSUME NEW i \in 1..Len(r)
      PROVE  LET call == r[i] IN
       /\ call.at = "shutdown" <=> call.of = Null
       /\ call.at = "shutdown" => i = 1
       /\ call.at = "delete" => i = 2 /\ r[1].at = "shutdown"
       /\ call.at = "create" => call.left \subseteq CreatorUses[call.of]
       /\ call.at = "delete" => call.left \subseteq DeleterUses[call.of]
       /\ i < Len(r) =>
            /\ call.at \in {"create", "delete", "shutdown"}
            /\ call.at = "shutdown" => r[i + 1].at = "delete"
            /\ call.at = "create" => r[i + 1].of \in CreatorUses[call.of] \ call.left
            /\ call.at = "delete" => r[i + 1].of \in DeleterUses[call.of]
  <2>1. i \in 1..Len(q) /\ i < Len(q) /\ r[i] = q[i] /\ r[1] = q[1]
    BY <1>1, <1>2
  <2>2. i < Len(r) => r[i + 1] = q[i + 1]
    BY <1>1, <1>2
  <2> QED BY <2>1, <2>2 DEF Shape
<1> QED BY <1>1, <1>6 DEF Shape

LEMMA ShapeFirst ==
  ASSUME NEW c \in Calls, c.at \notin {"create", "delete"}, c.at = "shutdown" <=> c.of = Null
  PROVE  Shape(Append(<< >>, c))
<1> DEFINE r == Append(<< >>, c)
<1>1. << >> \in Seq(Calls) /\ Len(<< >>) = 0
  BY EmptySeq
<1>2. r \in Seq(Calls) /\ Len(r) = 1 /\ r[1] = c
  BY <1>1, AppendFacts
<1> HIDE DEF r
<1>3. Shape(r)
  BY <1>2 DEF Shape
<1> QED BY <1>3 DEF r

-----------------------------------------------------------------------------
(* What the actions of a thread t do to its stack. *)

Others(t) ==
  /\ stack' \in [Threads -> Seq(Calls)]
  /\ \A u \in Threads \ {t} : stack'[u] = stack[u]
  /\ Shape(stack'[t])

\* t enters its first call.
Starts(t, c) == Others(t) /\ Len(stack[t]) = 0 /\ Len(stack'[t]) = 1 /\ stack'[t][1] = c

\* The call at the top becomes c.
Moves(t, c) ==
  LET n == Len(stack[t]) IN
  /\ Others(t) /\ n > 0 /\ Len(stack'[t]) = n
  /\ stack'[t][n] = c
  /\ \A i \in 1..n : i # n => stack'[t][i] = stack[t][i]

\* The call at the top becomes d and c is entered.
Pushes(t, d, c) ==
  LET n == Len(stack[t]) IN
  /\ Others(t) /\ n > 0 /\ Len(stack'[t]) = n + 1
  /\ stack'[t][n] = d /\ stack'[t][n + 1] = c
  /\ \A i \in 1..n : i # n => stack'[t][i] = stack[t][i]

\* The call at the top returns.
Pops(t) ==
  LET n == Len(stack[t]) IN
  /\ Others(t) /\ n > 0 /\ Len(stack'[t]) = n - 1
  /\ \A i \in 1..n : i # n => stack'[t][i] = stack[t][i]

StacksRight ==
  /\ stack \in [Threads -> Seq(Calls)]
  /\ \A t \in Threads : Shape(stack[t])

LEMMA StackFacts ==
  ASSUME StacksRight, NEW t \in Threads
  PROVE  /\ stack[t] \in Seq(Calls) /\ Len(stack[t]) \in Nat
         /\ Idle(t) <=> Len(stack[t]) = 0
         /\ ~ Idle(t) => Len(stack[t]) \in 1..Len(stack[t]) /\ Len(stack[t]) > 0
         /\ ~ Idle(t) => Top(t) \in Calls /\ Top(t).of \in Statics \cup {Null}
         /\ \A i \in 1..Len(stack[t]) : stack[t][i] \in Calls
<1>1. stack[t] \in Seq(Calls) /\ Shape(stack[t])
  BY DEF StacksRight
<1>2. Len(stack[t]) \in Nat /\ (stack[t] # << >> => Len(stack[t]) \in Nat \ {0}) /\ Len(<< >>) = 0
  BY <1>1, LenProperties, EmptySeq
<1>3. \A i \in 1..Len(stack[t]) : stack[t][i] \in Calls
  BY <1>1, ElementOfSeq
<1> QED BY <1>1, <1>2, <1>3 DEF Idle, Top, Calls

LEMMA MovesIf ==
  ASSUME StacksRight, NEW t \in Threads, ~ Idle(t), NEW c \in Calls,
         stack' = [stack EXCEPT ![t] = Replaced(@, c)],
         {c.at, Top(t).at} \cap {"shutdown", "delete"} = {},
         c.of = Top(t).of,
         c.at = "create" => c.left \subseteq CreatorUses[c.of]
  PROVE  Moves(t, c)
<1> DEFINE q == stack[t]
<1>1. q \in Seq(Calls) /\ Shape(q) /\ q # << >> /\ Len(q) > 0 /\ Top(t) = q[Len(q)]
  BY StackFacts DEF StacksRight, Idle, Top
<1>2. c.at # "delete"
  OBVIOUS
<1>3. Shape(Replaced(q, c))
  BY <1>1, <1>2, ShapeReplaced
<1>4. /\ Replaced(q, c) \in Seq(Calls)
      /\ Len(Replaced(q, c)) = Len(q)
      /\ Replaced(q, c)[Len(q)] = c
      /\ \A i \in 1..Len(q) : i # Len(q) => Replaced(q, c)[i] = q[i]
  BY <1>1, ReplacedFacts
<1>5. /\ stack' \in [Threads -> Seq(Calls)] /\ stack'[t] = Replaced(q, c)
      /\ \A u \in Threads \ {t} : stack'[u] = stack[u]
  BY <1>4 DEF StacksRight
<1> QED BY <1>1, <1>3, <1>4, <1>5 DEF Moves, Others

LEMMA GoToIf ==
  ASSUME StacksRight, NEW t \in Threads, ~ Idle(t), NEW point \in Points, GoTo(t, point),
         {point, Top(t).at} \cap {"shutdown", "delete"} = {}, point # "create"
  PROVE  Moves(t, Call(point, Top(t).of, Top(t).left))
<1> DEFINE c == Call(point, Top(t).of, Top(t).left)
<1>1. c \in Calls /\ c.at = point /\ c.of = Top(t).of
  BY StackFacts DEF Call, Calls
<1>2. stack' = [stack EXCEPT ![t] = Replaced(@, c)]
  BY DEF GoTo
<1> HIDE DEF c
<1>3. Moves(t, c)
  BY <1>1, <1>2, MovesIf
<1> QED BY <1>3 DEF c

LEMMA StartsIf ==
  ASSUME StacksRight, NEW t \in Threads, Idle(t), NEW c \in Calls, Enter(t, c),
         c.at \notin {"create", "delete"}, c.at = "shutdown" <=> c.of = Null
  PROVE  Starts(t, c)
<1>1. Shape(Append(<< >>, c))
  BY ShapeFirst
<1>2. << >> \in Seq(Calls) /\ Len(<< >>) = 0
  BY EmptySeq
<1>3. /\ Append(<< >>, c) \in Seq(Calls) /\ Len(Append(<< >>, c)) = 1
      /\ Append(<< >>, c)[1] = c
  BY <1>2, AppendFacts
<1>4. /\ stack' \in [Threads -> Seq(Calls)] /\ stack'[t] = Append(<< >>, c)
      /\ \A u \in Threads \ {t} : stack'[u] = stack[u]
  BY <1>3 DEF StacksRight, Enter, Idle
<1> QED BY <1>1, <1>2, <1>3, <1>4 DEF Starts, Others, Idle

LEMMA PopsIf ==
  ASSUME StacksRight, NEW t \in Threads, ~ Idle(t), Return(t)
  PROVE  Pops(t)
<1> DEFINE q == stack[t]
<1>1. q \in Seq(Calls) /\ Shape(q) /\ q # << >> /\ Len(q) > 0 /\ Len(q) \in Nat
  BY StackFacts DEF StacksRight, Idle
<1>2. /\ Shape(Popped(q)) /\ Popped(q) \in Seq(Calls) /\ Len(Popped(q)) = Len(q) - 1
      /\ \A i \in 1..Len(q) - 1 : Popped(q)[i] = q[i]
  BY <1>1, ShapePopped, PoppedFacts
<1>3. \A i \in 1..Len(q) : i # Len(q) => Popped(q)[i] = q[i]
  BY <1>1, <1>2
<1>4. /\ stack' \in [Threads -> Seq(Calls)] /\ stack'[t] = Popped(q)
      /\ \A u \in Threads \ {t} : stack'[u] = stack[u]
  BY <1>2 DEF StacksRight, Return
<1> QED BY <1>1, <1>2, <1>3, <1>4 DEF Pops, Others

LEMMA NestedPushes ==
  ASSUME StacksRight, NEW t \in Threads, ~ Idle(t), Top(t).at \in {"create", "delete"},
         NEW u \in Top(t).left, NEW d, NEW c,
         d = Call(Top(t).at, Top(t).of, Top(t).left \ {u}), c = Call("read", u, {}),
         stack' = [stack EXCEPT ![t] = Append(Replaced(@, d), c)]
  PROVE  Pushes(t, d, c) /\ u \in Statics
<1> DEFINE q == stack[t]
           r == Replaced(q, d)
           e == Append(r, c)
<1>1. /\ q \in Seq(Calls) /\ Shape(q) /\ q # << >> /\ Len(q) > 0 /\ Len(q) \in Nat
      /\ Top(t) = q[Len(q)] /\ Top(t) \in Calls /\ Len(q) \in 1..Len(q)
  BY StackFacts DEF StacksRight, Idle, Top
<1>2. u \in Statics /\ u # Null
  BY <1>1, ManagedStaticAssumption DEF Calls
<1>3. d \in Calls /\ d.at = Top(t).at /\ d.of = Top(t).of /\ d.left = Top(t).left \ {u}
  BY <1>1 DEF Call, Calls
<1>4. c \in Calls /\ c.at = "read" /\ c.of = u /\ c.left = {}
  BY <1>2 DEF Call, Calls, Points
<1>5. /\ Top(t).at = "create" => Top(t).left \subseteq CreatorUses[Top(t).of]
      /\ Top(t).at = "delete" => Top(t).left \subseteq DeleterUses[Top(t).of]
  BY <1>1 DEF Shape
<1>6. Shape(r)
  BY <1>1, <1>3, <1>5, ShapeReplaced
<1>7. /\ r \in Seq(Calls) /\ Len(r) = Len(q) /\ r[Len(q)] = d
      /\ \A i \in 1..Len(q) : i # Len(q) => r[i] = q[i]
  BY <1>1, <1>3, ReplacedFacts
<1> HIDE DEF r
<1>8. r # << >>
  BY <1>1, <1>7, EmptySeq
<1>9. Shape(e)
  <2>1. /\ d.at \in Waiting /\ d.at # "shutdown"
        /\ d.at = "create" => c.of \in CreatorUses[d.of] \ d.left
        /\ d.at = "delete" => c.of \in DeleterUses[d.of]
    BY <1>3, <1>4, <1>5 DEF Waiting
  <2> QED BY <1>2, <1>4, <1>6, <1>7, <1>8, <2>1, ShapePushed
<1>10. /\ e \in Seq(Calls) /\ Len(e) = Len(q) + 1 /\ e[Len(q) + 1] = c
       /\ \A i \in 1..Len(q) : e[i] = r[i]
  BY <1>4, <1>7, AppendFacts
<1>11. /\ stack' \in [Threads -> Seq(Calls)] /\ stack'[t] = e
       /\ \A v \in Threads \ {t} : stack'[v] = stack[v]
  BY <1>10 DEF StacksRight, r
<1> HIDE DEF e
<1> QED BY <1>1, <1>2, <1>7, <1>9, <1>10, <1>11 DEF Pushes, Others

LEMMA DestroyPushes ==
  ASSUME StacksRight, NEW t \in Threads, At(t, "shutdown"), NEW s \in Statics, NEW c,
         c = Call("delete", s, DeleterUses[s]), Enter(t, c)
  PROVE  Pushes(t, Top(t), c)
<1> DEFINE q == stack[t]
           e == Append(q, c)
<1>1. /\ q \in Seq(Calls) /\ Shape(q) /\ q # << >> /\ Len(q) > 0 /\ Len(q) \in Nat
      /\ Top(t) = q[Len(q)] /\ Top(t).at = "shutdown" /\ Len(q) \in 1..Len(q)
  BY StackFacts DEF StacksRight, At, Idle, Top
<1>2. /\ c \in Calls /\ c.at = "delete" /\ c.of = s /\ c.left = DeleterUses[s]
      /\ s # Null
  BY ManagedStaticAssumption DEF Call, Calls, Points
<1>3. Shape(e)
  BY <1>1, <1>2, ShapePushed DEF Waiting
<1>4. /\ e \in Seq(Calls) /\ Len(e) = Len(q) + 1 /\ e[Len(q) + 1] = c
      /\ \A i \in 1..Len(q) : e[i] = q[i]
  BY <1>1, <1>2, AppendFacts
<1>5. /\ stack' \in [Threads -> Seq(Calls)] /\ stack'[t] = e
      /\ \A v \in Threads \ {t} : stack'[v] = stack[v]
  BY <1>4 DEF StacksRight, Enter
<1> HIDE DEF e
<1> QED BY <1>1, <1>3, <1>4, <1>5 DEF Pushes, Others

\* The same for each action.
LEMMA Effects ==
  ASSUME StacksRight, StaticList \in Statics \cup {Null}, NEW t \in Threads
  PROVE
    /\ \A s \in Statics : Dereference(t, s) => Starts(t, Call("read", s, {}))
    /\ Shutdown(t) => Starts(t, Call("shutdown", Null, {}))
    /\ Read(t) => Moves(t, Call(IF Top(t).of \in Ptr THEN "use" ELSE "register", Top(t).of, Top(t).left))
    /\ Register(t) /\ multithreaded => Moves(t, Call("check", Top(t).of, Top(t).left))
    /\ Register(t) /\ ~ multithreaded => Moves(t, Call("create", Top(t).of, CreatorUses[Top(t).of]))
    /\ Check(t) /\ Top(t).of \in Ptr => Moves(t, Call("release", Top(t).of, {}))
    /\ Check(t) /\ Top(t).of \notin Ptr => Moves(t, Call("create", Top(t).of, CreatorUses[Top(t).of]))
    /\ Nested(t) => \E u \in Top(t).left \cap Statics :
         Pushes(t, Call(Top(t).at, Top(t).of, Top(t).left \ {u}), Call("read", u, {}))
    /\ Create(t) => Moves(t, Call("publish", Top(t).of, {}))
    /\ Publish(t) => Moves(t, Call("link", Top(t).of, Top(t).left))
    /\ Link(t) => Moves(t, Call("release", Top(t).of, Top(t).left))
    /\ Release(t) => Moves(t, Call("use", Top(t).of, Top(t).left))
    /\ Use(t) => Pops(t)
    /\ Destroy(t) => Pushes(t, Top(t), Call("delete", StaticList, DeleterUses[StaticList]))
    /\ Destroyed(t) => Pops(t)
    /\ ShutdownDone(t) => Pops(t)
<1> USE DEF Call
<1>1. ASSUME NEW s \in Statics, Dereference(t, s)
      PROVE  Starts(t, Call("read", s, {}))
  <2>1. Call("read", s, {}) \in Calls /\ s # Null
    BY ManagedStaticAssumption DEF Calls, Points
  <2> QED BY <1>1, <2>1, StartsIf DEF Dereference, MayCall
<1>2. ASSUME Shutdown(t)
      PROVE  Starts(t, Call("shutdown", Null, {}))
  <2>1. Call("shutdown", Null, {}) \in Calls
    BY DEF Calls, Points
  <2> QED BY <1>2, <2>1, StartsIf DEF Shutdown, Isolated
<1>3. ASSUME NEW point \in Points, At(t, point), point \notin {"shutdown", "delete"},
             NEW to \in Points, to \notin {"shutdown", "delete", "create"}, GoTo(t, to)
      PROVE  Moves(t, Call(to, Top(t).of, Top(t).left))
  <2>1. ~ Idle(t) /\ {to, Top(t).at} \cap {"shutdown", "delete"} = {}
    BY <1>3 DEF At
  <2> QED BY <1>3, <2>1, GoToIf
<1>4. ASSUME NEW point \in Points, At(t, point), point \notin {"shutdown", "delete"}
      PROVE  /\ Call("create", Top(t).of, CreatorUses[Top(t).of]) \in Calls
             /\ Top(t).of \in Statics /\ ~ Idle(t) /\ Top(t).at = point
  <2>1. ~ Idle(t) /\ Top(t).at = point /\ Top(t) \in Calls
    BY <1>4, StackFacts DEF At
  <2>2. Top(t).of # Null
    <3>1. Shape(stack[t]) /\ Len(stack[t]) \in 1..Len(stack[t])
      BY <2>1, StackFacts DEF StacksRight
    <3> QED BY <1>4, <2>1, <3>1 DEF Shape, Top
  <2>3. Top(t).of \in Statics
    BY <2>1, <2>2 DEF Calls
  <2> QED BY <2>1, <2>3, ManagedStaticAssumption DEF Calls, Points
<1>5. ASSUME NEW point \in Points, At(t, point), point \notin {"shutdown", "delete"},
             stack' = [stack EXCEPT ![t] =
                         Replaced(@, Call("create", Top(t).of, CreatorUses[Top(t).of]))]
      PROVE  Moves(t, Call("create", Top(t).of, CreatorUses[Top(t).of]))
  <2> DEFINE c == Call("create", Top(t).of, CreatorUses[Top(t).of])
  <2>1. /\ c \in Calls /\ c.of = Top(t).of /\ c.at = "create" /\ c.left = CreatorUses[c.of]
        /\ ~ Idle(t) /\ Top(t).at = point
    BY <1>5, <1>4
  <2>2. stack' = [stack EXCEPT ![t] = Replaced(@, c)]
    BY <1>5
  <2> HIDE DEF c
  <2>3. {c.at, Top(t).at} \cap {"shutdown", "delete"} = {}
    BY <1>5, <2>1
  <2>4. Moves(t, c)
    BY <2>1, <2>2, <2>3, MovesIf
  <2> QED BY <2>4 DEF c
<1>6. ASSUME Read(t)
      PROVE  Moves(t, Call(IF Top(t).of \in Ptr THEN "use" ELSE "register", Top(t).of, Top(t).left))
  BY <1>3, <1>6 DEF Read, Points
<1>7. ASSUME Register(t), multithreaded
      PROVE  Moves(t, Call("check", Top(t).of, Top(t).left))
  BY <1>3, <1>7 DEF Register, Points
<1>8. ASSUME Register(t), ~ multithreaded
      PROVE  Moves(t, Call("create", Top(t).of, CreatorUses[Top(t).of]))
  BY <1>5, <1>8 DEF Register, Points
<1>9. ASSUME Check(t), Top(t).of \in Ptr
      PROVE  Moves(t, Call("release", Top(t).of, {}))
  <2> DEFINE c == Call("release", Top(t).of, {})
  <2>1. At(t, "check") /\ stack' = [stack EXCEPT ![t] = Replaced(@, c)]
    BY <1>9 DEF Check
  <2>2. ~ Idle(t) /\ Top(t).at = "check" /\ Top(t).of \in Statics
    BY <2>1, <1>4 DEF Points
  <2>3. c \in Calls /\ c.at = "release" /\ c.of = Top(t).of
    BY <2>2 DEF Calls, Points
  <2> HIDE DEF c
  <2>4. {c.at, Top(t).at} \cap {"shutdown", "delete"} = {}
    BY <2>2, <2>3
  <2>5. Moves(t, c)
    BY <2>1, <2>2, <2>3, <2>4, MovesIf
  <2> QED BY <2>5 DEF c
<1>10. ASSUME Check(t), Top(t).of \notin Ptr
       PROVE  Moves(t, Call("create", Top(t).of, CreatorUses[Top(t).of]))
  BY <1>5, <1>10 DEF Check, Points
<1>11. ASSUME Nested(t)
       PROVE  \E u \in Top(t).left \cap Statics :
                Pushes(t, Call(Top(t).at, Top(t).of, Top(t).left \ {u}), Call("read", u, {}))
  <2>1. ~ Idle(t) /\ Top(t).at \in {"create", "delete"}
    BY <1>11 DEF Nested, At
  <2>2. PICK u \in Top(t).left :
          stack' = [stack EXCEPT ![t] =
                      Append(Replaced(@, Call(Top(t).at, Top(t).of, Top(t).left \ {u})),
                             Call("read", u, {}))]
    BY <1>11 DEF Nested
  <2> QED BY <2>1, <2>2, NestedPushes
<1>12. ASSUME Create(t)
       PROVE  Moves(t, Call("publish", Top(t).of, {}))
  BY <1>3, <1>12 DEF Create, Points
<1>13. ASSUME Publish(t)
       PROVE  Moves(t, Call("link", Top(t).of, Top(t).left))
  BY <1>3, <1>13 DEF Publish, Points
<1>14. ASSUME Link(t)
       PROVE  Moves(t, Call("release", Top(t).of, Top(t).left))
  BY <1>3, <1>14 DEF Link, Points
<1>15. ASSUME Release(t)
       PROVE  Moves(t, Call("use", Top(t).of, Top(t).left))
  BY <1>3, <1>15 DEF Release, Points
<1>16. ASSUME Use(t) \/ Destroyed(t) \/ ShutdownDone(t)
       PROVE  Pops(t)
  BY <1>16, PopsIf DEF Use, Destroyed, ShutdownDone, At
<1>17. ASSUME Destroy(t)
       PROVE  Pushes(t, Top(t), Call("delete", StaticList, DeleterUses[StaticList]))
  BY <1>17, DestroyPushes DEF Destroy
<1> QED BY <1>1, <1>2, <1>6, <1>7, <1>8, <1>9, <1>10, <1>11, <1>12, <1>13, <1>14, <1>15,
           <1>16, <1>17

-----------------------------------------------------------------------------
(* Stacks, isolation and the lock *)

LEMMA StacksStep ==
  ASSUME StacksRight, StaticList \in Statics \cup {Null}, [Next]_vars
  PROVE  StacksRight'
<1>1. ASSUME NEW t \in Threads, Others(t)
      PROVE  StacksRight'
  BY <1>1 DEF Others, StacksRight
<1>2. CASE UNCHANGED stack
  BY <1>2 DEF StacksRight
<1>3. CASE StartMultithreaded
  BY <1>2, <1>3 DEF StartMultithreaded
<1>4. ASSUME NEW t \in Threads, \/ \E s \in Statics : Dereference(t, s)
                                \/ Shutdown(t) \/ Step(t)
      PROVE  StacksRight'
  <2>1. ASSUME NEW c, Starts(t, c) \/ Moves(t, c) \/ (\E d : Pushes(t, d, c)) \/ Pops(t)
        PROVE  Others(t)
    BY <2>1 DEF Starts, Moves, Pushes, Pops
  <2>2. Pops(t) => Others(t)
    BY <2>1
  <2>3. CASE Shutdown(t) \/ Read(t) \/ Create(t) \/ Publish(t) \/ Link(t) \/ Release(t)
             \/ Use(t) \/ Destroy(t) \/ Destroyed(t) \/ ShutdownDone(t)
    BY <1>1, <2>1, <2>2, <2>3, Effects
  <2>4. CASE \E s \in Statics : Dereference(t, s)
    BY <1>1, <2>1, <2>4, Effects
  <2>5. CASE Nested(t)
    BY <1>1, <2>1, <2>5, Effects
  <2>6. CASE Register(t)
    BY <1>1, <2>1, <2>6, Effects
  <2>7. CASE Check(t)
    BY <1>1, <2>1, <2>7, Effects
  <2> QED BY <1>4, <2>3, <2>4, <2>5, <2>6, <2>7 DEF Step
<1> QED BY <1>2, <1>3, <1>4 DEF Next, vars

\* The lowest call of a thread is a shutdown for as long as the thread is busy.
LEMMA BottomSame ==
  ASSUME StacksRight, NEW t \in Threads, StacksRight',
         \/ \E c : Moves(t, c) /\ c.of = Top(t).of
         \/ \E d, c : Pushes(t, d, c) /\ d.of = Top(t).of
         \/ Pops(t)
  PROVE  /\ ~ Idle(t)
         /\ ~ Idle(t)' => (stack'[t][1].at = "shutdown" <=> stack[t][1].at = "shutdown")
<1> DEFINE q == stack[t]
           r == stack'[t]
           n == Len(q)
<1>1. /\ n \in Nat /\ Shape(q) /\ Shape(r) /\ n > 0 /\ Len(r) \in Nat /\ n \in 1..n
      /\ ~ Idle(t) /\ Top(t) = q[n] /\ 1 \in 1..n
  BY StackFacts DEF StacksRight, Moves, Pushes, Pops, Idle, Top
<1>2. ~ Idle(t)' => Len(r) # 0
  <2>1. r \in Seq(Calls)
    BY DEF StacksRight
  <2>2. r # << >> => Len(r) # 0
    BY <2>1, EmptySeq
  <2> QED BY <2>2 DEF Idle
<1>3. CASE Pops(t)
  <2>1. Len(r) = n - 1 /\ \A i \in 1..n : i # n => r[i] = q[i]
    BY <1>3 DEF Pops
  <2> HIDE DEF q, r, n
  <2>2. Len(r) # 0 => r[1] = q[1]
    BY <1>1, <2>1
  <2> QED BY <1>1, <1>2, <2>2 DEF q, r
<1>4. CASE ~ Pops(t)
  <2>1. PICK d : r[n] = d /\ d.of = q[n].of /\ n \in 1..Len(r) /\ \A i \in 1..n : i # n => r[i] = q[i]
    BY <1>1, <1>4 DEF Moves, Pushes
  <2>2. r[n].at = "shutdown" <=> q[n].at = "shutdown"
    BY <1>1, <2>1 DEF Shape
  <2> QED BY <1>1, <2>1, <2>2
<1> QED BY <1>3, <1>4

\* What one step of a thread that is in a call does.
LEMMA StepKinds ==
  ASSUME StacksRight, StaticList \in Statics \cup {Null}, NEW t \in Threads, Step(t)
  PROVE  \/ \E c : Moves(t, c) /\ c.of = Top(t).of
         \/ \E d, c : Pushes(t, d, c) /\ d.of = Top(t).of
         \/ Pops(t)
<1>1. \A point, s, left : Call(point, s, left).of = s
  BY DEF Call
<1>2. ASSUME NEW c, Moves(t, c), c.of = Top(t).of
      PROVE  \E d : Moves(t, d) /\ d.of = Top(t).of
  BY <1>2
<1>3. ASSUME NEW point, NEW left, Moves(t, Call(point, Top(t).of, left))
      PROVE  \E d : Moves(t, d) /\ d.of = Top(t).of
  BY <1>1, <1>2, <1>3
<1>4. CASE Read(t) \/ Create(t) \/ Publish(t) \/ Link(t) \/ Release(t) \/ Register(t) \/ Check(t)
  BY <1>3, <1>4, Effects
<1>5. CASE Use(t) \/ Destroyed(t) \/ ShutdownDone(t)
  BY <1>5, Effects
<1>6. CASE Destroy(t)
  <2>1. Pushes(t, Top(t), Call("delete", StaticList, DeleterUses[StaticList]))
    BY <1>6, Effects
  <2> QED BY <2>1
<1>7. CASE Nested(t)
  <2>1. PICK u : Pushes(t, Call(Top(t).at, Top(t).of, Top(t).left \ {u}), Call("read", u, {}))
    BY <1>7, Effects
  <2>2. Call(Top(t).at, Top(t).of, Top(t).left \ {u}).of = Top(t).of
    BY <1>1
  <2> QED BY <2>1, <2>2
<1> QED BY <1>4, <1>5, <1>6, <1>7 DEF Step

LEMMA OthersIdle ==
  ASSUME NEW t \in Threads, Others(t)
  PROVE  \A u \in Threads \ {t} : Idle(u)' <=> Idle(u)
BY DEF Others, Idle

LEMMA StepOthers ==
  ASSUME StacksRight, StaticList \in Statics \cup {Null}, NEW t \in Threads, Step(t)
  PROVE  Others(t) /\ ~ Idle(t)
<1>1. Others(t)
  BY StepKinds DEF Moves, Pushes, Pops
<1>2. ~ Idle(t)
  <2>1. Len(stack[t]) > 0
    BY StepKinds DEF Moves, Pushes, Pops
  <2> QED BY <2>1, StackFacts
<1> QED BY <1>1, <1>2

LEMMA IsolationStep ==
  ASSUME StacksRight, Isolation, StaticList \in Statics \cup {Null}, StacksRight', [Next]_vars
  PROVE  Isolation'
<1>1. CASE UNCHANGED vars
  BY <1>1 DEF vars, Isolation, Idle, Alone
<1>2. CASE StartMultithreaded
  BY <1>2 DEF StartMultithreaded, Isolated, Isolation, Idle
<1>3. ASSUME NEW t \in Threads, NEW s \in Statics, Dereference(t, s)
      PROVE  Isolation'
  <2>1. Starts(t, Call("read", s, {})) /\ multithreaded' = multithreaded
    BY <1>3, Effects DEF Dereference
  <2>2. \A u \in Threads \ {t} : (Idle(u)' <=> Idle(u)) /\ stack'[u] = stack[u]
    BY <2>1, OthersIdle DEF Starts, Others
  <2>3. CASE Isolated
    BY <2>2, <2>3 DEF Isolated, Isolation
  <2>4. CASE multithreaded /\ ~ ShuttingDown
    <3>1. \A u \in Threads : ~ Idle(u) => stack[u][1].at # "shutdown"
      <4> SUFFICES ASSUME NEW u \in Threads, ~ Idle(u)
                   PROVE  stack[u][1].at # "shutdown"
        OBVIOUS
      <4>1. 1 \in 1..Len(stack[u])
        BY StackFacts
      <4> QED BY <2>4, <4>1 DEF ShuttingDown
    <3>2. stack'[t][1].at = "read"
      BY <2>1 DEF Starts, Call
    <3>3. \A u \in Threads : ~ Idle(u)' => ~ Alone(u)'
      BY <2>1, <2>2, <2>4, <3>1, <3>2 DEF Alone
    <3> QED BY <3>3 DEF Isolation
  <2> QED BY <1>3, <2>3, <2>4 DEF Dereference, MayCall
<1>4. ASSUME NEW t \in Threads, Shutdown(t)
      PROVE  Isolation'
  <2>1. Starts(t, Call("shutdown", Null, {}))
    BY <1>4, Effects
  <2>2. \A u \in Threads \ {t} : Idle(u)' <=> Idle(u)
    BY <2>1, OthersIdle DEF Starts
  <2> QED BY <1>4, <2>2 DEF Shutdown, Isolated, Isolation
<1>5. ASSUME NEW t \in Threads, Step(t)
      PROVE  Isolation'
  <2>1. /\ ~ Idle(t) /\ \A u \in Threads \ {t} : stack'[u] = stack[u] /\ (Idle(u)' <=> Idle(u))
    BY <1>5, StepOthers, OthersIdle DEF Others
  <2>2. ~ Idle(t)' => (stack'[t][1].at = "shutdown" <=> stack[t][1].at = "shutdown")
    BY <1>5, StepKinds, BottomSame
  <2>3. CASE multithreaded' = multithreaded
    <3>1. \A u \in Threads : ~ Idle(u)' /\ Alone(u)' => Alone(u)
      BY <2>1, <2>2, <2>3 DEF Alone
    <3> QED BY <2>1, <3>1 DEF Isolation
  <2>4. CASE ShutdownDone(t)
    <3>1. At(t, "shutdown")
      BY <2>4 DEF ShutdownDone
    <3>2. Len(stack[t]) = 1 /\ stack[t][1].at = "shutdown"
      <4>1. Len(stack[t]) \in 1..Len(stack[t]) /\ Shape(stack[t]) /\ stack[t][Len(stack[t])].at = "shutdown"
        BY <2>1, <3>1, StackFacts DEF StacksRight, At, Top
      <4> QED BY <4>1 DEF Shape
    <3>3. Idle(t)'
      <4>1. Pops(t)
        BY <2>4, Effects
      <4>2. Len(stack'[t]) = 0
        BY <4>1, <3>2 DEF Pops
      <4>3. stack'[t] \in Seq(Calls)
        BY DEF StacksRight
      <4> QED BY <4>2, <4>3, EmptySeq DEF Idle
    <3>4. \A u \in Threads : Idle(u)'
      BY <2>1, <3>2, <3>3 DEF Isolation, Alone
    <3> QED BY <3>4 DEF Isolation
  <2> QED BY <1>5, <2>3, <2>4 DEF Step, Read, Register, Check, Nested, Create, Publish, Link,
                                  Release, Use, Destroy, Destroyed
<1> QED BY <1>1, <1>2, <1>3, <1>4, <1>5 DEF Next

\* Held, spelled out.
LEMMA HeldFacts ==
  ASSUME NEW q, Shape(q), q # << >>
  PROVE  LET n == Len(q) IN
         /\ Outside(q) \in {0, 2} /\ (Outside(q) = 2 <=> q[1].at = "shutdown")
         /\ q[n].at \in {"shutdown", "delete"} => Held(q) = 0 /\ Outside(q) = 2 /\ n <= 2
         /\ q[n].at \notin {"shutdown", "delete"} =>
              /\ n > Outside(q)
              /\ Held(q) = IF q[n].at \in Critical THEN n - Outside(q) ELSE n - Outside(q) - 1
         /\ Held(q) \in Nat
<1> DEFINE n == Len(q)
<1>1. n \in Nat \ {0} /\ n \in 1..n /\ 1 \in 1..n
  BY TopFacts
<1>2. Outside(q) \in {0, 2} /\ (Outside(q) = 2 <=> q[1].at = "shutdown")
  BY <1>1 DEF Outside
<1>3. CASE q[n].at \in {"shutdown", "delete"}
  <2>1. n <= 2 /\ q[1].at = "shutdown"
    BY <1>1, <1>3 DEF Shape
  <2> QED BY <1>1, <1>2, <1>3, <2>1 DEF Held
<1>4. CASE q[n].at \notin {"shutdown", "delete"}
  <2>1. n > Outside(q)
    <3>1. CASE q[1].at # "shutdown"
      BY <1>1, <1>2, <3>1
    <3>2. CASE q[1].at = "shutdown"
      <4>1. n # 1
        BY <1>4, <3>2
      <4>2. q[1 + 1].at = "delete"
        BY <1>1, <3>2, <4>1 DEF Shape
      <4>3. n # 2
        BY <1>4, <4>2
      <4> HIDE DEF n
      <4>4. n > 2
        BY <1>1, <4>1, <4>3
      <4> QED BY <1>1, <1>2, <4>4
    <3> QED BY <3>1, <3>2
  <2>2. Held(q) = IF q[n].at \in Critical THEN n - Outside(q) ELSE n - Outside(q) - 1
    BY <1>1, <1>2, <2>1 DEF Held
  <2> QED BY <1>1, <1>2, <1>4, <2>1, <2>2
<1> QED BY <1>2, <1>3, <1>4

LEMMA HeldEmpty ==
  ASSUME NEW q \in Seq(Calls), Len(q) = 0
  PROVE  Held(q) = 0
BY DEF Held, Outside

LEMMA HeldMoves ==
  ASSUME StacksRight, StacksRight', NEW t \in Threads, NEW c, Moves(t, c), c.of = Top(t).of,
         {c.at, Top(t).at} \cap {"shutdown", "delete"} = {}
  PROVE  /\ (c.at \in Critical <=> Top(t).at \in Critical) => Held(stack'[t]) = Held(stack[t])
         /\ c.at \in Critical /\ Top(t).at \notin Critical => Held(stack'[t]) = Held(stack[t]) + 1
         /\ c.at \notin Critical /\ Top(t).at \in Critical => Held(stack[t]) = Held(stack'[t]) + 1
         /\ Top(t).at \in Critical => Held(stack[t]) > 0
<1> DEFINE q == stack[t]
           r == stack'[t]
           n == Len(q)
<1>1. Shape(q) /\ Shape(r) /\ q # << >> /\ n \in Nat /\ Top(t) = q[n]
  BY BottomSame, StackFacts DEF StacksRight, Idle, Top
<1>2. Len(r) = n /\ r[n] = c /\ n > 0
  BY DEF Moves
<1>3. r # << >>
  BY <1>1, <1>2, EmptySeq
<1>4. Outside(r) = Outside(q)
  <2>1. r[1].at = "shutdown" <=> q[1].at = "shutdown"
    BY <1>3, BottomSame DEF Idle
  <2> QED BY <1>1, <1>3, <2>1, HeldFacts
<1>5. q[n].at \notin {"shutdown", "delete"} /\ r[n].at \notin {"shutdown", "delete"}
  BY <1>1, <1>2
<1>6. /\ n > Outside(q) /\ Outside(q) \in {0, 2}
      /\ Held(q) = IF q[n].at \in Critical THEN n - Outside(q) ELSE n - Outside(q) - 1
      /\ Held(r) = IF r[n].at \in Critical THEN n - Outside(q) ELSE n - Outside(q) - 1
  BY <1>1, <1>2, <1>3, <1>4, <1>5, HeldFacts
<1> HIDE DEF q, r, n
<1> QED BY <1>1, <1>2, <1>6 DEF q, r

LEMMA HeldPushes ==
  ASSUME StacksRight, StacksRight', NEW t \in Threads, NEW c, NEW d, Pushes(t, d, c),
         d.of = Top(t).of, d.at = Top(t).at, Top(t).at \in Waiting, c.at \in {"read", "delete"}
  PROVE  Held(stack'[t]) = Held(stack[t])
<1> DEFINE q == stack[t]
           r == stack'[t]
           n == Len(q)
<1>1. Shape(q) /\ Shape(r) /\ q # << >> /\ n \in Nat /\ Top(t) = q[n]
  BY BottomSame, StackFacts DEF StacksRight, Idle, Top
<1>2. Len(r) = n + 1 /\ r[n] = d /\ r[n + 1] = c /\ n > 0
  BY DEF Pushes
<1>3. r # << >>
  BY <1>1, <1>2, EmptySeq
<1>4. Outside(r) = Outside(q)
  <2>1. r[1].at = "shutdown" <=> q[1].at = "shutdown"
    BY <1>3, BottomSame DEF Idle
  <2> QED BY <1>1, <1>3, <2>1, HeldFacts
<1>5. r[n].at = q[n].at /\ n \in 1..Len(r) /\ n < Len(r)
  BY <1>1, <1>2
<1>6. c.at \notin Critical
  BY DEF Critical
<1>7. CASE c.at = "delete"
  <2>1. n + 1 = 2
    BY <1>1, <1>2, <1>7 DEF Shape
  <2>2. q[n].at = "shutdown"
    BY <1>1, <1>2, <1>5, <1>7, <2>1 DEF Shape
  <2> QED BY <1>1, <1>2, <1>3, <1>7, <2>2, HeldFacts
<1>8. CASE c.at # "delete"
  <2>1. n + 1 > Outside(q) /\ Held(r) = n + 1 - Outside(q) - 1
    BY <1>1, <1>2, <1>3, <1>4, <1>6, <1>8, HeldFacts
  <2>2. CASE q[n].at = "create"
    BY <1>1, <1>4, <2>1, <2>2, HeldFacts DEF Critical
  <2>3. CASE q[n].at # "create"
    <3>1. q[n].at \in {"delete", "shutdown"}
      BY <1>1, <2>3 DEF Waiting
    <3>2. Held(q) = 0 /\ Outside(q) = 2 /\ n <= 2
      BY <1>1, <3>1, HeldFacts
    <3> HIDE DEF n, q, r
    <3>3. Held(r) = 0
      BY <1>1, <2>1, <3>2
    <3> QED BY <3>2, <3>3 DEF q, r
  <2> QED BY <2>2, <2>3
<1> QED BY <1>7, <1>8

LEMMA HeldPops ==
  ASSUME StacksRight, StacksRight', NEW t \in Threads, Pops(t), Top(t).at \notin Critical
  PROVE  Held(stack'[t]) = Held(stack[t])
<1> DEFINE q == stack[t]
           r == stack'[t]
           n == Len(q)
<1>1. /\ Shape(q) /\ Shape(r) /\ q # << >> /\ n \in Nat /\ Top(t) = q[n] /\ q[n].at \notin Critical
      /\ r \in Seq(Calls) /\ (Idle(t)' <=> r = << >>)
  BY BottomSame, StackFacts DEF StacksRight, Idle, Top
<1>2. Len(r) = n - 1 /\ n > 0 /\ \A i \in 1..n : i # n => r[i] = q[i]
  BY DEF Pops
<1>3. CASE n = 1
  <2>1. Held(r) = 0
    BY <1>1, <1>2, <1>3, HeldEmpty
  <2>2. Held(q) = 0
    BY <1>1, <1>3, HeldFacts
  <2> QED BY <2>1, <2>2
<1>4. CASE n # 1
  <2>1. r # << >> /\ n - 1 \in 1..n /\ r[n - 1] = q[n - 1]
    <3> HIDE DEF n, q, r
    <3>1. n > 1 /\ n - 1 \in 1..n /\ n - 1 # n
      BY <1>1, <1>2, <1>4
    <3>2. r[n - 1] = q[n - 1]
      BY <1>2, <3>1
    <3>3. Len(r) # 0
      BY <1>2, <3>1
    <3> QED BY <1>1, <3>1, <3>2, <3>3, EmptySeq
  <2>2. Outside(r) = Outside(q)
    <3>1. r[1].at = "shutdown" <=> q[1].at = "shutdown"
      <4>1. ~ Idle(t)'
        BY <1>1, <2>1
      <4> QED BY <4>1, BottomSame
    <3> QED BY <1>1, <2>1, <3>1, HeldFacts
  <2>3. q[n - 1].at \in Waiting
    BY <1>1, <1>2, <2>1 DEF Shape, Waiting
  <2>4. CASE q[n - 1].at = "create"
    <3>1. Held(r) = n - 1 - Outside(q) /\ n - 1 > Outside(q)
      BY <1>1, <1>2, <2>1, <2>2, <2>4, HeldFacts DEF Critical
    <3>2. Outside(q) \in {0, 2}
      BY <1>1, HeldFacts
    <3>3. q[n].at \notin {"shutdown", "delete"}
      BY <1>1, <3>1, <3>2, HeldFacts
    <3>4. Held(q) = n - Outside(q) - 1
      BY <1>1, <3>3, HeldFacts
    <3> QED BY <1>1, <3>1, <3>2, <3>4
  <2>5. CASE q[n - 1].at # "create"
    <3>1. Held(r) = 0 /\ Outside(q) = 2 /\ n - 1 <= 2
      BY <1>1, <1>2, <2>1, <2>2, <2>3, <2>5, HeldFacts DEF Waiting
    <3>2. Held(q) = 0
      <4>1. CASE q[n].at \in {"shutdown", "delete"}
        BY <1>1, <4>1, HeldFacts
      <4>2. CASE q[n].at \notin {"shutdown", "delete"}
        <5>1. n > 2 /\ Held(q) = n - 2 - 1
          BY <1>1, <3>1, <4>2, HeldFacts
        <5> HIDE DEF n, q, r
        <5>2. n - 1 <= 2 /\ n \in Nat
          BY <1>1, <3>1
        <5> QED BY <5>1, <5>2
      <4> QED BY <4>1, <4>2
    <3> QED BY <3>1, <3>2
  <2> QED BY <2>4, <2>5
<1> QED BY <1>3, <1>4

LEMMA LockSame ==
  ASSUME LockCounts, NEW t \in Threads, Others(t), Held(stack'[t]) = Held(stack[t]),
         UNCHANGED <<lock, multithreaded>>
  PROVE  LockCounts'
<1>1. \A u \in Threads : Held(stack'[u]) = Held(stack[u])
  BY DEF Others
<1> QED BY <1>1 DEF LockCounts, Free

LEMMA LockUp ==
  ASSUME StacksRight, LockCounts, multithreaded, NEW t \in Threads, Others(t), Acquire(t),
         Held(stack'[t]) = Held(stack[t]) + 1, Held(stack[t]) \in Nat, multithreaded' = multithreaded
  PROVE  LockCounts'
<1>1. \A u \in Threads \ {t} : Held(stack'[u]) = Held(stack[u])
  BY DEF Others
<1>2. lock' = [owner |-> t, depth |-> lock.depth + 1] /\ lock.owner \in {Null, t}
  BY DEF Acquire
<1>3. Null \notin Threads
  BY ManagedStaticAssumption
<1>4. lock.depth = Held(stack[t]) /\ \A u \in Threads \ {t} : Held(stack[u]) = 0
  <2>1. CASE lock = Free
    BY <2>1 DEF LockCounts, Free
  <2>2. CASE lock # Free
    <3>1. PICK v \in Threads :
            /\ lock = [owner |-> v, depth |-> Held(stack[v])] /\ lock.depth > 0
            /\ \A u \in Threads \ {v} : Held(stack[u]) = 0
      BY <2>2 DEF LockCounts
    <3>2. v = t
      BY <1>2, <1>3, <3>1
    <3> QED BY <3>1, <3>2
  <2> QED BY <2>1, <2>2
<1>5. lock' = [owner |-> t, depth |-> Held(stack'[t])] /\ lock'.depth > 0
  BY <1>2, <1>4
<1>6. lock' # Free
  BY <1>3, <1>5 DEF Free
<1> QED BY <1>1, <1>4, <1>5, <1>6 DEF LockCounts

LEMMA LockDown ==
  ASSUME StacksRight, LockCounts, multithreaded, NEW t \in Threads, Others(t),
         lock' = IF lock.depth = 1 THEN Free ELSE [lock EXCEPT !.depth = @ - 1],
         Held(stack[t]) = Held(stack'[t]) + 1, Held(stack'[t]) \in Nat, multithreaded' = multithreaded
  PROVE  LockCounts'
<1>1. \A u \in Threads \ {t} : Held(stack'[u]) = Held(stack[u])
  BY DEF Others
<1>2. Null \notin Threads
  BY ManagedStaticAssumption
<1>3. lock # Free
  BY DEF LockCounts
<1>4. PICK v \in Threads :
        /\ lock = [owner |-> v, depth |-> Held(stack[v])] /\ lock.depth > 0
        /\ \A u \in Threads \ {v} : Held(stack[u]) = 0
  BY <1>3 DEF LockCounts
<1>5. v = t
  BY <1>4
<1>6. CASE Held(stack'[t]) = 0
  <2>1. lock' = Free
    BY <1>4, <1>5, <1>6
  <2> QED BY <1>1, <1>4, <1>5, <1>6, <2>1 DEF LockCounts
<1>7. CASE Held(stack'[t]) # 0
  <2>1. lock.depth = Held(stack'[t]) + 1 /\ lock.depth # 1 /\ lock.depth - 1 = Held(stack'[t])
    BY <1>4, <1>5, <1>7
  <2>2. lock' = [owner |-> t, depth |-> Held(stack'[t])] /\ lock'.depth > 0
    BY <1>4, <1>5, <1>7, <2>1
  <2>3. lock' # Free
    BY <1>2, <2>2 DEF Free
  <2> QED BY <1>1, <1>4, <1>5, <2>2, <2>3 DEF LockCounts
<1> QED BY <1>6, <1>7

LEMMA HeldNat ==
  ASSUME StacksRight, NEW t \in Threads
  PROVE  Held(stack[t]) \in Nat /\ (Idle(t) => Held(stack[t]) = 0)
<1>1. CASE Idle(t)
  BY <1>1, StackFacts, HeldEmpty
<1>2. CASE ~ Idle(t)
  BY <1>2, HeldFacts DEF StacksRight, Idle
<1> QED BY <1>1, <1>2

LEMMA LockStep ==
  ASSUME StacksRight, StacksRight', LockCounts, multithreaded \in BOOLEAN,
         StaticList \in Statics \cup {Null}, [Next]_vars
  PROVE  LockCounts'
<1>1. CASE UNCHANGED vars
  BY <1>1 DEF vars, LockCounts, Held, Outside
<1>2. CASE StartMultithreaded
  <2>1. lock' = Free /\ stack' = stack /\ \A t \in Threads : Held(stack[t]) = 0
    BY <1>2, HeldNat DEF StartMultithreaded, Isolated
  <2> QED BY <2>1 DEF LockCounts, Free
<1>3. ASSUME NEW t \in Threads, (\E s \in Statics : Dereference(t, s)) \/ Shutdown(t)
      PROVE  LockCounts'
  <2>1. PICK c : Starts(t, c) /\ c.at \in {"read", "shutdown"}
    <3>1. \A s : Call("read", s, {}).at = "read" /\ Call("shutdown", s, {}).at = "shutdown"
      BY DEF Call
    <3>2. CASE Shutdown(t)
      BY <3>1, <3>2, Effects
    <3>3. ASSUME NEW s \in Statics, Dereference(t, s)
          PROVE  Starts(t, Call("read", s, {}))
      BY <3>3, Effects
    <3> QED BY <1>3, <3>1, <3>2, <3>3
  <2>2. Held(stack[t]) = 0
    BY <2>1, HeldEmpty DEF Starts, StacksRight
  <2>3. Held(stack'[t]) = 0
    <3>1. stack'[t] # << >> /\ Shape(stack'[t]) /\ Len(stack'[t]) = 1 /\ stack'[t][1].at = c.at
      <4>1. Len(stack'[t]) = 1 /\ stack'[t][1].at = c.at
        BY <2>1 DEF Starts
      <4>2. stack'[t] # << >>
        BY <4>1, EmptySeq
      <4> QED BY <4>1, <4>2 DEF StacksRight
    <3>2. CASE c.at = "shutdown"
      BY <3>1, <3>2, HeldFacts
    <3>3. CASE c.at = "read"
      BY <3>1, <3>3, HeldFacts DEF Critical
    <3> QED BY <2>1, <3>2, <3>3
  <2> QED BY <1>3, <2>1, <2>2, <2>3, LockSame DEF Starts, Dereference, Shutdown
<1>4. ASSUME NEW t \in Threads, Step(t), ~ multithreaded
      PROVE  LockCounts'
  BY <1>4 DEF LockCounts, Free, Step, Read, Register, Check, Nested, Create, Publish, Link,
              Release, Use, Destroy, Destroyed, ShutdownDone
<1>5. ASSUME NEW t \in Threads, Step(t), multithreaded
      PROVE  LockCounts'
  <2>0. Others(t) /\ Held(stack[t]) \in Nat /\ Held(stack'[t]) \in Nat
    <3>1. Held(stack[t]) \in Nat
      BY HeldNat
    <3>2. Shape(stack'[t]) /\ stack'[t] \in Seq(Calls)
      BY DEF StacksRight
    <3>3. Held(stack'[t]) \in Nat
      BY <3>2, HeldFacts, HeldEmpty, EmptySeq
    <3> QED BY <1>5, <3>1, <3>3, StepOthers
  <2>1. ASSUME NEW from, NEW to, NEW left, At(t, from), Moves(t, Call(to, Top(t).of, left)),
               {from, to} \cap {"shutdown", "delete"} = {}
        PROVE  /\ (to \in Critical <=> from \in Critical) => Held(stack'[t]) = Held(stack[t])
               /\ to \in Critical /\ from \notin Critical => Held(stack'[t]) = Held(stack[t]) + 1
               /\ to \notin Critical /\ from \in Critical => Held(stack[t]) = Held(stack'[t]) + 1
    <3> DEFINE c == Call(to, Top(t).of, left)
    <3>1. Moves(t, c) /\ c.at = to /\ c.of = Top(t).of /\ Top(t).at = from
      BY <2>1 DEF Call, At
    <3> HIDE DEF c
    <3>2. {c.at, Top(t).at} \cap {"shutdown", "delete"} = {}
      BY <2>1, <3>1
    <3> QED BY <3>1, <3>2, HeldMoves
  <2>2. CASE Read(t) \/ Create(t) \/ Publish(t) \/ Link(t)
    <3>1. Held(stack'[t]) = Held(stack[t])
      <4>1. CASE Read(t)
        BY <2>1, <4>1, Effects DEF Read, Critical
      <4>2. CASE Create(t)
        BY <2>1, <4>2, Effects DEF Create, Critical
      <4>3. CASE Publish(t)
        BY <2>1, <4>3, Effects DEF Publish, Critical
      <4>4. CASE Link(t)
        BY <2>1, <4>4, Effects DEF Link, Critical
      <4> QED BY <2>2, <4>1, <4>2, <4>3, <4>4
    <3> QED BY <2>0, <2>2, <3>1, LockSame DEF Read, Create, Publish, Link
  <2>3. CASE Check(t)
    <3>1. Held(stack'[t]) = Held(stack[t])
      BY <2>1, <2>3, Effects DEF Check, Critical
    <3> QED BY <2>0, <2>3, <3>1, LockSame DEF Check
  <2>4. CASE Register(t)
    <3>1. Held(stack'[t]) = Held(stack[t]) + 1
      BY <1>5, <2>1, <2>4, Effects DEF Register, Critical
    <3> QED BY <1>5, <2>0, <2>4, <3>1, LockUp DEF Register
  <2>5. CASE Release(t)
    <3>1. Held(stack[t]) = Held(stack'[t]) + 1
      BY <2>1, <2>5, Effects DEF Release, Critical
    <3> QED BY <1>5, <2>0, <2>5, <3>1, LockDown DEF Release
  <2>6. CASE Nested(t)
    <3>1. PICK u : Pushes(t, Call(Top(t).at, Top(t).of, Top(t).left \ {u}), Call("read", u, {}))
      BY <2>6, Effects
    <3>2. Top(t).at \in Waiting
      BY <2>6 DEF Nested, At, Waiting
    <3>3. Held(stack'[t]) = Held(stack[t])
      BY <3>1, <3>2, HeldPushes DEF Call
    <3> QED BY <2>0, <2>6, <3>3, LockSame DEF Nested
  <2>7. CASE Destroy(t)
    <3>1. Pushes(t, Top(t), Call("delete", StaticList, DeleterUses[StaticList]))
      BY <2>7, Effects
    <3>2. Top(t).at \in Waiting
      BY <2>7 DEF Destroy, At, Waiting
    <3>3. Held(stack'[t]) = Held(stack[t])
      BY <3>1, <3>2, HeldPushes DEF Call
    <3> QED BY <2>0, <2>7, <3>3, LockSame DEF Destroy
  <2>8. CASE Use(t) \/ Destroyed(t)
    <3>1. Top(t).at \notin Critical
      BY <2>8 DEF Use, Destroyed, At, Critical
    <3>2. Held(stack'[t]) = Held(stack[t])
      BY <2>8, <3>1, Effects, HeldPops
    <3> QED BY <2>0, <2>8, <3>2, LockSame DEF Use, Destroyed
  <2>9. CASE ShutdownDone(t)
    BY <2>9 DEF ShutdownDone, LockCounts, Free
  <2> QED BY <1>5, <2>2, <2>3, <2>4, <2>5, <2>6, <2>7, <2>8, <2>9 DEF Step
<1> QED BY <1>1, <1>2, <1>3, <1>4, <1>5 DEF Next

-----------------------------------------------------------------------------
(* Who is where *)

LEMMA CriticalHeld ==
  ASSUME StacksRight, NEW t \in Threads, Within(t, Critical)
  PROVE  Held(stack[t]) > 0 /\ ~ Idle(t)
<1> DEFINE q == stack[t]
           n == Len(q)
<1>1. PICK i \in 1..n : q[i].at \in Critical
  BY DEF Within
<1>2. n \in Nat /\ ~ Idle(t) /\ q # << >> /\ Shape(q) /\ n \in 1..n
  <2>1. n \in Nat /\ n # 0
    BY <1>1, StackFacts
  <2> QED BY <2>1, StackFacts DEF StacksRight, Idle
<1>3. q[i].at \notin {"shutdown", "delete"}
  BY <1>1 DEF Critical
<1>4. CASE i = n
  <2>1. n > Outside(q) /\ Held(q) = n - Outside(q) /\ Outside(q) \in {0, 2}
    BY <1>1, <1>2, <1>3, <1>4, HeldFacts
  <2> HIDE DEF n
  <2> QED BY <1>2, <2>1
<1>5. CASE i # n
  <2>1. i < n /\ i > Outside(q)
    <3>1. CASE Outside(q) = 0
      BY <1>1, <1>2, <1>5, <3>1
    <3>2. CASE Outside(q) = 2
      <4>1. q[1].at = "shutdown" /\ 1 < n /\ 1 \in 1..n
        BY <1>1, <1>2, <1>5, <3>2, HeldFacts
      <4>2. q[1 + 1].at = "delete"
        BY <1>2, <4>1 DEF Shape
      <4>3. i # 1 /\ i # 2
        BY <1>3, <4>1, <4>2
      <4> HIDE DEF n
      <4> QED BY <1>1, <1>2, <1>5, <3>2, <4>3
    <3> QED BY <1>2, <3>1, <3>2, HeldFacts
  <2>2. Outside(q) \in {0, 2}
    BY <1>2, HeldFacts
  <2>3. q[n].at \notin {"shutdown", "delete"}
    <3>1. n > 1
      BY <1>1, <1>2, <2>1
    <3>2. q[n].at = "delete" => n = 2 /\ q[1].at = "shutdown"
      BY <1>2 DEF Shape
    <3>3. q[n].at # "delete"
      BY <1>1, <1>3, <2>1, <3>2
    <3> QED BY <1>2, <3>1, <3>3 DEF Shape
  <2>4. Held(q) = n - Outside(q) \/ Held(q) = n - Outside(q) - 1
    BY <1>2, <2>3, HeldFacts
  <2> HIDE DEF n
  <2> QED BY <1>1, <1>2, <2>1, <2>2, <2>4
<1> QED BY <1>2, <1>4, <1>5

Control ==
  /\ StacksRight
  /\ Isolation
  /\ LockCounts
  /\ multithreaded \in BOOLEAN

LEMMA Mutex ==
  ASSUME Control
  PROVE  CreatorsSerialized
<1> SUFFICES ASSUME NEW t \in Threads, NEW u \in Threads,
                    Within(t, Critical), Within(u, Critical), t # u
             PROVE  FALSE
  BY DEF CreatorsSerialized
<1>1. Held(stack[t]) > 0 /\ Held(stack[u]) > 0 /\ ~ Idle(t) /\ ~ Idle(u)
  BY CriticalHeld DEF Control
<1>2. multithreaded
  BY <1>1 DEF Control, Isolation, Alone
<1>3. ASSUME NEW v \in Threads, Held(stack[v]) = 0
      PROVE  Held(stack[v]) > 0 => FALSE
  BY <1>3
<1>4. lock # Free
  BY <1>1, <1>2, <1>3 DEF Control, LockCounts
<1>5. PICK v \in Threads : \A w \in Threads \ {v} : Held(stack[w]) = 0
  BY <1>2, <1>4 DEF Control, LockCounts
<1> QED BY <1>1, <1>3, <1>5

\* The call at the top is for a static, unless it is llvm_shutdown.
LEMMA TopStatic ==
  ASSUME StacksRight, NEW t \in Threads, ~ Idle(t)
  PROVE  LET n == Len(stack[t]) IN
         /\ n \in 1..n /\ n \in Nat /\ Top(t) = stack[t][n]
         /\ Top(t).at # "shutdown" => Top(t).of \in Statics
         /\ Top(t).at = "shutdown" => n = 1
         /\ Top(t).at = "delete" => n = 2 /\ stack[t][1].at = "shutdown"
         /\ Top(t).at = "create" => Top(t).left \subseteq CreatorUses[Top(t).of]
         /\ \A i \in 1..n : i # n =>
              i + 1 \in 1..n /\ stack[t][i].at \in Waiting /\ stack[t][i].of # Top(t).of
<1> DEFINE q == stack[t]
           n == Len(q)
<1>1. n \in 1..n /\ n \in Nat /\ Top(t) = q[n] /\ Top(t) \in Calls /\ Shape(q)
  BY StackFacts DEF StacksRight, Top
<1>2. /\ Top(t).at # "shutdown" => Top(t).of \in Statics
      /\ Top(t).at = "shutdown" => n = 1
      /\ Top(t).at = "delete" => n = 2 /\ stack[t][1].at = "shutdown"
      /\ Top(t).at = "create" => Top(t).left \subseteq CreatorUses[Top(t).of]
  <2>1. Top(t).of \in Statics \cup {Null}
    BY <1>1 DEF Calls
  <2>2. /\ q[n].at = "shutdown" <=> q[n].of = Null
        /\ q[n].at = "shutdown" => n = 1
        /\ q[n].at = "delete" => n = 2 /\ q[1].at = "shutdown"
        /\ q[n].at = "create" => q[n].left \subseteq CreatorUses[q[n].of]
    BY <1>1 DEF Shape
  <2> QED BY <1>1, <2>1, <2>2
<1>3. ASSUME NEW i \in 1..n, i # n
      PROVE  i + 1 \in 1..n /\ q[i].at \in Waiting /\ q[i].of # Top(t).of
  <2>1. i < n /\ i + 1 \in 1..n
    BY <1>1, <1>3
  <2>2. q[i].of # q[n].of
    BY <1>1, <2>1, Distinct
  <2> QED BY <1>1, <2>1, <2>2 DEF Shape, Waiting
<1> QED BY <1>1, <1>2, <1>3

-----------------------------------------------------------------------------
(* The sets of statics that calls at certain points work on *)

\* The statics of the calls at the top of a stack that are at `point'.
TopsAt(point) == {s \in Statics : \E t \in Threads : At(t, point) /\ Top(t).of = s}

LEMMA TopsSame ==
  ASSUME NEW t \in Threads, Others(t), NEW point, ~ At(t, point), ~ At(t, point)'
  PROVE  TopsAt(point)' = TopsAt(point)
<1>1. \A u \in Threads \ {t} : (At(u, point)' <=> At(u, point)) /\ Top(u)' = Top(u)
  BY DEF Others, At, Top, Idle
<1> QED BY <1>1 DEF TopsAt

LEMMA TopsMore ==
  ASSUME NEW t \in Threads, Others(t), NEW point, ~ At(t, point), At(t, point)',
         NEW s \in Statics, Top(t)'.of = s
  PROVE  TopsAt(point)' = TopsAt(point) \cup {s}
<1>1. \A u \in Threads \ {t} : (At(u, point)' <=> At(u, point)) /\ Top(u)' = Top(u)
  BY DEF Others, At, Top, Idle
<1> QED BY <1>1 DEF TopsAt

LEMMA TopsNone ==
  ASSUME NEW t \in Threads, Others(t), NEW point, ~ At(t, point)',
         \A u \in Threads \ {t} : ~ At(u, point)
  PROVE  TopsAt(point)' = {} /\ (At(t, point) => TopsAt(point) \subseteq {Top(t).of})
<1>1. \A u \in Threads \ {t} : ~ At(u, point)'
  BY DEF Others, At, Top, Idle
<1> QED BY <1>1 DEF TopsAt

\* Where the top of a stack is after a step.
LEMMA TopAfter ==
  ASSUME StacksRight, StacksRight', NEW t \in Threads
  PROVE  /\ \A c : Starts(t, c) \/ Moves(t, c) \/ (\E d : Pushes(t, d, c)) =>
              ~ Idle(t)' /\ Top(t)' = c
         /\ Pops(t) => Idle(t)' \/ Top(t)'.at \in Waiting
<1>1. stack'[t] \in Seq(Calls) /\ (Idle(t)' <=> Len(stack'[t]) = 0)
  <2>1. stack'[t] \in Seq(Calls)
    BY DEF StacksRight
  <2> QED BY <2>1, EmptySeq DEF Idle
<1>2. stack[t] \in Seq(Calls) /\ Len(stack[t]) \in Nat
  BY StackFacts
<1>3. ASSUME NEW c, Starts(t, c) \/ Moves(t, c) \/ (\E d : Pushes(t, d, c))
      PROVE  ~ Idle(t)' /\ Top(t)' = c
  <2>1. Len(stack'[t]) # 0 /\ stack'[t][Len(stack'[t])] = c
    <3>1. CASE Starts(t, c)
      BY <3>1 DEF Starts
    <3>2. CASE Moves(t, c)
      BY <3>2 DEF Moves
    <3>3. CASE \E d : Pushes(t, d, c)
      BY <1>2, <3>3 DEF Pushes
    <3> QED BY <1>3, <3>1, <3>2, <3>3
  <2> QED BY <1>1, <2>1 DEF Top
<1>4. ASSUME Pops(t), ~ Idle(t)'
      PROVE  Top(t)'.at \in Waiting
  <2> DEFINE n == Len(stack[t])
  <2>1. n \in Nat /\ n > 0 /\ Len(stack'[t]) = n - 1 /\ \A i \in 1..n : i # n => stack'[t][i] = stack[t][i]
    BY <1>2, <1>4 DEF Pops
  <2>2. Len(stack'[t]) # 0
    BY <1>1, <1>4
  <2>3. ~ Idle(t)
    BY <2>1, StackFacts
  <2> HIDE DEF n
  <2>4. n - 1 \in 1..n /\ n - 1 # n
    BY <2>1, <2>2
  <2>5. stack'[t][n - 1] = stack[t][n - 1]
    BY <2>1, <2>4
  <2>6. stack[t][n - 1].at \in Waiting
    BY <2>3, <2>4, TopStatic DEF n
  <2>7. Top(t)' = stack'[t][n - 1]
    BY <2>1 DEF Top
  <2> QED BY <2>5, <2>6, <2>7
<1> QED BY <1>3, <1>4

\* The destructors in progress stay unless the step enters or leaves one.
LEMMA DeletedSame ==
  ASSUME StacksRight, StacksRight', NEW t \in Threads,
         \/ \E c : Starts(t, c) /\ c.at # "delete"
         \/ \E c : Moves(t, c) /\ Top(t).at # "delete" /\ c.at # "delete"
         \/ \E d, c : Pushes(t, d, c) /\ d.at = Top(t).at /\ d.of = Top(t).of /\ c.at # "delete"
         \/ Pops(t) /\ Top(t).at # "delete"
  PROVE  BeingDeleted' = BeingDeleted
<1> DEFINE D(calls, s) == \E i \in 1..Len(calls) : calls[i].at = "delete" /\ calls[i].of = s
<1>1. \A s : D(stack'[t], s) <=> D(stack[t], s)
  <2> DEFINE q == stack[t]
             r == stack'[t]
             n == Len(q)
  <2>1. n \in Nat /\ Top(t) = q[n]
    BY StackFacts DEF Top
  <2>2. CASE \E c : Starts(t, c) /\ c.at # "delete"
    <3>1. n = 0 /\ Len(r) = 1 /\ r[1].at # "delete"
      BY <2>2 DEF Starts
    <3> HIDE DEF q, r, n
    <3> QED BY <3>1 DEF q, r, n
  <2>3. CASE \E c : Moves(t, c) /\ Top(t).at # "delete" /\ c.at # "delete"
    <3>1. /\ n > 0 /\ Len(r) = n /\ q[n].at # "delete" /\ r[n].at # "delete"
          /\ \A i \in 1..n : i # n => r[i] = q[i]
      BY <2>1, <2>3 DEF Moves
    <3> HIDE DEF q, r
    <3> QED BY <3>1 DEF q, r
  <2>4. CASE \E d, c : Pushes(t, d, c) /\ d.at = Top(t).at /\ d.of = Top(t).of /\ c.at # "delete"
    <3>1. /\ n > 0 /\ Len(r) = n + 1 /\ r[n].at = q[n].at /\ r[n].of = q[n].of
          /\ r[n + 1].at # "delete" /\ \A i \in 1..n : i # n => r[i] = q[i]
      BY <2>1, <2>4 DEF Pushes
    <3>2. \A i \in 1..n : r[i].at = q[i].at /\ r[i].of = q[i].of
      BY <3>1
    <3>3. \A i \in 1..Len(r) : i \in 1..n \/ i = n + 1
      BY <2>1, <3>1
    <3>4. \A i \in 1..n : i \in 1..Len(r)
      BY <2>1, <3>1
    <3> QED BY <3>1, <3>2, <3>3, <3>4
  <2>5. CASE Pops(t) /\ Top(t).at # "delete"
    <3>1. /\ n > 0 /\ Len(r) = n - 1 /\ q[n].at # "delete"
          /\ \A i \in 1..n : i # n => r[i] = q[i]
      BY <2>1, <2>5 DEF Pops
    <3>2. \A i \in 1..Len(r) : i \in 1..n /\ i # n
      BY <2>1, <3>1
    <3>3. \A i \in 1..n : i # n => i \in 1..Len(r)
      BY <2>1, <3>1
    <3> QED BY <3>1, <3>2, <3>3
  <2> QED BY <2>2, <2>3, <2>4, <2>5
<1>2. \A u \in Threads \ {t} : stack'[u] = stack[u]
  BY DEF Starts, Moves, Pushes, Pops, Others
<1>3. BeingDeleted = {s \in Statics : \E u \in Threads : D(stack[u], s)}
  BY DEF BeingDeleted
<1>4. BeingDeleted' = {s \in Statics : \E u \in Threads : D(stack'[u], s)}
  BY DEF BeingDeleted
<1> HIDE DEF D
<1>5. \A u \in Threads, s \in Statics : D(stack'[u], s) <=> D(stack[u], s)
  BY <1>1, <1>2
<1> QED BY <1>3, <1>4, <1>5

-----------------------------------------------------------------------------
(* CallsRight, call by call, for given pointers, list and mode *)

CallRight(call, ptr, list, mt) ==
  /\ call.at \in {"create", "publish"} => call.of \notin ptr
  /\ call.at = "register" /\ ~ mt => call.of \notin ptr
  /\ call.at \in {"link", "release", "use", "delete"} => call.of \in ptr
  /\ call.at \in {"publish", "link"} => CreatorUses[call.of] \subseteq list

UsedRight(calls, i, list) ==
  calls[i].at = "create" =>
    \A u \in CreatorUses[calls[i].of] \ calls[i].left :
      u \in list \/ (i < Len(calls) /\ calls[i + 1].of = u)

Right(calls, ptr, list, mt) ==
  \A i \in 1..Len(calls) : CallRight(calls[i], ptr, list, mt) /\ UsedRight(calls, i, list)

LEMMA CallsRightDef ==
  CallsRight <=> \A t \in Threads : Right(stack[t], Ptr, OnList, multithreaded)
BY DEF CallsRight, Right, CallRight, UsedRight

LEMMA CallsRightNext ==
  CallsRight' <=> \A t \in Threads : Right(stack'[t], Ptr', OnList', multithreaded')
BY DEF CallsRight, Right, CallRight, UsedRight

LEMMA CallKept ==
  ASSUME NEW call, NEW p, NEW q, NEW l, NEW k, NEW mt, NEW nt,
         CallRight(call, p, l, mt), p \subseteq q, l \subseteq k, mt => nt,
         call.of \in q \ p => call.at \notin {"create", "publish"} /\ ~ (call.at = "register" /\ ~ nt)
  PROVE  CallRight(call, q, k, nt)
BY DEF CallRight

LEMMA UsedKept ==
  ASSUME NEW calls, NEW i, NEW l, NEW k, UsedRight(calls, i, l), l \subseteq k
  PROVE  UsedRight(calls, i, k)
BY DEF UsedRight

LEMMA RightMoved ==
  ASSUME NEW p, NEW l, NEW mt, NEW q, NEW r, NEW n \in Nat, n > 0, Len(q) = n, Len(r) = n,
         r[n].of = q[n].of,
         \A i \in 1..n : i # n => r[i] = q[i] /\ CallRight(q[i], p, l, mt) /\ UsedRight(q, i, l),
         CallRight(r[n], p, l, mt),
         r[n].at = "create" => CreatorUses[r[n].of] \ r[n].left \subseteq l
  PROVE  Right(r, p, l, mt)
<1> SUFFICES ASSUME NEW i \in 1..n
             PROVE  CallRight(r[i], p, l, mt) /\ UsedRight(r, i, l)
  BY DEF Right
<1>1. CASE i = n
  BY <1>1 DEF UsedRight
<1>2. CASE i # n
  <2>1. i < n /\ i + 1 \in 1..n
    BY <1>2
  <2>2. r[i + 1].of = q[i + 1].of
    BY <2>1
  <2> QED BY <1>2, <2>1, <2>2 DEF UsedRight
<1> QED BY <1>1, <1>2

LEMMA RightPushed ==
  ASSUME NEW p, NEW l, NEW mt, NEW q, NEW r, NEW n \in Nat, n > 0, Len(q) = n, Len(r) = n + 1,
         r[n].of = q[n].of,
         \A i \in 1..n : i # n => r[i] = q[i] /\ CallRight(q[i], p, l, mt) /\ UsedRight(q, i, l),
         CallRight(r[n], p, l, mt), CallRight(r[n + 1], p, l, mt), r[n + 1].at # "create",
         r[n].at = "create" =>
           \A u \in CreatorUses[r[n].of] \ r[n].left : u \in l \/ r[n + 1].of = u
  PROVE  Right(r, p, l, mt)
<1> SUFFICES ASSUME NEW i \in 1..(n + 1)
             PROVE  CallRight(r[i], p, l, mt) /\ UsedRight(r, i, l)
  BY DEF Right
<1>1. CASE i = n + 1
  BY <1>1 DEF UsedRight
<1>2. CASE i = n
  BY <1>2 DEF UsedRight
<1>3. CASE i \in 1..n /\ i # n
  <2>1. i < n /\ i + 1 \in 1..n /\ i < n + 1
    BY <1>3
  <2>2. r[i + 1].of = q[i + 1].of
    BY <2>1
  <2> QED BY <1>3, <2>1, <2>2 DEF UsedRight
<1> QED BY <1>1, <1>2, <1>3

LEMMA RightPopped ==
  ASSUME NEW p, NEW l, NEW mt, NEW q, NEW r, NEW n \in Nat, n > 0, Len(q) = n, Len(r) = n - 1,
         \A i \in 1..n : i # n => r[i] = q[i] /\ CallRight(q[i], p, l, mt) /\ UsedRight(q, i, l),
         n > 1 /\ q[n - 1].at = "create" => q[n].of \in l
  PROVE  Right(r, p, l, mt)
<1> SUFFICES ASSUME NEW i \in 1..(n - 1)
             PROVE  CallRight(r[i], p, l, mt) /\ UsedRight(r, i, l)
  BY DEF Right
<1>0. i \in 1..n /\ i # n
  OBVIOUS
<1>1. CASE i = n - 1
  BY <1>0, <1>1 DEF UsedRight
<1>2. CASE i # n - 1
  <2>1. i < n - 1 /\ i < n /\ i + 1 \in 1..n /\ i + 1 # n
    BY <1>2
  <2>2. r[i + 1] = q[i + 1] /\ r[i] = q[i]
    BY <1>0, <2>1
  <2> QED BY <1>0, <2>1, <2>2 DEF UsedRight
<1> QED BY <1>1, <1>2

\* All calls but the one at the top of the stack of t are right.
RestRight(t, p, l, mt) ==
  /\ \A u \in Threads \ {t} : Right(stack[u], p, l, mt)
  /\ \A i \in 1..Len(stack[t]) : i # Len(stack[t]) =>
       CallRight(stack[t][i], p, l, mt) /\ UsedRight(stack[t], i, l)

\* The calls that a step of t leaves alone stay right if the step only adds
\* pointers, and of no static that such a call is creating.
LEMMA RestKept ==
  ASSUME StacksRight, CallsRight, NEW t \in Threads, NEW p, NEW l, NEW mt,
         Ptr \subseteq p, OnList \subseteq l, multithreaded => mt,
         \A u \in Threads : \A i \in 1..Len(stack[u]) :
           /\ u # t \/ i # Len(stack[t])
           /\ stack[u][i].of \in p \ Ptr
           => /\ stack[u][i].at \notin {"create", "publish"}
              /\ ~ (stack[u][i].at = "register" /\ ~ mt)
  PROVE  RestRight(t, p, l, mt)
<1>1. ASSUME NEW u \in Threads, NEW i \in 1..Len(stack[u]), u # t \/ i # Len(stack[t])
      PROVE  CallRight(stack[u][i], p, l, mt) /\ UsedRight(stack[u], i, l)
  <2>1. CallRight(stack[u][i], Ptr, OnList, multithreaded) /\ UsedRight(stack[u], i, OnList)
    BY CallsRightDef DEF Right
  <2>2. stack[u][i].of \in p \ Ptr => /\ stack[u][i].at \notin {"create", "publish"}
                                      /\ ~ (stack[u][i].at = "register" /\ ~ mt)
    BY <1>1
  <2>3. CallRight(stack[u][i], p, l, mt)
    BY <2>1, <2>2, CallKept
  <2> QED BY <2>1, <2>3, UsedKept
<1> QED BY <1>1 DEF Right, RestRight

-----------------------------------------------------------------------------
(* Steps that leave pointers and list alone *)

LEMMA InvFacts ==
  ASSUME IInv
  PROVE  /\ Control /\ StacksRight
         /\ OnList \subseteq Ptr /\ OnList \subseteq Statics /\ Null \notin Statics
         /\ StaticList \in Statics \cup {Null}
         /\ BeingLinked = TopsAt("link") /\ BeingPublished = TopsAt("publish")
BY ManagedStaticAssumption
   DEF IInv, Control, StacksRight, OnList, PointersRight, ListRight, BeingLinked, BeingPublished, TopsAt

LEMMA QuietData ==
  ASSUME IInv, UNCHANGED heap, BeingLinked' = BeingLinked, BeingPublished' = BeingPublished,
         BeingDeleted' = BeingDeleted
  PROVE  PointersRight' /\ ListRight' /\ OnList' = OnList /\ Ptr' = Ptr
<1>1. OnList' = OnList /\ Ptr' = Ptr
  BY DEF OnList, heap
<1>2. PointersRight'
  BY DEF IInv, PointersRight, heap
<1>3. \A s : Listed(s)' = Listed(s)
  BY DEF Listed, heap
<1> QED BY <1>1, <1>2, <1>3 DEF IInv, ListRight, heap

\* What a constructor dereferenced is on the list when it gets it.
LEMMA UsedListed ==
  ASSUME IInv, NEW t \in Threads, At(t, "use"), NEW n, n = Len(stack[t]), n > 1,
         stack[t][n - 1].at = "create"
  PROVE  stack[t][n].of \in OnList
<1> DEFINE s == stack[t][n].of
<1>1. ~ Idle(t) /\ Top(t).at = "use" /\ n \in 1..n /\ n \in Nat /\ Top(t) = stack[t][n]
  BY InvFacts, TopStatic DEF At
<1>2. s \in Ptr /\ s \in Statics
  <2>1. CallRight(stack[t][n], Ptr, OnList, multithreaded)
    BY <1>1, CallsRightDef DEF IInv, Right
  <2>2. s \in Statics
    BY <1>1, InvFacts, TopStatic
  <2> QED BY <1>1, <2>1, <2>2 DEF CallRight
<1>3. s \notin BeingLinked
  <2> SUFFICES ASSUME NEW u \in Threads, At(u, "link"), Top(u).of = s
               PROVE  FALSE
    BY DEF BeingLinked
  <2>1. Within(u, Critical)
    <3>1. ~ Idle(u) /\ Top(u).at = "link"
      BY DEF At
    <3>2. Len(stack[u]) \in 1..Len(stack[u]) /\ Top(u) = stack[u][Len(stack[u])]
      BY <3>1, InvFacts, TopStatic
    <3> QED BY <3>1, <3>2 DEF Within, Critical
  <2>2. Within(t, Critical)
    <3>1. n - 1 \in 1..n
      BY <1>1
    <3> QED BY <3>1 DEF Within, Critical
  <2>3. u = t
    BY <2>1, <2>2, InvFacts, Mutex DEF CreatorsSerialized
  <2> QED BY <1>1, <2>3 DEF At
<1>4. s \notin BeingDeleted
  <2> SUFFICES ASSUME NEW u \in Threads, NEW i \in 1..Len(stack[u]),
                      stack[u][i].at = "delete", stack[u][i].of = s
               PROVE  FALSE
    BY DEF BeingDeleted
  <2>1. stack[u][1].at = "shutdown" /\ ~ Idle(u)
    <3>1. Shape(stack[u]) /\ Len(stack[u]) # 0
      BY InvFacts, StackFacts DEF StacksRight
    <3> QED BY <3>1, InvFacts, StackFacts DEF Shape
  <2>2. u = t
    BY <1>1, <2>1, InvFacts DEF Control, Isolation, Alone
  <2>3. i # n
    BY <1>1, <2>2
  <2> QED BY <1>1, <2>2, <2>3, InvFacts, TopStatic
<1> QED BY <1>2, <1>3, <1>4 DEF IInv, PointersRight, OnList

QuietStep(t) ==
  \/ \E s \in Statics : Dereference(t, s)
  \/ Shutdown(t) \/ Read(t) \/ Register(t) \/ Check(t) \/ Nested(t) \/ Release(t) \/ Use(t)
  \/ ShutdownDone(t)

LEMMA QuietKeepsData ==
  ASSUME IInv, StacksRight', NEW t \in Threads, QuietStep(t)
  PROVE  PointersRight' /\ ListRight' /\ OnList' = OnList /\ Ptr' = Ptr
<1>1. StacksRight /\ StaticList \in Statics \cup {Null}
  BY InvFacts
<1> DEFINE Kind ==
      \/ \E c : Starts(t, c) /\ c.at \notin {"delete", "link", "publish"}
      \/ \E c : Moves(t, c) /\ c.at \notin {"delete", "link", "publish"}
      \/ \E d, c : /\ Pushes(t, d, c) /\ d.at = Top(t).at /\ d.of = Top(t).of
                   /\ c.at \notin {"delete", "link", "publish"}
      \/ Pops(t)
<1>2. \A point, s, left : Call(point, s, left).at = point /\ Call(point, s, left).of = s
  BY DEF Call
<1>3. Kind
  <2>1. ASSUME NEW point, NEW s, NEW left, Moves(t, Call(point, s, left)),
               point \notin {"delete", "link", "publish"}
        PROVE  Kind
    BY <1>2, <2>1
  <2>2. CASE Read(t) \/ Register(t) \/ Check(t) \/ Release(t)
    BY <1>1, <2>1, <2>2, Effects
  <2>3. CASE Use(t) \/ ShutdownDone(t)
    BY <1>1, <2>3, Effects
  <2>4. ASSUME NEW point, NEW s, NEW left, Starts(t, Call(point, s, left)),
               point \notin {"delete", "link", "publish"}
        PROVE  Kind
    BY <1>2, <2>4
  <2>5. CASE Shutdown(t) \/ \E s \in Statics : Dereference(t, s)
    BY <1>1, <2>4, <2>5, Effects
  <2>6. CASE Nested(t)
    <3>1. PICK u : Pushes(t, Call(Top(t).at, Top(t).of, Top(t).left \ {u}), Call("read", u, {}))
      BY <1>1, <2>6, Effects
    <3>2. Call("read", u, {}).at \notin {"delete", "link", "publish"}
      BY <1>2
    <3> QED BY <1>2, <3>1, <3>2
  <2> QED BY <2>2, <2>3, <2>5, <2>6 DEF QuietStep
<1>4. Top(t).at = "delete" => Nested(t) \/ Idle(t)
  BY DEF QuietStep, At, Dereference, MayCall, Shutdown, Isolated, Read, Register, Check, Release,
         Use, ShutdownDone
<1>5. Others(t)
  BY <1>3 DEF Starts, Moves, Pushes, Pops
<1>6. BeingDeleted' = BeingDeleted
  <2>1. CASE Idle(t)
    <3>1. Len(stack[t]) = 0
      BY <1>1, <2>1, StackFacts
    <3>2. \E c : Starts(t, c) /\ c.at # "delete"
      BY <1>3, <3>1 DEF Moves, Pushes, Pops
    <3> QED BY <1>1, <3>2, DeletedSame
  <2>2. CASE ~ Idle(t) /\ ~ Nested(t)
    BY <1>1, <1>3, <1>4, <2>2, DeletedSame
  <2>3. CASE Nested(t)
    <3>1. PICK u : Pushes(t, Call(Top(t).at, Top(t).of, Top(t).left \ {u}), Call("read", u, {}))
      BY <1>1, <2>3, Effects
    <3>2. Call("read", u, {}).at # "delete"
      BY <1>2
    <3> QED BY <1>1, <1>2, <3>1, <3>2, DeletedSame
  <2> QED BY <2>1, <2>2, <2>3
<1>7. ASSUME NEW point \in {"link", "publish"}
      PROVE  TopsAt(point)' = TopsAt(point)
  <2>1. ~ At(t, point)
    BY DEF QuietStep, At, Dereference, MayCall, Shutdown, Isolated, Read, Register, Check, Release,
           Nested, Use, ShutdownDone
  <2>2. ~ At(t, point)'
    <3>1. Idle(t)' \/ Top(t)'.at # point
      BY <1>1, <1>3, TopAfter DEF Waiting
    <3> QED BY <3>1 DEF At
  <2> QED BY <1>5, <2>1, <2>2, TopsSame
<1>8. UNCHANGED heap
  BY DEF QuietStep, Dereference, Shutdown, Read, Register, Check, Release, Nested, Use, ShutdownDone
<1>9. BeingLinked' = BeingLinked /\ BeingPublished' = BeingPublished
  BY <1>7 DEF BeingLinked, BeingPublished, TopsAt
<1> QED BY <1>6, <1>8, <1>9, QuietData

-----------------------------------------------------------------------------
(* CallsRight after a step, by what the step does to the stack *)

LEMMA StartedCalls ==
  ASSUME StacksRight, NEW t \in Threads, NEW c, Starts(t, c), c.at # "create",
         RestRight(t, Ptr', OnList', multithreaded'),
         CallRight(c, Ptr', OnList', multithreaded')
  PROVE  CallsRight'
<1>1. Len(stack'[t]) = 1 /\ stack'[t][1] = c /\ \A u \in Threads \ {t} : stack'[u] = stack[u]
  BY DEF Starts, Others
<1>2. Right(stack'[t], Ptr', OnList', multithreaded')
  BY <1>1 DEF Right, UsedRight
<1> QED BY <1>1, <1>2, CallsRightNext DEF RestRight

LEMMA MovedCalls ==
  ASSUME StacksRight, NEW t \in Threads, NEW c, Moves(t, c), c.of = Top(t).of,
         RestRight(t, Ptr', OnList', multithreaded'),
         CallRight(c, Ptr', OnList', multithreaded'),
         c.at = "create" => CreatorUses[c.of] \ c.left \subseteq OnList'
  PROVE  CallsRight'
<1> DEFINE q == stack[t]
           r == stack'[t]
           n == Len(q)
<1>1. n \in Nat /\ Top(t) = q[n]
  BY StackFacts DEF Top
<1>2. /\ n > 0 /\ Len(r) = n /\ r[n] = c /\ \A i \in 1..n : i # n => r[i] = q[i]
      /\ \A u \in Threads \ {t} : stack'[u] = stack[u]
  BY DEF Moves, Others
<1>3. Right(r, Ptr', OnList', multithreaded')
  <2>1. \A i \in 1..n : i # n => CallRight(q[i], Ptr', OnList', multithreaded') /\ UsedRight(q, i, OnList')
    BY DEF RestRight
  <2> HIDE DEF q, r, n
  <2> QED BY <1>1, <1>2, <2>1, RightMoved DEF n
<1> QED BY <1>2, <1>3, CallsRightNext DEF RestRight

LEMMA PushedCalls ==
  ASSUME StacksRight, NEW t \in Threads, NEW c, NEW d, Pushes(t, d, c), d.of = Top(t).of,
         c.at # "create",
         RestRight(t, Ptr', OnList', multithreaded'),
         CallRight(d, Ptr', OnList', multithreaded'),
         CallRight(c, Ptr', OnList', multithreaded'),
         d.at = "create" => \A u \in CreatorUses[d.of] \ d.left : u \in OnList' \/ c.of = u
  PROVE  CallsRight'
<1> DEFINE q == stack[t]
           r == stack'[t]
           n == Len(q)
<1>1. n \in Nat /\ Top(t) = q[n]
  BY StackFacts DEF Top
<1>2. /\ n > 0 /\ Len(r) = n + 1 /\ r[n] = d /\ r[n + 1] = c /\ \A i \in 1..n : i # n => r[i] = q[i]
      /\ \A u \in Threads \ {t} : stack'[u] = stack[u]
  BY DEF Pushes, Others
<1>3. Right(r, Ptr', OnList', multithreaded')
  <2>1. \A i \in 1..n : i # n => CallRight(q[i], Ptr', OnList', multithreaded') /\ UsedRight(q, i, OnList')
    BY DEF RestRight
  <2> HIDE DEF q, r, n
  <2> QED BY <1>1, <1>2, <2>1, RightPushed DEF n
<1> QED BY <1>2, <1>3, CallsRightNext DEF RestRight

LEMMA PoppedCalls ==
  ASSUME StacksRight, NEW t \in Threads, Pops(t),
         RestRight(t, Ptr', OnList', multithreaded'),
         Len(stack[t]) > 1 /\ stack[t][Len(stack[t]) - 1].at = "create" => Top(t).of \in OnList'
  PROVE  CallsRight'
<1> DEFINE q == stack[t]
           r == stack'[t]
           n == Len(q)
<1>1. n \in Nat /\ Top(t) = q[n]
  BY StackFacts DEF Top
<1>2. /\ n > 0 /\ Len(r) = n - 1 /\ \A i \in 1..n : i # n => r[i] = q[i]
      /\ \A u \in Threads \ {t} : stack'[u] = stack[u]
  BY DEF Pops, Others
<1>3. Right(r, Ptr', OnList', multithreaded')
  <2>1. \A i \in 1..n : i # n => CallRight(q[i], Ptr', OnList', multithreaded') /\ UsedRight(q, i, OnList')
    BY DEF RestRight
  <2>2. n > 1 /\ q[n - 1].at = "create" => q[n].of \in OnList'
    BY <1>1
  <2> HIDE DEF q, r, n
  <2> QED BY <1>1, <1>2, <2>1, <2>2, RightPopped DEF n
<1> QED BY <1>2, <1>3, CallsRightNext DEF RestRight

\* What the call at the top knows.
LEMMA TopRight ==
  ASSUME IInv, NEW t \in Threads, ~ Idle(t)
  PROVE  /\ CallRight(Top(t), Ptr, OnList, multithreaded)
         /\ Top(t).at = "create" => CreatorUses[Top(t).of] \ Top(t).left \subseteq OnList
<1> DEFINE n == Len(stack[t])
<1>1. n \in 1..n /\ n \in Nat /\ Top(t) = stack[t][n]
  BY InvFacts, TopStatic
<1>2. CallRight(stack[t][n], Ptr, OnList, multithreaded) /\ UsedRight(stack[t], n, OnList)
  BY <1>1, CallsRightDef DEF IInv, Right
<1> QED BY <1>1, <1>2 DEF UsedRight

\* In llvm_shutdown a thread is alone.
LEMMA ShutdownAlone ==
  ASSUME IInv, NEW t \in Threads, At(t, "shutdown") \/ At(t, "delete")
  PROVE  /\ \A u \in Threads \ {t} : Idle(u) /\ Len(stack[u]) = 0
         /\ Len(stack[t]) = IF At(t, "shutdown") THEN 1 ELSE 2
         /\ stack[t][1].at = "shutdown" /\ ~ Idle(t)
<1>1. StacksRight /\ Isolation /\ ~ Idle(t)
  BY InvFacts DEF Control, At
<1>2. Len(stack[t]) = IF At(t, "shutdown") THEN 1 ELSE 2
  BY <1>1, TopStatic DEF At
<1>3. stack[t][1].at = "shutdown"
  BY <1>1, <1>2, TopStatic DEF At
<1>4. \A u \in Threads \ {t} : Idle(u)
  BY <1>1, <1>3 DEF Isolation, Alone
<1>5. \A u \in Threads \ {t} : Len(stack[u]) = 0
  BY <1>1, <1>4, StackFacts
<1> QED BY <1>1, <1>2, <1>3, <1>4, <1>5

LEMMA QuietCalls ==
  ASSUME IInv, StacksRight', NEW t \in Threads, QuietStep(t)
  PROVE  CallsRight'
<1>1. StacksRight /\ StaticList \in Statics \cup {Null} /\ CallsRight
  BY InvFacts DEF IInv
<1>2. OnList' = OnList /\ Ptr' = Ptr
  BY QuietKeepsData
<1>3. RestRight(t, Ptr, OnList, multithreaded)
  <2>1. Ptr \ Ptr = {}
    OBVIOUS
  <2> QED BY <1>1, <2>1, RestKept
<1>4. \A point, s, left : /\ Call(point, s, left).at = point
                          /\ Call(point, s, left).of = s
                          /\ Call(point, s, left).left = left
  BY DEF Call
<1>5. ~ Idle(t) => /\ CallRight(Top(t), Ptr, OnList, multithreaded)
                   /\ Top(t).at = "create" => CreatorUses[Top(t).of] \ Top(t).left \subseteq OnList
  BY TopRight
<1>6. ASSUME NEW c, Starts(t, c), c.at \in {"read", "shutdown"}, multithreaded' = multithreaded
      PROVE  CallsRight'
  <2>1. CallRight(c, Ptr, OnList, multithreaded)
    BY <1>6 DEF CallRight
  <2> QED BY <1>1, <1>2, <1>3, <1>6, <2>1, StartedCalls
<1>7. CASE (\E s \in Statics : Dereference(t, s)) \/ Shutdown(t)
  <2>1. multithreaded' = multithreaded
    BY <1>7 DEF Dereference, Shutdown
  <2>2. ASSUME NEW s \in Statics, Dereference(t, s)
        PROVE  CallsRight'
    BY <1>1, <1>4, <1>6, <2>1, <2>2, Effects
  <2>3. CASE Shutdown(t)
    BY <1>1, <1>4, <1>6, <2>1, <2>3, Effects
  <2> QED BY <1>7, <2>2, <2>3
<1>8. ASSUME NEW point, NEW left, Moves(t, Call(point, Top(t).of, left)),
             multithreaded' = multithreaded,
             point = "create" => left = CreatorUses[Top(t).of] /\ Top(t).of \notin Ptr,
             point = "register" => Top(t).of \notin Ptr,
             point \in {"release", "use"} => Top(t).of \in Ptr,
             point \in {"create", "register", "release", "use", "check"}
      PROVE  CallsRight'
  <2> DEFINE c == Call(point, Top(t).of, left)
  <2>1. c.at = point /\ c.of = Top(t).of /\ c.left = left /\ Moves(t, c)
    BY <1>4, <1>8
  <2> HIDE DEF c
  <2>2. CallRight(c, Ptr, OnList, multithreaded)
    BY <1>8, <2>1 DEF CallRight
  <2>3. c.at = "create" => CreatorUses[c.of] \ c.left \subseteq OnList
    BY <1>8, <2>1
  <2> QED BY <1>1, <1>2, <1>3, <1>8, <2>1, <2>2, <2>3, MovedCalls
<1>9. CASE Read(t)
  BY <1>1, <1>8, <1>9, Effects DEF Read
<1>10. CASE Register(t)
  <2>1. ~ Idle(t) /\ Top(t).at = "register" /\ multithreaded' = multithreaded
    BY <1>10 DEF Register, At
  <2>2. ~ multithreaded => Top(t).of \notin Ptr
    BY <1>5, <2>1 DEF CallRight
  <2> QED BY <1>1, <1>8, <1>10, <2>1, <2>2, Effects
<1>11. CASE Check(t)
  BY <1>1, <1>8, <1>11, Effects DEF Check
<1>12. CASE Release(t)
  <2>1. ~ Idle(t) /\ Top(t).at = "release" /\ multithreaded' = multithreaded
    BY <1>12 DEF Release, At
  <2>2. Top(t).of \in Ptr
    BY <1>5, <2>1 DEF CallRight
  <2> QED BY <1>1, <1>8, <1>12, <2>1, <2>2, Effects
<1>13. CASE Nested(t)
  <2>1. PICK u : Pushes(t, Call(Top(t).at, Top(t).of, Top(t).left \ {u}), Call("read", u, {}))
    BY <1>1, <1>13, Effects
  <2> DEFINE d == Call(Top(t).at, Top(t).of, Top(t).left \ {u})
             c == Call("read", u, {})
  <2>2. /\ Pushes(t, d, c) /\ d.at = Top(t).at /\ d.of = Top(t).of /\ d.left = Top(t).left \ {u}
        /\ c.at = "read" /\ c.of = u
    BY <1>4, <2>1
  <2>3. multithreaded' = multithreaded /\ ~ Idle(t)
    BY <1>13 DEF Nested, At
  <2> HIDE DEF c, d
  <2>4. CallRight(c, Ptr, OnList, multithreaded) /\ CallRight(d, Ptr, OnList, multithreaded)
    BY <1>5, <2>2, <2>3 DEF CallRight
  <2>5. d.at = "create" => \A v \in CreatorUses[d.of] \ d.left : v \in OnList \/ c.of = v
    BY <1>5, <2>2, <2>3
  <2> QED BY <1>1, <1>2, <1>3, <2>2, <2>3, <2>4, <2>5, PushedCalls
<1>14. CASE Use(t)
  <2>1. multithreaded' = multithreaded /\ At(t, "use") /\ Pops(t)
    BY <1>1, <1>14, Effects DEF Use
  <2>2. Top(t) = stack[t][Len(stack[t])]
    BY DEF Top
  <2>3. Len(stack[t]) > 1 /\ stack[t][Len(stack[t]) - 1].at = "create" => Top(t).of \in OnList
    BY <2>1, <2>2, UsedListed
  <2> QED BY <1>1, <1>2, <1>3, <2>1, <2>3, PoppedCalls
<1>15. CASE ShutdownDone(t)
  <2>1. At(t, "shutdown") /\ Pops(t)
    BY <1>1, <1>15, Effects DEF ShutdownDone
  <2>2. \A u \in Threads : Len(stack'[u]) = 0
    <3>1. Len(stack[t]) = 1 /\ \A u \in Threads \ {t} : Len(stack[u]) = 0
      BY <2>1, ShutdownAlone
    <3>2. Len(stack'[t]) = 0 /\ \A u \in Threads \ {t} : stack'[u] = stack[u]
      BY <2>1, <3>1 DEF Pops, Others
    <3> QED BY <3>1, <3>2
  <2> QED BY <2>2, CallsRightNext DEF Right
<1> QED BY <1>7, <1>9, <1>10, <1>11, <1>12, <1>13, <1>14, <1>15 DEF QuietStep

\* The asserts of RegisterManagedStatic and destroy, and the final read of Ptr.
LEMMA OkStep ==
  ASSUME IInv, [Next]_vars
  PROVE  ok' = TRUE
<1>1. ok = TRUE /\ StacksRight
  BY InvFacts DEF IInv
<1>2. CASE UNCHANGED ok
  BY <1>1, <1>2
<1>3. ASSUME NEW t \in Threads, Register(t), ~ multithreaded
      PROVE  ok' = TRUE
  <2>1. ~ Idle(t) /\ Top(t).at = "register" /\ ok' = (ok /\ Untouched(Top(t).of))
    BY <1>3 DEF Register, At
  <2>2. Top(t).of \notin Ptr
    BY <1>3, <2>1, TopRight DEF CallRight
  <2>3. Top(t).of \in Statics
    BY <1>1, <2>1, TopStatic
  <2>4. Top(t).of \notin DeleterFn /\ Top(t).of \notin OnList
    BY <2>2, InvFacts DEF IInv, PointersRight
  <2>5. NextStatic[Top(t).of] = Null
    BY <2>3, <2>4 DEF IInv, ListRight
  <2> QED BY <1>1, <2>1, <2>2, <2>4, <2>5 DEF Untouched
<1>4. ASSUME NEW t \in Threads, Use(t)
      PROVE  ok' = TRUE
  <2>1. ~ Idle(t) /\ Top(t).at = "use" /\ ok' = (ok /\ Top(t).of \in Ptr /\ objects[Top(t).of] > 0)
    BY <1>4 DEF Use, At
  <2>2. Top(t).of \in Ptr
    BY <2>1, TopRight DEF CallRight
  <2>3. Top(t).of \in Statics
    BY <1>1, <2>1, TopStatic
  <2>4. objects[Top(t).of] = 1
    BY <2>2, <2>3 DEF IInv, PointersRight
  <2>5. objects[Top(t).of] > 0
    BY <2>4
  <2> QED BY <1>1, <2>1, <2>2, <2>5
<1>5. ASSUME NEW t \in Threads, Destroy(t)
      PROVE  ok' = TRUE
  <2>1. StaticList # Null /\ ok' = (ok /\ StaticList \in DeleterFn)
    BY <1>5 DEF Destroy
  <2>2. StaticList \in DeleterFn
    BY <2>1 DEF IInv, ListRight, OnList
  <2> QED BY <1>1, <2>1, <2>2
<1> QED BY <1>1, <1>2, <1>3, <1>4, <1>5
        DEF Next, vars, StartMultithreaded, Dereference, Shutdown, Step, Read, Register, Check, Nested,
            Create, Publish, Link, Release, Destroyed, ShutdownDone

-----------------------------------------------------------------------------
(* Steps that change pointers or list *)

LEMMA StandStill ==
  ASSUME IInv, UNCHANGED vars \/ StartMultithreaded
  PROVE  CallsRight' /\ PointersRight' /\ ListRight'
<1>1. UNCHANGED <<heap, stack>> /\ (multithreaded => multithreaded')
  BY DEF vars, heap, StartMultithreaded
<1>2. /\ BeingLinked' = BeingLinked /\ BeingPublished' = BeingPublished
      /\ BeingDeleted' = BeingDeleted
  BY <1>1 DEF BeingLinked, BeingPublished, BeingDeleted, At, Idle, Top
<1>3. PointersRight' /\ ListRight' /\ OnList' = OnList /\ Ptr' = Ptr
  BY <1>1, <1>2, QuietData
<1>4. \A t \in Threads : Right(stack[t], Ptr, OnList, multithreaded)
  BY CallsRightDef DEF IInv
<1>5. \A t \in Threads : Right(stack'[t], Ptr', OnList', multithreaded')
  BY <1>1, <1>3, <1>4 DEF Right, CallRight
<1> QED BY <1>3, <1>5, CallsRightNext

\* A thread that creates a static is the only one that does.
LEMMA CriticalAlone ==
  ASSUME IInv, NEW t \in Threads, Within(t, Critical), NEW u \in Threads \ {t}
  PROVE  ~ Within(u, Critical) /\ \A point \in Critical : ~ At(u, point)
<1>1. ~ Within(u, Critical)
  BY InvFacts, Mutex DEF CreatorsSerialized
<1>2. ASSUME NEW point \in Critical, At(u, point)
      PROVE  Within(u, Critical)
  <2>1. Len(stack[u]) \in 1..Len(stack[u]) /\ Top(u) = stack[u][Len(stack[u])]
    BY <1>2, InvFacts, StackFacts DEF At, Top
  <2> QED BY <1>2, <2>1 DEF Within, At
<1> QED BY <1>1, <1>2

LEMMA TopWithin ==
  ASSUME IInv, NEW t \in Threads, NEW point \in Critical, At(t, point)
  PROVE  Within(t, Critical) /\ ~ Idle(t) /\ Top(t).at = point /\ Top(t).of \in Statics
<1>1. ~ Idle(t) /\ Top(t).at = point /\ point # "shutdown"
  BY DEF At, Critical
<1>2. Len(stack[t]) \in 1..Len(stack[t]) /\ Top(t) = stack[t][Len(stack[t])] /\ Top(t).of \in Statics
  BY <1>1, InvFacts, TopStatic
<1> QED BY <1>1, <1>2 DEF Within

\* A critical step that goes on to another point.
LEMMA CriticalMove ==
  ASSUME IInv, StacksRight', NEW t \in Threads, NEW from \in Critical, At(t, from),
         NEW to \in Critical, NEW c, Moves(t, c), c.at = to, c.of = Top(t).of
  PROVE  /\ BeingDeleted' = BeingDeleted
         /\ from # "link" => BeingLinked = {}
         /\ from = "link" => BeingLinked = {Top(t).of}
         /\ to # "link" => BeingLinked' = {}
         /\ to = "link" => BeingLinked' = {Top(t).of}
         /\ from # "publish" => BeingPublished = {}
         /\ from = "publish" => BeingPublished = {Top(t).of}
         /\ to # "publish" => BeingPublished' = {}
         /\ to = "publish" => BeingPublished' = {Top(t).of}
<1>1. /\ Within(t, Critical) /\ ~ Idle(t) /\ Top(t).at = from /\ Top(t).of \in Statics
  BY TopWithin
<1>2. \A u \in Threads \ {t} : ~ At(u, "link") /\ ~ At(u, "publish")
  BY <1>1, CriticalAlone DEF Critical
<1>3. StacksRight /\ Others(t)
  BY InvFacts DEF Moves
<1>4. ~ Idle(t)' /\ Top(t)' = c
  BY <1>3, TopAfter
<1>5. \A u \in Threads \ {t} : ~ At(u, "link")' /\ ~ At(u, "publish")'
  BY <1>2, <1>3 DEF Others, At, Idle, Top
<1>6. BeingDeleted' = BeingDeleted
  <2>1. from # "delete" /\ to # "delete"
    BY DEF Critical
  <2> QED BY <1>1, <1>3, <2>1, DeletedSame
<1>7. At(t, "link")' <=> to = "link"
  BY <1>4 DEF At
<1>8. At(t, "publish")' <=> to = "publish"
  BY <1>4 DEF At
<1>9. (At(t, "link") <=> from = "link") /\ (At(t, "publish") <=> from = "publish")
  BY <1>1 DEF At
<1>10. (from # "link" => BeingLinked = {}) /\ (from = "link" => BeingLinked = {Top(t).of})
  BY <1>1, <1>2, <1>9 DEF BeingLinked
<1>11. (from # "publish" => BeingPublished = {}) /\ (from = "publish" => BeingPublished = {Top(t).of})
  BY <1>1, <1>2, <1>9 DEF BeingPublished
<1>12. (to # "link" => BeingLinked' = {}) /\ (to = "link" => BeingLinked' = {Top(t).of})
  BY <1>1, <1>4, <1>5, <1>7 DEF BeingLinked
<1>13. (to # "publish" => BeingPublished' = {}) /\ (to = "publish" => BeingPublished' = {Top(t).of})
  BY <1>1, <1>4, <1>5, <1>8 DEF BeingPublished
<1> QED BY <1>6, <1>10, <1>11, <1>12, <1>13

LEMMA CreateStep ==
  ASSUME IInv, StacksRight', NEW t \in Threads, Create(t)
  PROVE  CallsRight' /\ PointersRight' /\ ListRight'
<1> DEFINE s == Top(t).of
           c == Call("publish", s, {})
<1>1. /\ At(t, "create") /\ Top(t).left = {} /\ objects' = [objects EXCEPT ![s] = @ + 1]
      /\ UNCHANGED <<Ptr, DeleterFn, NextStatic, StaticList, multithreaded>>
  BY DEF Create
<1>2. Within(t, Critical) /\ ~ Idle(t) /\ Top(t).at = "create" /\ s \in Statics
  BY <1>1, TopWithin DEF Critical
<1>3. /\ Moves(t, c) /\ c.at = "publish" /\ c.of = s
      /\ StacksRight /\ CallsRight
  BY InvFacts, Effects DEF Call, IInv
<1> HIDE DEF c
<1>4. /\ BeingDeleted' = BeingDeleted /\ BeingLinked = {} /\ BeingLinked' = {}
      /\ BeingPublished = {} /\ BeingPublished' = {s}
  BY <1>1, <1>3, CriticalMove DEF Critical
<1>5. s \notin Ptr /\ CreatorUses[s] \subseteq OnList
  BY <1>1, <1>2, TopRight DEF CallRight
<1>6. OnList' = OnList
  BY <1>1, <1>4 DEF OnList
<1>7. PointersRight'
  <2>1. objects = [x \in Statics |-> IF x \in Ptr THEN 1 ELSE 0] /\ DeleterFn = Ptr /\ Ptr \subseteq Statics
    BY <1>4 DEF IInv, PointersRight
  <2>2. objects[s] = 0
    BY <1>2, <1>5, <2>1
  <2>3. objects' = [x \in Statics |-> IF x \in Ptr \cup {s} THEN 1 ELSE 0]
    <3>1. /\ objects' = [objects EXCEPT ![s] = @ + 1] /\ 0 + 1 = 1
          /\ objects = [x \in Statics |-> objects[x]]
      BY <1>1, <2>1
    <3>2. objects' = [x \in Statics |-> IF x = s THEN objects[s] + 1 ELSE objects[x]]
      BY <3>1, <1>2
    <3>3. \A x \in Statics : objects[x] = IF x \in Ptr THEN 1 ELSE 0
      BY <2>1
    <3> QED BY <2>2, <3>1, <3>2, <3>3
  <2> QED BY <1>1, <1>4, <2>1, <2>3 DEF PointersRight
<1>8. ListRight'
  <2>1. \A x : Listed(x)' = Listed(x)
    BY <1>1 DEF Listed
  <2> QED BY <1>1, <1>6, <2>1 DEF IInv, ListRight
<1>9. CallsRight'
  <2>0. Ptr \ Ptr = {}
    OBVIOUS
  <2>1. RestRight(t, Ptr, OnList, multithreaded)
    BY <1>3, <2>0, RestKept
  <2>2. CallRight(c, Ptr, OnList, multithreaded)
    BY <1>3, <1>5 DEF CallRight
  <2> QED BY <1>1, <1>3, <1>6, <2>1, <2>2, MovedCalls
<1> QED BY <1>7, <1>8, <1>9

LEMMA PublishStep ==
  ASSUME IInv, StacksRight', NEW t \in Threads, Publish(t)
  PROVE  CallsRight' /\ PointersRight' /\ ListRight'
<1> DEFINE s == Top(t).of
           c == Call("link", s, Top(t).left)
<1>1. /\ At(t, "publish") /\ Ptr' = Ptr \cup {s}
      /\ UNCHANGED <<objects, DeleterFn, NextStatic, StaticList, multithreaded>>
  BY DEF Publish
<1>2. Within(t, Critical) /\ ~ Idle(t) /\ Top(t).at = "publish" /\ s \in Statics
  BY <1>1, TopWithin DEF Critical
<1>3. /\ Moves(t, c) /\ c.at = "link" /\ c.of = s
      /\ StacksRight /\ CallsRight
  BY InvFacts, Effects DEF Call, IInv
<1> HIDE DEF c
<1>4. /\ BeingDeleted' = BeingDeleted /\ BeingLinked = {} /\ BeingLinked' = {s}
      /\ BeingPublished = {s} /\ BeingPublished' = {}
  BY <1>1, <1>3, CriticalMove DEF Critical
<1>5. s \notin Ptr /\ CreatorUses[s] \subseteq OnList
  BY <1>2, TopRight DEF CallRight
<1>6. OnList' = OnList
  BY <1>1, <1>4 DEF OnList
<1>7. PointersRight'
  BY <1>1, <1>2, <1>4, <1>5 DEF IInv, PointersRight
<1>8. ListRight'
  <2>1. \A x : Listed(x)' = Listed(x)
    BY <1>1 DEF Listed
  <2> QED BY <1>1, <1>6, <2>1 DEF IInv, ListRight
<1>9. CallsRight'
  <2>1. ASSUME NEW u \in Threads, NEW i \in 1..Len(stack[u]), u # t \/ i # Len(stack[t]),
               stack[u][i].of \in Ptr' \ Ptr
        PROVE  /\ stack[u][i].at \notin {"create", "publish"}
               /\ ~ (stack[u][i].at = "register" /\ ~ multithreaded)
    <3>1. stack[u][i].of = s
      BY <1>1, <2>1
    <3>2. u # t
      BY <1>2, <1>3, <2>1, <3>1, TopStatic
    <3>3. ~ Within(u, Critical)
      BY <1>2, <3>2, CriticalAlone
    <3>4. ~ Idle(u)
      BY <1>3, StackFacts
    <3>5. multithreaded
      BY <1>2, <3>2, <3>4 DEF IInv, Isolation, Alone
    <3> QED BY <3>3, <3>5 DEF Within, Critical
  <2>2. RestRight(t, Ptr', OnList, multithreaded)
    BY <1>1, <1>3, <2>1, RestKept
  <2>3. CallRight(c, Ptr', OnList, multithreaded)
    BY <1>1, <1>3, <1>5 DEF CallRight
  <2> QED BY <1>1, <1>3, <1>6, <2>2, <2>3, MovedCalls
<1> QED BY <1>7, <1>8, <1>9

\* The statics that `next' leads to from `first', and ListRight for a given list.
Reached(first, next) ==
  {s \in Statics : \A S \in SUBSET (Statics \cup {Null}) :
     (first \in S /\ \A x \in S \ {Null} : next[x] \in S) => s \in S}

ListFacts(head, next, on) ==
  /\ head \in on \cup {Null}
  /\ next \in [Statics -> on \cup {Null}]
  /\ \A s \in Statics \ on : next[s] = Null
  /\ \A s, r \in on : next[s] = next[r] /\ next[s] # Null => s = r
  /\ \A s \in on : next[s] # head
  /\ on \subseteq Reached(head, next)
  /\ \A s \in on : CreatorUses[s] \subseteq Reached(next[s], next)

LEMMA ListRightDef == ListRight <=> ListFacts(StaticList, NextStatic, OnList)
BY DEF ListRight, ListFacts, Listed, Reached

LEMMA ListRightNext == ListRight' <=> ListFacts(StaticList', NextStatic', OnList')
BY DEF ListRight, ListFacts, Listed, Reached

\* The list with a new head.
LEMMA ListLinked ==
  ASSUME NEW head, NEW next, NEW on \in SUBSET Statics, ListFacts(head, next, on),
         NEW s \in Statics \ on, CreatorUses[s] \subseteq on,
         NEW longer, longer = [next EXCEPT ![s] = head]
  PROVE  ListFacts(s, longer, on \cup {s})
<1>1. /\ head \in on \cup {Null} /\ next \in [Statics -> on \cup {Null}]
      /\ next[s] = Null /\ Null \notin Statics
  BY ManagedStaticAssumption DEF ListFacts
<1>2. longer[s] = head /\ \A x \in Statics : x # s => longer[x] = next[x]
  BY <1>1
<1>3. ASSUME NEW first, NEW x \in Reached(first, next)
      PROVE  x \in Reached(first, longer)
  <2> SUFFICES ASSUME NEW S \in SUBSET (Statics \cup {Null}), first \in S,
                      \A y \in S \ {Null} : longer[y] \in S
               PROVE  x \in S
    BY <1>3 DEF Reached
  <2>1. \A y \in (S \cup {Null}) \ {Null} : next[y] \in S \cup {Null}
    BY <1>1, <1>2
  <2>2. S \cup {Null} \in SUBSET (Statics \cup {Null}) /\ first \in S \cup {Null}
    OBVIOUS
  <2>3. x \in S \cup {Null} /\ x \in Statics
    BY <2>1, <2>2 DEF Reached
  <2> QED BY <1>1, <2>3
<1>4. on \cup {s} \subseteq Reached(s, longer)
  <2>1. s \in Reached(s, longer)
    BY DEF Reached
  <2>2. ASSUME NEW x \in on
        PROVE  x \in Reached(s, longer)
    <3>1. x \in Reached(head, longer)
      BY <1>3 DEF ListFacts
    <3> SUFFICES ASSUME NEW S \in SUBSET (Statics \cup {Null}), s \in S,
                        \A y \in S \ {Null} : longer[y] \in S
                 PROVE  x \in S
      BY <3>1 DEF Reached
    <3>2. head \in S
      BY <1>1, <1>2
    <3> QED BY <3>1, <3>2 DEF Reached
  <2> QED BY <2>1, <2>2
<1>5. \A r \in on \cup {s} : CreatorUses[r] \subseteq Reached(longer[r], longer)
  <2>1. CreatorUses[s] \subseteq Reached(head, longer)
    BY <1>3 DEF ListFacts
  <2>2. ASSUME NEW r \in on
        PROVE  CreatorUses[r] \subseteq Reached(longer[r], longer)
    <3>1. longer[r] = next[r]
      BY <1>2
    <3>2. CreatorUses[r] \subseteq Reached(next[r], next)
      BY DEF ListFacts
    <3>3. Reached(next[r], next) \subseteq Reached(next[r], longer)
      BY <1>3
    <3> QED BY <3>1, <3>2, <3>3
  <2> QED BY <1>2, <2>1, <2>2
<1>6. longer \in [Statics -> on \cup {s} \cup {Null}]
  BY <1>1
<1>7. \A x \in Statics \ (on \cup {s}) : longer[x] = Null
  BY <1>2 DEF ListFacts
<1>8. \A x, y \in on \cup {s} : longer[x] = longer[y] /\ longer[x] # Null => x = y
  <2>1. \A x \in on : longer[x] = next[x] /\ next[x] # head
    BY <1>2 DEF ListFacts
  <2> QED BY <1>2, <2>1 DEF ListFacts
<1>9. \A x \in on \cup {s} : longer[x] # s
  <2>1. ASSUME NEW x \in on
        PROVE  longer[x] # s
    <3>1. longer[x] = next[x] /\ next[x] \in on \cup {Null}
      BY <1>1, <1>2
    <3> QED BY <1>1, <3>1
  <2> QED BY <1>1, <1>2, <2>1
<1> QED BY <1>4, <1>5, <1>6, <1>7, <1>8, <1>9 DEF ListFacts

\* The list without its head.
LEMMA ListUnlinked ==
  ASSUME NEW next, NEW on \in SUBSET Statics, NEW s \in on, ListFacts(s, next, on),
         NEW shorter, shorter = [next EXCEPT ![s] = Null]
  PROVE  ListFacts(next[s], shorter, on \ {s})
<1>1. next \in [Statics -> on \cup {Null}] /\ Null \notin Statics /\ s \in Statics
  BY ManagedStaticAssumption DEF ListFacts
<1>2. shorter[s] = Null /\ \A x \in Statics : x # s => shorter[x] = next[x]
  BY <1>1
<1>3. \A x \in Statics : next[x] # s
  BY <1>1 DEF ListFacts
<1>4. on \ {s} \subseteq Reached(next[s], shorter)
  <2> SUFFICES ASSUME NEW x \in on, x # s, NEW S \in SUBSET (Statics \cup {Null}),
                      next[s] \in S, \A y \in S \ {Null} : shorter[y] \in S
               PROVE  x \in S
    BY <1>1 DEF Reached
  <2>1. \A y \in (S \cup {s}) \ {Null} : next[y] \in S \cup {s}
    BY <1>1, <1>2
  <2>2. x \in Reached(s, next)
    BY DEF ListFacts
  <2>3. S \cup {s} \in SUBSET (Statics \cup {Null}) /\ s \in S \cup {s}
    BY <1>1
  <2>4. x \in S \cup {s}
    BY <2>1, <2>2, <2>3 DEF Reached
  <2> QED BY <2>4
<1>5. ASSUME NEW r \in on, r # s
      PROVE  CreatorUses[r] \subseteq Reached(shorter[r], shorter)
  <2>1. shorter[r] = next[r] /\ CreatorUses[r] \subseteq Reached(next[r], next)
    BY <1>2, <1>5 DEF ListFacts
  <2>2. ASSUME NEW x \in Reached(next[r], next),
               NEW S \in SUBSET (Statics \cup {Null}),
               next[r] \in S, \A y \in S \ {Null} : shorter[y] \in S
        PROVE  x \in S
    <3>1. next[r] \in S \ {s}
      BY <1>3, <2>2
    <3>2. \A y \in (S \ {s}) \ {Null} : next[y] \in S \ {s}
      BY <1>2, <1>3, <2>2
    <3>3. x \in S \ {s}
      BY <3>1, <3>2 DEF Reached
    <3> QED BY <3>3
  <2>3. Reached(next[r], next) \subseteq Reached(next[r], shorter)
    <3> SUFFICES ASSUME NEW x \in Reached(next[r], next)
                 PROVE  x \in Reached(next[r], shorter)
      OBVIOUS
    <3>1. x \in Statics
      BY DEF Reached
    <3> QED BY <2>2, <3>1 DEF Reached
  <2> QED BY <2>1, <2>3
<1>6. next[s] \in (on \ {s}) \cup {Null} /\ shorter \in [Statics -> (on \ {s}) \cup {Null}]
  <2>1. \A x \in Statics : next[x] \in (on \ {s}) \cup {Null}
    BY <1>1, <1>3
  <2> QED BY <1>1, <2>1
<1>7. \A x \in Statics \ (on \ {s}) : shorter[x] = Null
  BY <1>2 DEF ListFacts
<1>8. \A x, y \in on \ {s} : shorter[x] = shorter[y] /\ shorter[x] # Null => x = y
  BY <1>2 DEF ListFacts
<1>9. ASSUME NEW x \in on, x # s
      PROVE  shorter[x] # next[s]
  <2>0. shorter[x] = next[x]
    BY <1>2, <1>9
  <2>1. CASE next[s] # Null
    BY <1>9, <2>0, <2>1 DEF ListFacts
  <2>2. CASE next[s] = Null
    <3>1. \A y \in {s, Null} \ {Null} : next[y] \in {s, Null}
      BY <1>1, <2>2
    <3>2. x \in Reached(s, next)
      BY DEF ListFacts
    <3>3. x \in {s, Null}
      <4>1. {s, Null} \in SUBSET (Statics \cup {Null}) /\ s \in {s, Null}
        BY <1>1
      <4> QED BY <3>1, <3>2, <4>1 DEF Reached
    <3> QED BY <1>1, <1>9, <3>3
  <2> QED BY <2>1, <2>2
<1> QED BY <1>4, <1>5, <1>6, <1>7, <1>8, <1>9 DEF ListFacts

LEMMA LinkStep ==
  ASSUME IInv, StacksRight', NEW t \in Threads, Link(t)
  PROVE  CallsRight' /\ PointersRight' /\ ListRight'
<1> DEFINE s == Top(t).of
           c == Call("release", s, Top(t).left)
<1>1. /\ At(t, "link") /\ DeleterFn' = DeleterFn \cup {s}
      /\ NextStatic' = [NextStatic EXCEPT ![s] = StaticList] /\ StaticList' = s
      /\ UNCHANGED <<objects, Ptr, multithreaded>>
  BY DEF Link
<1>2. Within(t, Critical) /\ ~ Idle(t) /\ Top(t).at = "link" /\ s \in Statics
  BY <1>1, TopWithin DEF Critical
<1>3. /\ Moves(t, c) /\ c.at = "release" /\ c.of = s
      /\ StacksRight /\ CallsRight
  BY InvFacts, Effects DEF Call, IInv
<1> HIDE DEF c
<1>4. /\ BeingDeleted' = BeingDeleted /\ BeingLinked = {s} /\ BeingLinked' = {}
      /\ BeingPublished = {} /\ BeingPublished' = {}
  BY <1>1, <1>3, CriticalMove DEF Critical
<1>5. s \in Ptr /\ CreatorUses[s] \subseteq OnList
  BY <1>2, TopRight DEF CallRight
<1>6. s \notin DeleterFn
  BY <1>4 DEF IInv, PointersRight
<1>7. s \notin BeingDeleted
  <2> SUFFICES ASSUME NEW u \in Threads, NEW i \in 1..Len(stack[u]),
                      stack[u][i].at = "delete", stack[u][i].of = s
               PROVE  FALSE
    BY DEF BeingDeleted
  <2>1. stack[u][1].at = "shutdown" /\ ~ Idle(u)
    BY <1>3, StackFacts DEF StacksRight, Shape
  <2>2. u = t
    BY <1>2, <2>1 DEF IInv, Isolation, Alone
  <2>3. i = Len(stack[t])
    BY <1>2, <1>3, <2>2, TopStatic
  <2> QED BY <1>2, <1>3, <2>2, <2>3, TopStatic
<1>8. OnList' = OnList \cup {s} /\ s \notin OnList
  BY <1>1, <1>4, <1>6, <1>7 DEF OnList
<1>9. PointersRight'
  BY <1>1, <1>4, <1>5 DEF IInv, PointersRight
<1>10. ListRight'
  <2>1. ListFacts(StaticList, NextStatic, OnList) /\ OnList \in SUBSET Statics
    BY InvFacts, ListRightDef DEF IInv
  <2>2. ListFacts(s, NextStatic', OnList \cup {s})
    BY <1>1, <1>2, <1>5, <1>8, <2>1, ListLinked
  <2> QED BY <1>1, <1>8, <2>2, ListRightNext
<1>11. CallsRight'
  <2>0. Ptr \ Ptr = {}
    OBVIOUS
  <2>1. RestRight(t, Ptr, OnList', multithreaded)
    BY <1>3, <1>8, <2>0, RestKept
  <2>2. CallRight(c, Ptr, OnList', multithreaded)
    BY <1>3, <1>5 DEF CallRight
  <2> QED BY <1>1, <1>3, <2>1, <2>2, MovedCalls
<1> QED BY <1>9, <1>10, <1>11

LEMMA DestroyStep ==
  ASSUME IInv, StacksRight', NEW t \in Threads, Destroy(t)
  PROVE  CallsRight' /\ PointersRight' /\ ListRight'
<1> DEFINE s == StaticList
           c == Call("delete", s, DeleterUses[s])
<1>1. /\ At(t, "shutdown") /\ s # Null /\ StaticList' = NextStatic[s]
      /\ NextStatic' = [NextStatic EXCEPT ![s] = Null]
      /\ UNCHANGED <<objects, Ptr, DeleterFn, multithreaded>>
  BY DEF Destroy
<1>2. /\ \A u \in Threads \ {t} : Idle(u) /\ Len(stack[u]) = 0
      /\ Len(stack[t]) = 1 /\ stack[t][1].at = "shutdown" /\ ~ Idle(t)
  BY <1>1, ShutdownAlone
<1>3. /\ Pushes(t, Top(t), c) /\ c.at = "delete" /\ c.of = s
      /\ StacksRight /\ Others(t)
  BY InvFacts, Effects DEF Call, Pushes
<1> HIDE DEF c
<1>4. s \in OnList /\ s \in Ptr /\ s \in Statics
  BY <1>1, InvFacts DEF IInv, ListRight
<1>5. /\ \A u \in Threads \ {t} : Idle(u)' /\ Len(stack'[u]) = 0
      /\ Len(stack'[t]) = 2 /\ stack'[t][1].at = "shutdown" /\ stack'[t][2] = c
      /\ Top(t)' = c /\ ~ Idle(t)'
  <2>1. Len(stack'[t]) = 2 /\ stack'[t][1] = Top(t) /\ stack'[t][2] = c
    BY <1>2, <1>3 DEF Pushes
  <2>2. Top(t)' = c /\ ~ Idle(t)'
    BY <1>3, TopAfter
  <2>3. Top(t) = stack[t][1]
    BY <1>2 DEF Top
  <2> QED BY <1>2, <1>3, <2>1, <2>2, <2>3 DEF Others, Idle
<1>6. BeingDeleted = {} /\ BeingDeleted' = {s}
  <2>1. BeingDeleted = {}
    BY <1>2 DEF BeingDeleted
  <2>2. \A u \in Threads : u # t => \A i \in 1..Len(stack'[u]) : FALSE
    BY <1>5
  <2>3. \A i \in 1..Len(stack'[t]) : i \in {1, 2}
    BY <1>5
  <2>4. stack'[t][2].at = "delete" /\ stack'[t][2].of = s /\ 2 \in 1..Len(stack'[t])
    BY <1>3, <1>5
  <2>5. BeingDeleted' \subseteq {s}
    <3> SUFFICES ASSUME NEW x, NEW u \in Threads, NEW i \in 1..Len(stack'[u]),
                        stack'[u][i].at = "delete", stack'[u][i].of = x
                 PROVE  x = s
      BY DEF BeingDeleted
    <3>1. u = t
      BY <2>2
    <3> QED BY <1>5, <2>3, <2>4, <3>1
  <2>6. s \in BeingDeleted'
    BY <1>4, <2>4 DEF BeingDeleted
  <2> QED BY <2>1, <2>5, <2>6
<1>7. BeingLinked' = {} /\ BeingLinked = {} /\ BeingPublished' = {} /\ BeingPublished = {}
  <2>1. \A u \in Threads : ~ At(u, "link")' /\ ~ At(u, "publish")'
    BY <1>3, <1>5 DEF At
  <2>2. \A u \in Threads : ~ At(u, "link") /\ ~ At(u, "publish")
    BY <1>1, <1>2 DEF At
  <2> QED BY <2>1, <2>2 DEF BeingLinked, BeingPublished
<1>8. OnList' = OnList \ {s}
  BY <1>1, <1>6 DEF OnList
<1>9. PointersRight'
  BY <1>1, <1>7 DEF IInv, PointersRight
<1>10. ListRight'
  <2>1. ListFacts(s, NextStatic, OnList) /\ OnList \in SUBSET Statics
    BY InvFacts, ListRightDef DEF IInv
  <2>2. ListFacts(NextStatic[s], NextStatic', OnList \ {s})
    BY <1>1, <1>4, <2>1, ListUnlinked
  <2> QED BY <1>1, <1>8, <2>2, ListRightNext
<1>11. CallsRight'
  <2>1. RestRight(t, Ptr', OnList', multithreaded')
    BY <1>2 DEF RestRight, Right
  <2>2. CallRight(c, Ptr', OnList', multithreaded')
    BY <1>1, <1>3, <1>4 DEF CallRight
  <2>3. Top(t).at = "shutdown" /\ CallRight(Top(t), Ptr', OnList', multithreaded')
    BY <1>1 DEF At, CallRight
  <2> QED BY <1>3, <2>1, <2>2, <2>3, PushedCalls
<1> QED BY <1>9, <1>10, <1>11

LEMMA DestroyedStep ==
  ASSUME IInv, StacksRight', NEW t \in Threads, Destroyed(t)
  PROVE  CallsRight' /\ PointersRight' /\ ListRight'
<1> DEFINE s == Top(t).of
<1>1. /\ At(t, "delete") /\ objects' = [objects EXCEPT ![s] = @ - 1]
      /\ Ptr' = Ptr \ {s} /\ DeleterFn' = DeleterFn \ {s}
      /\ UNCHANGED <<NextStatic, StaticList, multithreaded>>
  BY DEF Destroyed
<1>2. /\ \A u \in Threads \ {t} : Idle(u) /\ Len(stack[u]) = 0
      /\ Len(stack[t]) = 2 /\ stack[t][1].at = "shutdown" /\ ~ Idle(t)
      /\ Top(t).at = "delete"
  BY <1>1, ShutdownAlone DEF At
<1>3. Pops(t) /\ StacksRight /\ Others(t)
  BY InvFacts, Effects DEF Pops
<1>4. s \in Ptr /\ s \in Statics /\ Top(t) = stack[t][2]
  BY <1>2, <1>3, TopRight, TopStatic DEF CallRight, Top
<1>5. /\ \A u \in Threads \ {t} : Idle(u)' /\ Len(stack'[u]) = 0
      /\ Len(stack'[t]) = 1 /\ stack'[t][1].at = "shutdown" /\ Top(t)'.at = "shutdown"
  <2>1. Len(stack'[t]) = 1 /\ stack'[t][1] = stack[t][1]
    BY <1>2, <1>3 DEF Pops
  <2>2. Top(t)' = stack'[t][1]
    BY <2>1 DEF Top
  <2> QED BY <1>2, <1>3, <2>1, <2>2 DEF Others, Idle
<1>6. BeingDeleted = {s} /\ BeingDeleted' = {}
  <2>1. BeingDeleted' = {}
    BY <1>5 DEF BeingDeleted
  <2>2. \A x : (\E u \in Threads : \E i \in 1..Len(stack[u]) :
                  stack[u][i].at = "delete" /\ stack[u][i].of = x) <=> x = s
    BY <1>2, <1>4
  <2> QED BY <1>4, <2>1, <2>2 DEF BeingDeleted
<1>7. BeingLinked' = {} /\ BeingLinked = {} /\ BeingPublished' = {} /\ BeingPublished = {}
  <2>1. \A u \in Threads : ~ At(u, "link")' /\ ~ At(u, "publish")'
    BY <1>5 DEF At
  <2>2. \A u \in Threads : ~ At(u, "link") /\ ~ At(u, "publish")
    BY <1>2 DEF At
  <2> QED BY <2>1, <2>2 DEF BeingLinked, BeingPublished
<1>8. OnList' = OnList
  BY <1>1, <1>6 DEF OnList
<1>9. PointersRight'
  <2>1. objects = [x \in Statics |-> IF x \in Ptr THEN 1 ELSE 0] /\ DeleterFn = Ptr /\ Ptr \subseteq Statics
    BY <1>7 DEF IInv, PointersRight
  <2>2. objects' = [x \in Statics |-> IF x \in Ptr' THEN 1 ELSE 0]
    <3>1. objects' = [x \in Statics |-> IF x = s THEN objects[s] - 1 ELSE objects[x]]
      BY <1>1, <1>4, <2>1
    <3>2. \A x \in Statics : objects[x] = IF x \in Ptr THEN 1 ELSE 0
      BY <2>1
    <3>3. objects[s] - 1 = 0
      BY <1>4, <3>2
    <3> QED BY <1>1, <3>1, <3>2, <3>3
  <2> QED BY <1>1, <1>7, <2>1, <2>2 DEF PointersRight
<1>10. ListRight'
  <2>1. \A x : Listed(x)' = Listed(x)
    BY <1>1 DEF Listed
  <2> QED BY <1>1, <1>8, <2>1 DEF IInv, ListRight
<1>11. CallsRight'
  <2>1. RestRight(t, Ptr', OnList', multithreaded')
    <3>1. CallRight(stack[t][1], Ptr', OnList', multithreaded') /\ UsedRight(stack[t], 1, OnList')
      BY <1>2 DEF CallRight, UsedRight
    <3> QED BY <1>2, <3>1 DEF RestRight, Right
  <2>2. stack[t][Len(stack[t]) - 1].at # "create"
    BY <1>2
  <2> QED BY <1>3, <2>1, <2>2, PoppedCalls
<1> QED BY <1>9, <1>10, <1>11

-----------------------------------------------------------------------------
(* The inductive invariant *)

LEMMA InitInv ==
  ASSUME Init
  PROVE  IInv
<1>1. \A t \in Threads : stack[t] = << >> /\ Len(stack[t]) = 0 /\ stack[t] \in Seq(Calls)
  BY EmptySeq DEF Init
<1>2. stack \in [Threads -> Seq(Calls)] /\ \A t \in Threads : Shape(stack[t])
  BY <1>1 DEF Init, Shape
<1>3. Isolation /\ LockCounts /\ CallsRight
  BY <1>1 DEF Init, Isolation, Idle, LockCounts, CallsRight
<1>4. BeingLinked = {} /\ BeingPublished = {} /\ BeingDeleted = {} /\ OnList = {}
  BY <1>1 DEF Init, BeingLinked, BeingPublished, BeingDeleted, At, Idle, OnList
<1>5. PointersRight /\ ListRight
  BY <1>4 DEF Init, PointersRight, ListRight
<1> QED BY <1>2, <1>3, <1>5 DEF Init, IInv

LEMMA NextInv ==
  ASSUME IInv, [Next]_vars
  PROVE  IInv'
<1>1. Control /\ StacksRight /\ StaticList \in Statics \cup {Null} /\ multithreaded \in BOOLEAN
  BY InvFacts DEF Control
<1>2. StacksRight'
  BY <1>1, StacksStep
<1>3. Isolation' /\ LockCounts'
  BY <1>1, <1>2, IsolationStep, LockStep DEF Control
<1>4. ok' = TRUE
  BY OkStep
<1>5. multithreaded' \in BOOLEAN
  BY <1>1 DEF Next, vars, StartMultithreaded, Dereference, Shutdown, Step, Read, Register, Check,
             Nested, Create, Publish, Link, Release, Use, Destroy, Destroyed, ShutdownDone
<1>6. CallsRight' /\ PointersRight' /\ ListRight'
  <2>1. CASE UNCHANGED vars \/ StartMultithreaded
    BY <2>1, StandStill
  <2>2. ASSUME NEW t \in Threads, QuietStep(t)
        PROVE  CallsRight' /\ PointersRight' /\ ListRight'
    BY <1>2, <2>2, QuietCalls, QuietKeepsData
  <2>3. ASSUME NEW t \in Threads,
               Create(t) \/ Publish(t) \/ Link(t) \/ Destroy(t) \/ Destroyed(t)
        PROVE  CallsRight' /\ PointersRight' /\ ListRight'
    BY <1>2, <2>3, CreateStep, PublishStep, LinkStep, DestroyStep, DestroyedStep
  <2> QED BY <2>1, <2>2, <2>3 DEF Next, Step, QuietStep
<1> QED BY <1>2, <1>3, <1>4, <1>5, <1>6 DEF IInv, StacksRight

\* The invariant of the run, for any number of threads and statics.
THEOREM Invariance == Spec => []IInv
<1>1. Init => IInv
  BY InitInv
<1>2. IInv /\ [Next]_vars => IInv'
  BY NextInv
<1> QED BY <1>1, <1>2, PTL DEF Spec

-----------------------------------------------------------------------------
(* What follows from it *)

\* The list holds nothing but what is meant to be on it.
LEMMA ListedFacts ==
  ASSUME IInv
  PROVE  /\ Listed(StaticList) = OnList
         /\ \A s \in Statics : Listed(NextStatic[s]) \subseteq OnList
         /\ StaticList = Null => OnList = {}
<1>1. /\ OnList \subseteq Statics /\ Null \notin Statics
      /\ StaticList \in OnList \cup {Null} /\ NextStatic \in [Statics -> OnList \cup {Null}]
      /\ OnList \subseteq Listed(StaticList)
  BY InvFacts DEF IInv, ListRight
<1>2. ASSUME NEW first \in OnList \cup {Null}
      PROVE  Listed(first) \subseteq OnList
  <2>1. \A x \in (OnList \cup {Null}) \ {Null} : NextStatic[x] \in OnList \cup {Null}
    BY <1>1
  <2>2. OnList \cup {Null} \in SUBSET (Statics \cup {Null})
    BY <1>1
  <2> QED BY <1>1, <2>1, <2>2 DEF Listed
<1>3. StaticList = Null => OnList = {}
  <2>1. \A x \in {Null} \ {Null} : NextStatic[x] \in {Null}
    OBVIOUS
  <2>2. Listed(Null) \subseteq {Null}
    BY <2>1 DEF Listed
  <2> QED BY <1>1, <2>2
<1>4. \A s \in Statics : NextStatic[s] \in OnList \cup {Null}
  BY <1>1
<1> QED BY <1>1, <1>2, <1>3, <1>4

\* Every variable has its type.
THEOREM TypeCorrect == Spec => []TypeOK
<1>1. IInv => TypeOK
  <2> SUFFICES ASSUME IInv PROVE TypeOK
    OBVIOUS
  <2>1. stack \in [Threads -> Seq(Calls)] /\ multithreaded \in BOOLEAN /\ ok \in BOOLEAN
    BY DEF IInv
  <2>2. objects \in [Statics -> Nat] /\ Ptr \subseteq Statics /\ DeleterFn \subseteq Statics
    BY DEF IInv, PointersRight
  <2>3. NextStatic \in [Statics -> Statics \cup {Null}] /\ StaticList \in Statics \cup {Null}
    BY InvFacts DEF IInv, ListRight
  <2>4. lock \in [owner : Threads \cup {Null}, depth : Nat]
    <3>1. CASE lock = Free
      BY <3>1 DEF Free
    <3>2. CASE lock # Free
      <4>1. PICK t \in Threads : lock = [owner |-> t, depth |-> Held(stack[t])]
        BY <3>2 DEF IInv, LockCounts
      <4>2. Held(stack[t]) \in Nat
        BY InvFacts, HeldNat
      <4> QED BY <4>1, <4>2
    <3> QED BY <3>1, <3>2
  <2> QED BY <2>1, <2>2, <2>3, <2>4 DEF TypeOK
<1> QED BY <1>1, Invariance, PTL

\* Constructors of statics run one at a time, however they nest.
THEOREM CreatorsSerializedEver == Spec => []CreatorsSerialized
<1>1. IInv => CreatorsSerialized
  BY InvFacts, Mutex
<1> QED BY <1>1, Invariance, PTL

\* Double-checked locking never builds a second object of a static.
THEOREM OneObjectEver == Spec => []OneObject
<1>1. IInv => OneObject
  BY DEF IInv, PointersRight, OneObject
<1> QED BY <1>1, Invariance, PTL

\* No assert of ManagedStatic.cpp fails, and every dereference yields an object.
THEOREM AssertsHoldEver == Spec => []AssertsHold
<1>1. IInv => AssertsHold
  BY DEF IInv, AssertsHold
<1> QED BY <1>1, Invariance, PTL

\* The list that llvm_shutdown walks holds every object, users before used.
THEOREM ListIntactEver == Spec => []ListIntact
<1>1. IInv => ListIntact
  <2> SUFFICES ASSUME IInv PROVE ListIntact
    OBVIOUS
  <2>1. OnList = Ptr \ (BeingLinked \cup BeingDeleted)
    BY DEF IInv, PointersRight, OnList
  <2>2. \A s \in OnList : CreatorUses[s] \subseteq Listed(NextStatic[s])
    BY DEF IInv, ListRight
  <2> QED BY <2>1, <2>2, ListedFacts DEF ListIntact
<1> QED BY <1>1, Invariance, PTL

\* When llvm_shutdown returns nothing is left of any static, whatever the
\* destructors brought back to life on the way.
THEOREM ShutdownCleanEver == Spec => ShutdownClean
<1>1. ASSUME IInv, [Next]_vars, NEW t \in Threads, ShutdownDone(t)
      PROVE  /\ Ptr' = {} /\ DeleterFn' = {}
             /\ \A s \in Statics : objects'[s] = 0 /\ NextStatic'[s] = Null
  <2>1. At(t, "shutdown") /\ StaticList = Null /\ UNCHANGED <<objects, Ptr, DeleterFn, NextStatic>>
    BY <1>1 DEF ShutdownDone, heap
  <2>2. /\ \A u \in Threads \ {t} : Idle(u) /\ Len(stack[u]) = 0
        /\ Len(stack[t]) = 1 /\ stack[t][1].at = "shutdown"
    BY <1>1, <2>1, ShutdownAlone
  <2>3. BeingDeleted = {}
    BY <2>2 DEF BeingDeleted
  <2>4. BeingLinked = {} /\ BeingPublished = {}
    BY <2>1, <2>2 DEF BeingLinked, BeingPublished, At
  <2>5. OnList = {}
    BY <1>1, <2>1, ListedFacts
  <2>6. DeleterFn = {} /\ Ptr = {}
    BY <1>1, <2>3, <2>4, <2>5 DEF IInv, PointersRight, OnList
  <2>7. \A s \in Statics : objects[s] = 0
    BY <1>1, <2>4, <2>6 DEF IInv, PointersRight
  <2>8. \A s \in Statics : NextStatic[s] = Null
    BY <1>1, <2>5 DEF IInv, ListRight
  <2> QED BY <2>1, <2>6, <2>7, <2>8
<1>2. IInv /\ [Next]_vars =>
        [\A t \in Threads : ShutdownDone(t) =>
           /\ Ptr' = {} /\ DeleterFn' = {}
           /\ \A s \in Statics : objects'[s] = 0 /\ NextStatic'[s] = Null]_vars
  BY <1>1
<1> QED BY <1>2, Invariance, PTL DEF Spec, ShutdownClean

-----------------------------------------------------------------------------
(* The objects come and go as LazyObjects says *)

alive == {s \in Statics : objects[s] > 0}

LEMMA AliveFacts ==
  ASSUME IInv
  PROVE  alive = Ptr \cup BeingPublished /\ \A s \in Statics : objects[s] \in {0, 1}
<1>1. \A s \in Statics : objects[s] = IF s \in Ptr \cup BeingPublished THEN 1 ELSE 0
  BY DEF IInv, PointersRight
<1>2. Ptr \cup BeingPublished \subseteq Statics
  BY DEF IInv, PointersRight, BeingPublished
<1>3. \A s \in Statics : objects[s] > 0 <=> s \in Ptr \cup BeingPublished
  BY <1>1
<1> QED BY <1>1, <1>2, <1>3 DEF alive

LEMMA ObjectsStep ==
  ASSUME IInv, IInv', [Next]_vars
  PROVE  [Objects!Next]_alive
<1>1. ASSUME NEW t \in Threads, Create(t)
      PROVE  Objects!Next
  <2> DEFINE s == Top(t).of
  <2>1. At(t, "create") /\ Top(t).left = {} /\ objects' = [objects EXCEPT ![s] = @ + 1]
    BY <1>1 DEF Create
  <2>2. Within(t, Critical) /\ ~ Idle(t) /\ Top(t).at = "create" /\ s \in Statics
    BY <2>1, TopWithin DEF Critical
  <2>3. s \notin Ptr /\ CreatorUses[s] \subseteq OnList
    BY <2>1, <2>2, TopRight DEF CallRight
  <2>4. s \notin BeingPublished
    BY <2>2, CriticalAlone DEF BeingPublished, At, Critical
  <2>5. s \notin alive /\ CreatorUses[s] \subseteq alive
    BY <2>3, <2>4, AliveFacts, InvFacts
  <2>6. alive' = alive \cup {s}
    <3>1. objects[s] = 0
      BY <2>2, <2>3, <2>4 DEF IInv, PointersRight
    <3>2. objects'[s] = 1 /\ \A x \in Statics : x # s => objects'[x] = objects[x]
      BY <2>1, <2>2, <3>1 DEF IInv, PointersRight
    <3> QED BY <2>2, <3>2 DEF alive
  <2>7. Objects!Create(s)
    BY <2>5, <2>6 DEF Objects!Create, alive
  <2> HIDE DEF s
  <2> QED BY <2>2, <2>7 DEF Objects!Next, Objects!Create
<1>2. ASSUME NEW t \in Threads, Destroyed(t)
      PROVE  Objects!Next
  <2> DEFINE s == Top(t).of
  <2>1. At(t, "delete") /\ objects' = [objects EXCEPT ![s] = @ - 1]
    BY <1>2 DEF Destroyed
  <2>2. /\ \A u \in Threads \ {t} : Idle(u) /\ Len(stack[u]) = 0
        /\ Len(stack[t]) = 2 /\ stack[t][1].at = "shutdown" /\ ~ Idle(t)
        /\ Top(t).at = "delete"
    BY <2>1, ShutdownAlone DEF At
  <2>3. s \in Ptr /\ s \in Statics /\ Top(t) = stack[t][2]
    BY <2>2, InvFacts, TopRight, TopStatic DEF CallRight, Top
  <2>4. BeingLinked = {} /\ BeingPublished = {}
    BY <2>2 DEF BeingLinked, BeingPublished, At
  <2>5. s \in BeingDeleted /\ BeingDeleted \subseteq {s}
    <3>1. 2 \in 1..Len(stack[t]) /\ stack[t][2].at = "delete" /\ stack[t][2].of = s
      BY <2>2, <2>3
    <3>2. s \in BeingDeleted
      BY <2>3, <3>1 DEF BeingDeleted
    <3>3. BeingDeleted \subseteq {s}
      BY <2>2, <2>3 DEF BeingDeleted
    <3> QED BY <3>2, <3>3
  <2>6. alive = Ptr /\ Ptr = OnList \cup {s} /\ s \notin OnList
    BY <2>3, <2>4, <2>5, AliveFacts DEF IInv, PointersRight, OnList
  <2>7. \A u \in OnList : CreatorUses[u] \subseteq OnList
    BY ListedFacts, InvFacts DEF IInv, ListRight
  <2>8. s \notin CreatorUses[s]
    <3>1. {s} \in SUBSET Statics /\ {s} # {}
      BY <2>3
    <3>2. Uses(s) \cap {s} = {}
      BY <3>1, ManagedStaticAssumption
    <3> QED BY <3>2 DEF Uses
  <2>9. \A u \in alive : s \notin CreatorUses[u]
    BY <2>6, <2>7, <2>8
  <2>10. alive' = alive \ {s}
    <3>1. objects[s] = 1
      BY <2>3 DEF IInv, PointersRight
    <3>2. objects'[s] = 0 /\ \A x \in Statics : x # s => objects'[x] = objects[x]
      BY <2>1, <2>3, <3>1 DEF IInv, PointersRight
    <3> QED BY <2>3, <3>2 DEF alive
  <2>11. Objects!Destroy(s)
    BY <2>3, <2>6, <2>9, <2>10 DEF Objects!Destroy, Objects!Users, alive
  <2> HIDE DEF s
  <2> QED BY <2>3, <2>11 DEF Objects!Next, Objects!Destroy
<1>3. CASE UNCHANGED objects
  BY <1>3 DEF alive
<1> QED BY <1>1, <1>2, <1>3
        DEF Next, vars, heap, StartMultithreaded, Dereference, Shutdown, Step, Read, Register, Check,
            Nested, Publish, Link, Release, Use, Destroy, ShutdownDone

\* Managed statics implement LazyObjects: an object is built once, after those
\* its constructor uses, and deleted before them.
THEOREM ImplementsLazyObjects == Spec => ObjectsSpec
<1>1. Init => Objects!Init
  BY DEF Init, Objects!Init
<1>2. IInv /\ IInv' /\ [Next]_vars => [Objects!Next]_alive
  BY ObjectsStep
<1>3. alive = {s \in Statics : objects[s] > 0}
  BY DEF alive
<1> QED BY <1>1, <1>2, Invariance, PTL DEF Spec, ObjectsSpec, Objects!Spec, alive

Lazy == INSTANCE LazyObjectsProofs WITH alive <- {s \in Statics : objects[s] > 0}

\* No object outlives one its constructor was given.
THEOREM NoneDanglesEver == Spec => []NoneDangles
<1>1. Lazy!Spec => []Lazy!NoneDangles
  BY Lazy!NeverDangles
<1>2. Objects!Init <=> Lazy!Init
  BY DEF Objects!Init, Lazy!Init
<1>3. [Objects!Next]_{s \in Statics : objects[s] > 0}
        <=> [Lazy!Next]_{s \in Statics : objects[s] > 0}
  BY DEF Objects!Next, Objects!Create, Objects!Destroy, Objects!Users,
         Lazy!Next, Lazy!Create, Lazy!Destroy, Lazy!Users
<1>4. Lazy!NoneDangles <=> NoneDangles
  BY DEF NoneDangles, Objects!NoneDangles, Lazy!NoneDangles
<1> QED BY <1>1, <1>2, <1>3, <1>4, ImplementsLazyObjects, PTL
        DEF ObjectsSpec, Objects!Spec, Lazy!Spec
=============================================================================
