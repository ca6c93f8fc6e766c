-------------------------- MODULE JITEmitterProofs --------------------------
(***************************************************************************)
(* Theorems about JITEmitter, for any functions, variables, sizes of       *)
(* blocks and engines.                                                     *)
(***************************************************************************)
EXTENDS JITEmitter, TLAPS

\* Every block that is offered for an exception table holds it; nothing in
\* the code looks whether it did.
TablesFit ==
  \A e \in Engines : e.DwarfExceptionHandling =>
    /\ e.BlockSizes # {}
    /\ \A s \in e.BlockSizes, f \in Functions : Table[f] <= s

Emitting == {"body", "relocations", "table"}
Open == {b \in Blocks : block[b].state = "open"}

\* What is known of the buffer and of what is left to do in each phase.
Phases ==
  /\ job.phase \in Emitting =>
       buf.begin.off = 0 /\ buf.begin.block \in Blocks
  /\ job.phase \notin Emitting \cup {"crashed"} => Open = {}
  /\ job.phase = "retry" => buf.begin.off <= buf.end.off
  /\ job.phase \in Emitting \cup {"retry", "again", "finished"} => job.fn \in Functions
  /\ job.phase \in {"idle", "variable"} => job.fn = None
  /\ job.phase \in {"finished", "table"} => engine.DwarfExceptionHandling

OnlyRefers(s) == \A i \in DOMAIN s : s[i].op = "refer"

\* The code is the last thing that is written before the relocations.
CodeLeft ==
  LET s == job.todo
  IN  /\ s # <<>> /\ s[Len(s)] = Words("code", Code[job.fn])
      /\ \A i \in 1 .. Len(s) - 1 : s[i].op \in {"pool", "refer"}

\* Code that was cut off is betrayed by a full buffer.
CodeWritten ==
  LET e == extent[job.fn].code
  IN  e.block = buf.begin.block /\ (Full \/ e.to - e.from = Code[job.fn])

TableLeft ==
  LET s == job.todo
  IN  /\ s # <<>> /\ s[1] = Words("table", Table[job.fn])
      /\ \A i \in 2 .. Len(s) : s[i].op = "refer"
      /\ buf.cur.off = 0 /\ (TablesFit => Table[job.fn] <= buf.end.off)

TableWritten ==
  LET e == extent[job.fn].table
  IN  e.block = buf.begin.block /\ (TablesFit => e.to - e.from = Table[job.fn])

CodeWhole(f) ==
  LET e == extent[f].code
  IN  FunctionBlock[f] # NoBlock /\ e.block = FunctionBlock[f] /\ e.to - e.from = Code[f]
TableWhole(f) ==
  LET e == extent[f].table
  IN  /\ TableBlock[f] # NoBlock /\ e.block = TableBlock[f]
      /\ TablesFit => e.to - e.from = Table[f]

Progress ==
  /\ job.phase \in {"idle", "retry", "again", "finished", "crashed"} => job.todo = <<>>
  /\ job.phase = "variable" => OnlyRefers(job.todo)
  /\ job.phase = "body" => CodeLeft \/ (job.todo = <<>> /\ CodeWritten)
  /\ job.phase = "relocations" => OnlyRefers(job.todo) /\ CodeWritten
  /\ job.phase \in {"finished", "table"} => CodeWhole(job.fn)
  /\ job.phase = "table" => TableLeft \/ (OnlyRefers(job.todo) /\ TableWritten)

\* All other functions with an address are whole.
OthersWhole ==
  \A f \in mapped \ {job.fn} :
    CodeWhole(f) /\ (engine.DwarfExceptionHandling => TableWhole(f))

IInv == TypeOK /\ Phases /\ Progress /\ OthersWhole

-----------------------------------------------------------------------------
\* Where no block is open and one is opened, it is the only one.
LEMMA OpenOne ==
  ASSUME NEW b \in Blocks, Open = {}, NEW n, DOMAIN block = Blocks
  PROVE  {c \in Blocks : WithBlock(b, "open", n)[c].state = "open"} = {b}
BY DEF Open, WithBlock

\* The first task, and what is left after it.
LEMMA TodoTail ==
  ASSUME NEW s \in Seq(Task), s # <<>>
  PROVE  /\ Head(s) = s[1] /\ s[1] \in Task
         /\ Len(s) \in Nat /\ (Len(s) # 1 => Len(s) > 1)
         /\ Tail(s) \in Seq(Task) /\ Len(Tail(s)) = Len(s) - 1
         /\ \A i \in 1 .. Len(s) - 1 : Tail(s)[i] = s[i + 1]
<1>1. Len(s) # 1 => Len(s) > 1
  OBVIOUS
<1>2. /\ Head(s) = s[1] /\ s[1] \in Task
      /\ Len(s) \in Nat
      /\ Tail(s) \in Seq(Task) /\ Len(Tail(s)) = Len(s) - 1
      /\ \A i \in 1 .. Len(s) - 1 : Tail(s)[i] = s[i + 1]
  OBVIOUS
<1>. QED BY <1>1, <1>2

\* References in front of other tasks.
LEMMA ReferFirst ==
  ASSUME NEW r \in Seq(Functions \cup Variables), NEW t \in Seq(Task)
  PROVE  /\ References(r) \o t \in Seq(Task)
         /\ Len(References(r) \o t) = Len(r) + Len(t)
         /\ \A i \in 1 .. Len(r) : (References(r) \o t)[i].op = "refer"
         /\ \A i \in 1 .. Len(t) : (References(r) \o t)[Len(r) + i] = t[i]
<1>1. References(r) \in Seq(Task) /\ Len(References(r)) = Len(r)
  <2>1. \A i \in 1 .. Len(r) : References(r)[i] \in Task
    BY DEF References, Refer, Task
  <2>2. DOMAIN References(r) = 1 .. Len(r)
    BY DEF References
  <2>. QED BY <2>1, <2>2 DEF References
<1>2. \A i \in 1 .. Len(r) : References(r)[i].op = "refer"
  BY DEF References, Refer
<1>. QED BY <1>1, <1>2

\* The kind of the first task determines what is left.
LEMMA FirstTask ==
  ASSUME IInv, job.todo # <<>>
  PROVE  /\ job.phase \in Emitting \cup {"variable"}
         /\ Next1 \in Task
         /\ Next1.op = "pool" => job.phase = "body" /\ CodeLeft /\ Len(job.todo) > 1
         /\ Next1.op = "code" => job.phase = "body" /\ CodeLeft /\ Len(job.todo) = 1
                                 /\ Next1.words = Code[job.fn]
         /\ Next1.op = "table" => job.phase = "table" /\ TableLeft /\ Next1.words = Table[job.fn]
         /\ Next1.op = "refer" => /\ job.phase = "body" => CodeLeft /\ Len(job.todo) > 1
                                  /\ job.phase = "table" => OnlyRefers(job.todo) /\ TableWritten
<1>. DEFINE s == job.todo
<1>1. s \in Seq(Task) /\ job.phase \in Phase
  BY DEF IInv, TypeOK
<1>2. Head(s) = s[1] /\ s[1] \in Task /\ Len(s) \in Nat /\ (Len(s) # 1 => Len(s) > 1)
  BY <1>1, TodoTail
<1>3. job.phase \in Emitting \cup {"variable"}
  BY <1>1 DEF IInv, Progress, Phase, Emitting
<1>4. CASE job.phase = "body"
  <2>1. CodeLeft
    BY <1>4 DEF IInv, Progress
  <2>2. CASE Len(s) = 1
    BY <1>2, <1>4, <2>1, <2>2 DEF CodeLeft, Words, Next1, Emitting
  <2>3. CASE Len(s) # 1
    <3>1. s[1].op \in {"pool", "refer"}
      BY <1>2, <2>1, <2>3 DEF CodeLeft
    <3>. QED BY <1>2, <1>4, <2>1, <2>3, <3>1 DEF Next1, Emitting
  <2>. QED BY <1>2, <2>2, <2>3
<1>5. CASE job.phase \in {"relocations", "variable"}
  <2>1. s[1].op = "refer"
    BY <1>1, <1>2, <1>5 DEF IInv, Progress, OnlyRefers
  <2>. QED BY <1>2, <1>3, <1>5, <2>1 DEF Next1
<1>6. CASE job.phase = "table"
  <2>1. CASE TableLeft
    BY <1>2, <1>6, <2>1 DEF TableLeft, Words, Next1, Emitting
  <2>2. CASE OnlyRefers(s) /\ TableWritten
    <3>1. s[1].op = "refer"
      BY <1>1, <1>2, <2>2 DEF OnlyRefers
    <3>. QED BY <1>2, <1>6, <2>2, <3>1 DEF Next1, Emitting
  <2>. QED BY <1>6, <2>1, <2>2 DEF IInv, Progress
<1>. QED BY <1>3, <1>4, <1>5, <1>6 DEF Emitting

\* What the memory manager offers is a length, and at least what was asked for.
LEMMA OffersEnough ==
  ASSUME engine \in Engines, NEW n \in Nat, NEW m \in Offers(n)
  PROVE  m \in Nat /\ n <= m
BY JITEmitterAssumption DEF Offers, Engine

-----------------------------------------------------------------------------
\* The initial state has no buffer and no code.
LEMMA InitInv == Init => IInv
<1>. SUFFICES ASSUME Init PROVE IInv
  OBVIOUS
<1>1. TypeOK
  BY JITEmitterAssumption
  DEF Init, TypeOK, Buf, Address, NoBuffer, Uninitialised, Null, Wild, Pointer, NoBlock, Idle,
      Phase, NoExtent, Extent
<1>2. Phases
  BY DEF Init, Phases, Emitting, Open, Idle
<1>3. Progress /\ OthersWhole
  BY DEF Init, Progress, OthersWhole, Idle
<1>. QED BY <1>1, <1>2, <1>3 DEF IInv

\* A function is begun in a fresh block, with its code left to be written.
LEMMA StartInv ==
  ASSUME IInv, NEW f \in Functions, StartFunction(f)
  PROVE  IInv'
<1>1. PICK b \in Blocks, n \in Offers(SizeEstimate) \cap 0 .. Stride :
        /\ Fresh(b)
        /\ block' = WithBlock(b, "open", n)
        /\ buf' = Buffer(b, n)
  BY DEF StartFunction
<1>2. /\ job' = [fn |-> f, phase |-> "body",
                 todo |-> <<Words("pool", Pool[f]), Words("code", Code[f])>>]
      /\ UNCHANGED <<engine, saved, SizeEstimate, FunctionBlock, TableBlock, names>>
      /\ job.phase \in {"idle", "again"}
      /\ f \in mapped => f = job.fn
  BY DEF StartFunction, IInv, Phases
<1>3. n \in Nat
  BY OffersEnough DEF IInv, TypeOK
<1>4. Open = {} /\ DOMAIN block = Blocks
  BY <1>2 DEF IInv, Phases, TypeOK, Emitting
<1>5. /\ buf'.begin = [block |-> b, off |-> 0] /\ buf'.cur = [block |-> b, off |-> 0]
      /\ buf'.end = [block |-> b, off |-> n] /\ buf' \in Buf
  BY <1>1, <1>3 DEF Buffer, Pointer, Buf, Address
<1>6. TypeOK'
  <2>1. job' \in [fn : Functions \cup {None}, phase : Phase, todo : Seq(Task)]
    <3>1. Words("pool", Pool[f]) \in Task /\ Words("code", Code[f]) \in Task
      BY JITEmitterAssumption DEF Words, Task
    <3>. QED BY <1>2, <3>1 DEF Phase
  <2>2. block' \in [Blocks -> [state : {"free", "open", "kept"}, size : Nat]]
    BY <1>1, <1>3 DEF IInv, TypeOK, WithBlock
  <2>3. {c \in Blocks : block'[c].state = "open"} = {b}
    BY <1>1, <1>4, OpenOne
  <2>. QED BY <1>2, <1>3, <1>5, <2>1, <2>2, <2>3 DEF IInv, TypeOK, names
<1>7. Phases'
  <2>1. job.phase' = "body" /\ job.fn' = f
    BY <1>2
  <2>2. buf.begin.off' = 0 /\ buf.begin.block' = b
    BY <1>5
  <2>. QED BY <2>1, <2>2 DEF Phases, Emitting
<1>8. Progress'
  <2>1. job.phase' = "body" /\ job.fn' = f
    BY <1>2
  <2>2. CodeLeft'
    BY <1>2 DEF CodeLeft, Words
  <2>. QED BY <2>1, <2>2 DEF Progress
<1>9. OthersWhole'
  <2>1. job.fn' = f /\ job.fn \in {f, None} /\ mapped' = mapped /\ None \notin mapped
    BY <1>2, JITEmitterAssumption DEF IInv, Phases, StartFunction, TypeOK, names
  <2>. QED BY <1>2, <2>1 DEF IInv, OthersWhole, CodeWhole, TableWhole, names
<1>. QED BY <1>6, <1>7, <1>8, <1>9 DEF IInv

-----------------------------------------------------------------------------
\* What a step inside of an emission leaves alone.
LEMMA OthersStay ==
  ASSUME IInv, job.fn' = job.fn, mapped' \subseteq mapped \cup {job.fn},
         UNCHANGED <<engine, FunctionBlock, TableBlock>>,
         \A f \in Functions \ {job.fn} : extent'[f] = extent[f]
  PROVE  OthersWhole'
BY DEF IInv, TypeOK, OthersWhole, CodeWhole, TableWhole

\* What is left once the references of the first task stand in its place.
LEMMA ReferredTodo ==
  ASSUME IInv, job.todo # <<>>, NEW r \in Seq(Functions \cup Variables)
  PROVE  LET s == job.todo
             u == References(r) \o Tail(s)
         IN  /\ Len(s) \in Nat \ {0} /\ s \in Seq(Task)
             /\ u \in Seq(Task) /\ Len(u) = Len(r) + (Len(s) - 1) /\ Len(r) \in Nat
             /\ \A i \in 1 .. Len(r) : u[i].op = "refer"
             /\ \A i \in 1 .. Len(s) - 1 : u[Len(r) + i] = s[i + 1]
             /\ \A i \in 1 .. Len(u) : i <= Len(r) \/ \E k \in 1 .. Len(s) - 1 : i = Len(r) + k
<1>. DEFINE s == job.todo
            u == References(r) \o Tail(s)
<1>1. s # <<>> /\ s \in Seq(Task)
  BY DEF IInv, TypeOK
<1>2. /\ Len(s) \in Nat /\ Tail(s) \in Seq(Task) /\ Len(Tail(s)) = Len(s) - 1
      /\ \A i \in 1 .. Len(s) - 1 : Tail(s)[i] = s[i + 1]
  BY <1>1, TodoTail
<1>. DEFINE t == Tail(s)
<1>3. t \in Seq(Task) /\ Len(t) = Len(s) - 1 /\ \A i \in 1 .. Len(s) - 1 : t[i] = s[i + 1]
  BY <1>2
<1>. HIDE DEF t
<1>4. /\ References(r) \o t \in Seq(Task) /\ Len(References(r) \o t) = Len(r) + Len(t)
      /\ \A i \in 1 .. Len(r) : (References(r) \o t)[i].op = "refer"
      /\ \A i \in 1 .. Len(t) : (References(r) \o t)[Len(r) + i] = t[i]
  BY <1>3, ReferFirst
<1>5. \A i \in 1 .. Len(s) - 1 : (References(r) \o t)[Len(r) + i] = s[i + 1]
  BY <1>3, <1>4
<1>6. Len(r) \in Nat /\ u = References(r) \o t
  BY DEF t
<1>7. Len(s) \in Nat \ {0}
  BY <1>1
<1>8. Len(u) = Len(r) + (Len(s) - 1)
  BY <1>3, <1>4, <1>6
<1>. HIDE DEF u, s
<1>9. \A i \in 1 .. Len(u) : i <= Len(r) \/ \E k \in 1 .. Len(s) - 1 : i = Len(r) + k
  <2>. SUFFICES ASSUME NEW i \in 1 .. Len(u), ~(i <= Len(r))
                PROVE  \E k \in 1 .. Len(s) - 1 : i = Len(r) + k
    OBVIOUS
  <2>1. i - Len(r) \in 1 .. Len(s) - 1 /\ i = Len(r) + (i - Len(r))
    BY <1>6, <1>7, <1>8
  <2>. QED BY <2>1
<1>10. /\ Len(s) \in Nat \ {0} /\ s \in Seq(Task)
       /\ u \in Seq(Task) /\ Len(u) = Len(r) + (Len(s) - 1) /\ Len(r) \in Nat
       /\ \A i \in 1 .. Len(r) : u[i].op = "refer"
       /\ \A i \in 1 .. Len(s) - 1 : u[Len(r) + i] = s[i + 1]
  BY <1>1, <1>4, <1>5, <1>6, <1>7, <1>8
<1>. QED BY <1>9, <1>10 DEF s, u

\* The code stays the last thing to be written.
LEMMA CodeStaysLast ==
  ASSUME IInv, CodeLeft, Len(job.todo) > 1, NEW r \in Seq(Functions \cup Variables),
         job' = [job EXCEPT !.todo = References(r) \o Tail(@)]
  PROVE  /\ job' \in [fn : Functions \cup {None}, phase : Phase, todo : Seq(Task)]
         /\ job'.fn = job.fn /\ job'.phase = job.phase /\ CodeLeft'
<1>. DEFINE s == job.todo
            u == References(r) \o Tail(s)
<1>1. s # <<>>
  BY DEF CodeLeft
<1>2. /\ s[Len(s)] = Words("code", Code[job.fn])
      /\ \A i \in 1 .. Len(s) - 1 : s[i].op \in {"pool", "refer"}
  BY DEF CodeLeft
<1>3. /\ Len(s) \in Nat \ {0}
      /\ u \in Seq(Task) /\ Len(u) = Len(r) + (Len(s) - 1) /\ Len(r) \in Nat
      /\ \A i \in 1 .. Len(r) : u[i].op = "refer"
      /\ \A i \in 1 .. Len(s) - 1 : u[Len(r) + i] = s[i + 1]
      /\ \A i \in 1 .. Len(u) : i <= Len(r) \/ \E k \in 1 .. Len(s) - 1 : i = Len(r) + k
  BY <1>1, ReferredTodo
<1>4. /\ job' \in [fn : Functions \cup {None}, phase : Phase, todo : Seq(Task)]
      /\ job'.fn = job.fn /\ job'.phase = job.phase /\ job'.todo = u
  BY <1>3 DEF IInv, TypeOK
<1>5. Len(s) > 1
  OBVIOUS
<1>. HIDE DEF u, s
<1>6. Len(s) - 1 \in 1 .. Len(s) - 1
  BY <1>3, <1>5
<1>7. u[Len(u)] = s[Len(s)]
  <2>1. u[Len(r) + (Len(s) - 1)] = s[(Len(s) - 1) + 1]
    BY <1>3, <1>6
  <2>2. (Len(s) - 1) + 1 = Len(s)
    BY <1>3
  <2>. QED BY <1>3, <2>1, <2>2
<1>8. ASSUME NEW i \in 1 .. Len(u) - 1 PROVE u[i].op \in {"pool", "refer"}
  <2>1. CASE i <= Len(r)
    BY <1>3, <2>1
  <2>2. CASE i > Len(r)
    <3>1. PICK k \in 1 .. Len(s) - 1 : i = Len(r) + k
      BY <1>3, <2>2
    <3>2. k + 1 \in 1 .. Len(s) - 1 /\ u[i] = s[k + 1]
      BY <1>3, <3>1
    <3>. QED BY <1>2, <3>2
  <2>. QED BY <1>3, <2>1, <2>2
<1>9. u # <<>>
  BY <1>3, <1>5
<1>. QED BY <1>2, <1>4, <1>7, <1>8, <1>9 DEF CodeLeft

\* References of what was referred to are looked after next.
LEMMA ReferProgress ==
  ASSUME IInv, Doing("refer"), NEW r \in Seq(Functions \cup Variables),
         job' = [job EXCEPT !.todo = References(r) \o Tail(@)],
         UNCHANGED <<extent, FunctionBlock>>,
         job.phase \in Emitting => buf.begin' = buf.begin /\ (Full => Full')
  PROVE  /\ job' \in [fn : Functions \cup {None}, phase : Phase, todo : Seq(Task)]
         /\ job'.fn = job.fn /\ job'.phase = job.phase
         /\ Progress'
<1>. DEFINE s == job.todo
            u == References(r) \o Tail(s)
<1>1. s # <<>> /\ Next1.op = "refer" /\ job.phase \in Phase
  BY DEF Doing, IInv, TypeOK
<1>3. /\ Len(s) \in Nat \ {0} /\ s \in Seq(Task)
      /\ u \in Seq(Task) /\ Len(u) = Len(r) + (Len(s) - 1) /\ Len(r) \in Nat
      /\ \A i \in 1 .. Len(r) : u[i].op = "refer"
      /\ \A i \in 1 .. Len(s) - 1 : u[Len(r) + i] = s[i + 1]
      /\ \A i \in 1 .. Len(u) : i <= Len(r) \/ \E k \in 1 .. Len(s) - 1 : i = Len(r) + k
  BY <1>1, ReferredTodo
<1>4. /\ job' \in [fn : Functions \cup {None}, phase : Phase, todo : Seq(Task)]
      /\ job'.fn = job.fn /\ job'.phase = job.phase /\ job'.todo = u
  BY <1>3 DEF IInv, TypeOK
<1>5. /\ job.phase \in Emitting \cup {"variable"}
      /\ job.phase = "body" => CodeLeft /\ Len(s) > 1
      /\ job.phase = "table" => OnlyRefers(s) /\ TableWritten
  BY <1>1, FirstTask
<1>. HIDE DEF u, s
<1>7. ASSUME OnlyRefers(s) PROVE OnlyRefers(u)
  <2>1. \A k \in 1 .. Len(s) - 1 : s[k + 1].op = "refer"
    BY <1>3, <1>7 DEF OnlyRefers
  <2>2. \A i \in 1 .. Len(u) : u[i].op = "refer"
    BY SMTT(30), <1>3, <2>1
  <2>. QED BY <1>3, <2>2 DEF OnlyRefers
<1>8. ASSUME CodeLeft, Len(s) > 1 PROVE CodeLeft'
  BY <1>8, CodeStaysLast DEF s
<1>9. CASE job.phase = "body"
  BY <1>4, <1>5, <1>8, <1>9 DEF Progress
<1>10. CASE job.phase = "relocations"
  <2>1. OnlyRefers(s) /\ CodeWritten
    BY <1>10 DEF IInv, Progress, s
  <2>2. CodeWritten'
    BY <1>4, <1>10, <2>1 DEF CodeWritten, Emitting
  <2>. QED BY <1>4, <1>7, <1>10, <2>1, <2>2 DEF Progress
<1>11. CASE job.phase = "table"
  <2>1. TableWritten'
    BY <1>4, <1>5, <1>11 DEF TableWritten, Emitting
  <2>2. CodeWhole(job.fn)'
    BY <1>4, <1>11 DEF IInv, Progress, CodeWhole
  <2>. QED BY <1>4, <1>5, <1>7, <1>11, <2>1, <2>2 DEF Progress
<1>12. CASE job.phase = "variable"
  <2>1. OnlyRefers(s)
    BY <1>12 DEF IInv, Progress, s
  <2>. QED BY <1>4, <1>7, <1>12, <2>1 DEF Progress
<1>. QED BY <1>4, <1>5, <1>9, <1>10, <1>11, <1>12 DEF Emitting

\* So it is when nothing more is referred to.
LEMMA DoneRefers ==
  ASSUME IInv, Doing("refer")
  PROVE  /\ <<>> \in Seq(Functions \cup Variables)
         /\ Done = [job EXCEPT !.todo = References(<<>>) \o Tail(@)]
<1>1. job.todo # <<>> /\ job.todo \in Seq(Task)
  BY DEF Doing, IInv, TypeOK
<1>2. Tail(job.todo) \in Seq(Task)
  BY <1>1, TodoTail
<1>3. References(<<>>) = <<>>
  BY DEF References
<1>4. References(<<>>) \o Tail(job.todo) = Tail(job.todo)
  BY <1>2, <1>3
<1>5. <<>> \in Seq(Functions \cup Variables)
  OBVIOUS
<1>. QED BY <1>4, <1>5 DEF Done

\* A reference is dealt with without disturbing what is being emitted.
LEMMA ReferInv ==
  ASSUME IInv, Doing("refer"), NEW r \in Seq(Functions \cup Variables),
         job' = [job EXCEPT !.todo = References(r) \o Tail(@)],
         UNCHANGED <<engine, SizeEstimate, FunctionBlock, TableBlock, extent, mapped>>,
         buf' \in Buf, saved' \in Buf, address' \in [Variables -> Address], stubs' \subseteq Functions,
         block' \in [Blocks -> [state : {"free", "open", "kept"}, size : Nat]], Open' = Open,
         job.phase \in Emitting =>
           /\ buf'.begin = buf.begin /\ buf'.end = buf.end /\ buf'.cur.block = buf.cur.block
           /\ buf.cur.off <= buf'.cur.off /\ buf'.cur.off <= buf.end.off /\ (Full => Full')
  PROVE  IInv'
<1>1. job.phase \in Emitting \cup {"variable"}
  BY FirstTask DEF Doing
<1>2. /\ job' \in [fn : Functions \cup {None}, phase : Phase, todo : Seq(Task)]
      /\ job'.fn = job.fn /\ job'.phase = job.phase
      /\ Progress'
  <2>1. job.phase \in Emitting => buf.begin' = buf.begin /\ (Full => Full')
    OBVIOUS
  <2>. QED BY <2>1, ReferProgress
<1>3. TypeOK'
  <2>1. job.phase \in Emitting =>
          /\ Open = {buf.begin.block}
          /\ buf.cur.block = buf.begin.block /\ buf.end.block = buf.begin.block
          /\ buf.begin.off <= buf.cur.off /\ buf.cur.off <= buf.end.off
          /\ {buf.begin.off, buf.cur.off, buf'.cur.off} \subseteq Int
    BY ZenonT(40) DEF IInv, TypeOK, Emitting, Open, Buf, Address
  <2>2. job.phase \in Emitting =>
          /\ Open' = {buf'.begin.block}
          /\ buf'.cur.block = buf'.begin.block /\ buf'.end.block = buf'.begin.block
          /\ buf'.begin.off <= buf'.cur.off /\ buf'.cur.off <= buf'.end.off
    BY <2>1
  <2>. QED BY <1>2, <2>2 DEF IInv, TypeOK, Emitting, Open
<1>4. Phases'
  <2>1. job.phase' = job.phase /\ job.fn' = job.fn
    BY <1>2
  <2>2. job.phase \in Emitting => buf.begin' = buf.begin
    OBVIOUS
  <2>. QED BY <1>1, <2>1, <2>2 DEF IInv, Phases, Emitting
<1>5. OthersWhole'
  BY <1>2, OthersStay
<1>. QED BY <1>2, <1>3, <1>4, <1>5 DEF IInv

\* The variable that is referred to, and its initialiser.
LEMMA ReferredVariable ==
  ASSUME Unplaced
  PROVE  /\ Doing("refer") /\ Next1.to \in Variables
         /\ Initializer[Next1.to] \in Seq(Functions \cup Variables) /\ Size[Next1.to] \in Nat \ {0}
BY JITEmitterAssumption DEF Unplaced

LEMMA ReferToFunctionInv == IInv /\ ReferToFunction => IInv'
<1>. SUFFICES ASSUME IInv, ReferToFunction PROVE IInv'
  OBVIOUS
<1>1. /\ Doing("refer") /\ job' = Done
      /\ UNCHANGED <<engine, buf, SizeEstimate, heap, address, extent, mapped>>
      /\ Next1.to \in Functions
  BY DEF ReferToFunction
<1>2. /\ <<>> \in Seq(Functions \cup Variables)
      /\ job' = [job EXCEPT !.todo = References(<<>>) \o Tail(@)]
  BY <1>1, DoneRefers
<1>3. saved' \in Buf /\ stubs' \subseteq Functions
  <2>1. buf \in Buf /\ saved \in Buf /\ stubs \subseteq Functions
    BY DEF IInv, TypeOK
  <2>2. [buf EXCEPT !.begin = Pointer(Stub, 0)] \in Buf
    BY <2>1 DEF Buf, Address, Pointer, Stub
  <2>. QED BY <1>1, <2>1, <2>2 DEF ReferToFunction
<1>4. /\ buf' = buf /\ Open' = Open /\ block' = block /\ address' = address
      /\ UNCHANGED <<engine, SizeEstimate, FunctionBlock, TableBlock, extent, mapped>>
      /\ Full' = Full
  BY <1>1 DEF heap, Open, Full
<1>5. job.phase \in Emitting => buf.cur.off \in Int /\ buf.cur.off <= buf.end.off
  BY DEF IInv, TypeOK, Emitting, Buf, Address
<1>6. /\ buf' \in Buf /\ address' \in [Variables -> Address]
      /\ block' \in [Blocks -> [state : {"free", "open", "kept"}, size : Nat]]
  BY <1>4 DEF IInv, TypeOK
<1>7. job.phase \in Emitting =>
        /\ buf'.begin = buf.begin /\ buf'.end = buf.end /\ buf'.cur.block = buf.cur.block
        /\ buf.cur.off <= buf'.cur.off /\ buf'.cur.off <= buf.end.off /\ (Full => Full')
  BY <1>4, <1>5
<1>. QED BY <1>1, <1>2, <1>3, <1>4, <1>6, <1>7, ReferInv

\* Where the buffer and the blocks stay, only the reference is gone.
LEMMA ReferStays ==
  ASSUME IInv, Doing("refer"), NEW r \in Seq(Functions \cup Variables),
         job' = [job EXCEPT !.todo = References(r) \o Tail(@)],
         UNCHANGED <<engine, buffer, heap, extent, mapped, stubs>>,
         address' \in [Variables -> Address]
  PROVE  IInv'
<1>1. /\ buf' = buf /\ saved' = saved /\ Open' = Open /\ block' = block /\ stubs' = stubs
      /\ UNCHANGED <<engine, SizeEstimate, FunctionBlock, TableBlock, extent, mapped>>
      /\ Full' = Full
  BY DEF heap, buffer, Open, Full
<1>2. /\ buf' \in Buf /\ saved' \in Buf /\ stubs' \subseteq Functions
      /\ block' \in [Blocks -> [state : {"free", "open", "kept"}, size : Nat]]
  BY <1>1 DEF IInv, TypeOK
<1>3. job.phase \in Emitting => buf.cur.off \in Int /\ buf.cur.off <= buf.end.off
  BY DEF IInv, TypeOK, Emitting, Buf, Address
<1>4. job.phase \in Emitting =>
        /\ buf'.begin = buf.begin /\ buf'.end = buf.end /\ buf'.cur.block = buf.cur.block
        /\ buf.cur.off <= buf'.cur.off /\ buf'.cur.off <= buf.end.off /\ (Full => Full')
  BY <1>1, <1>3
<1>. QED BY <1>1, <1>2, <1>4, ReferInv

LEMMA ReferToEmittedInv == IInv /\ ReferToEmitted => IInv'
<1>. SUFFICES ASSUME IInv, ReferToEmitted PROVE IInv'
  OBVIOUS
<1>1. /\ Doing("refer") /\ job' = Done
      /\ UNCHANGED <<engine, buffer, heap, extent, mapped, stubs>> /\ address' = address
  BY DEF ReferToEmitted, names
<1>2. /\ <<>> \in Seq(Functions \cup Variables)
      /\ job' = [job EXCEPT !.todo = References(<<>>) \o Tail(@)]
  BY <1>1, DoneRefers
<1>3. address' \in [Variables -> Address]
  BY <1>1 DEF IInv, TypeOK
<1>. QED BY <1>1, <1>2, <1>3, ReferStays

LEMMA AllocateGlobalInv == IInv /\ AllocateGlobal => IInv'
<1>. SUFFICES ASSUME IInv, AllocateGlobal PROVE IInv'
  OBVIOUS
<1>. DEFINE v == Next1.to
<1>1. /\ Doing("refer") /\ v \in Variables /\ Initializer[v] \in Seq(Functions \cup Variables)
      /\ address' = [address EXCEPT ![v] = Pointer(v, 0)]
      /\ job' = [job EXCEPT !.todo = References(Initializer[v]) \o Tail(@)]
      /\ UNCHANGED <<engine, buffer, heap, extent, mapped, stubs>>
  BY ReferredVariable DEF AllocateGlobal, PlaceVariable
<1>2. address' \in [Variables -> Address]
  <2>1. Pointer(v, 0) \in Address
    BY <1>1 DEF Address, Pointer
  <2>. QED BY <1>1, <2>1 DEF IInv, TypeOK
<1>. QED BY <1>1, <1>2, ReferStays

LEMMA AllocateSpaceInv == IInv /\ AllocateSpace => IInv'
<1>. SUFFICES ASSUME IInv, AllocateSpace PROVE IInv'
  OBVIOUS
<1>. DEFINE v == Next1.to
<1>1. /\ Doing("refer") /\ v \in Variables /\ Initializer[v] \in Seq(Functions \cup Variables)
      /\ Size[v] \in Nat \ {0} /\ buf.begin = Null
      /\ UNCHANGED <<engine, saved, SizeEstimate, FunctionBlock, TableBlock, extent, mapped, stubs>>
  BY ReferredVariable DEF AllocateSpace
<1>2. PICK b \in Blocks : /\ Fresh(b)
                          /\ block' = WithBlock(b, "kept", Size[v])
                          /\ buf' = Buffer(b, Size[v])
                          /\ PlaceVariable(v, Pointer(b, 0))
  BY DEF AllocateSpace
<1>3. job.phase = "variable"
  <2>1. job.phase \in Emitting \cup {"variable"}
    BY <1>1, FirstTask DEF Doing
  <2>2. NoBlock \notin Blocks
    BY JITEmitterAssumption DEF NoBlock, Blocks
  <2>. QED BY <1>1, <2>1, <2>2 DEF IInv, Phases, Null, Pointer
<1>4. /\ address' \in [Variables -> Address] /\ buf' \in Buf
      /\ saved' \in Buf /\ stubs' \subseteq Functions
      /\ job' = [job EXCEPT !.todo = References(Initializer[v]) \o Tail(@)]
  <2>1. Pointer(b, 0) \in Address /\ Pointer(b, Size[v]) \in Address
    BY <1>1 DEF Address, Pointer
  <2>. QED BY <1>1, <1>2, <2>1 DEF IInv, TypeOK, PlaceVariable, Buffer, Buf
<1>5. /\ block' \in [Blocks -> [state : {"free", "open", "kept"}, size : Nat]]
      /\ Open' = Open
  BY <1>1, <1>2 DEF IInv, TypeOK, WithBlock, Open, Fresh
<1>6. job.phase \notin Emitting
  BY <1>3 DEF Emitting
<1>. QED BY <1>1, <1>4, <1>5, <1>6, ReferInv

\* What the buffer is like while something is written to it.
LEMMA BufferOrder ==
  ASSUME IInv, job.phase \in Emitting
  PROVE  /\ buf.begin.block \in Blocks /\ buf.begin.off = 0
         /\ buf.cur.block = buf.begin.block /\ buf.end.block = buf.begin.block
         /\ {buf.cur.off, buf.end.off} \subseteq Nat /\ buf.cur.off <= buf.end.off
         /\ (Full <=> buf.cur.off = buf.end.off)
         /\ buf \in Buf /\ buf.cur \in Address /\ buf.end \in Address
<1>1. /\ buf.cur.block = buf.begin.block /\ buf.end.block = buf.begin.block
      /\ buf.begin.block \in Blocks /\ buf.begin.off = 0
      /\ buf \in Buf /\ buf.cur \in Address /\ buf.end \in Address
  BY DEF IInv, TypeOK, Phases, Buf, Emitting
<1>2. /\ buf.begin.off <= buf.cur.off /\ buf.cur.off <= buf.end.off
      /\ buf.cur.off \in Int /\ buf.end.off \in Int
  BY <1>1 DEF IInv, TypeOK, Emitting, Address
<1>3. {buf.cur.off, buf.end.off} \subseteq Nat /\ buf.cur.off <= buf.end.off
  BY <1>1, <1>2
<1>4. Full <=> buf.cur.off = buf.end.off
  BY <1>1 DEF Full, Address
<1>. QED BY <1>1, <1>3, <1>4

\* The buffer while a variable is placed in it.
LEMMA AllocateInBufferInv == IInv /\ AllocateInBuffer => IInv'
<1>. SUFFICES ASSUME IInv, AllocateInBuffer PROVE IInv'
  OBVIOUS
<1>. DEFINE v == Next1.to
<1>1. /\ Doing("refer") /\ v \in Variables /\ Initializer[v] \in Seq(Functions \cup Variables)
      /\ Size[v] \in Nat \ {0} /\ Size[v] < buf.end.off - buf.cur.off
      /\ address' = [address EXCEPT ![v] = buf.cur]
      /\ job' = [job EXCEPT !.todo = References(Initializer[v]) \o Tail(@)]
      /\ buf' = [buf EXCEPT !.cur.off = @ + Size[v]]
      /\ UNCHANGED <<engine, saved, SizeEstimate, heap, extent, mapped, stubs>>
  BY ReferredVariable DEF AllocateInBuffer, PlaceVariable, Room
<1>2. /\ buf \in Buf /\ buf.cur \in Address /\ buf.cur.off \in Int
      /\ saved' \in Buf /\ stubs' \subseteq Functions
      /\ address' \in [Variables -> Address]
  BY <1>1 DEF IInv, TypeOK, Buf, Address
<1>3. /\ buf' \in Buf /\ buf'.begin = buf.begin /\ buf'.end = buf.end
      /\ buf'.cur.block = buf.cur.block /\ buf'.cur.off = buf.cur.off + Size[v]
  <2>1. buf = [begin |-> buf.begin, end |-> buf.end, cur |-> buf.cur]
    BY <1>2 DEF Buf
  <2>2. buf.cur = [block |-> buf.cur.block, off |-> buf.cur.off]
    BY <1>2 DEF Address
  <2>3. buf' = [begin |-> buf.begin, end |-> buf.end,
                cur |-> [block |-> buf.cur.block, off |-> buf.cur.off + Size[v]]]
    BY <1>1, <2>1, <2>2
  <2>4. buf.cur.off + Size[v] \in Int
    BY <1>1, <1>2
  <2>. QED BY <1>2, <2>3, <2>4 DEF Buf, Address
<1>4. job.phase \in Emitting =>
        buf.cur.off <= buf'.cur.off /\ buf'.cur.off <= buf.end.off /\ ~Full
  <2>. SUFFICES ASSUME job.phase \in Emitting
                PROVE  buf.cur.off <= buf'.cur.off /\ buf'.cur.off <= buf.end.off /\ ~Full
    OBVIOUS
  <2>1. buf.cur.off \in Nat /\ buf.end.off \in Nat /\ (Full => buf.cur.off = buf.end.off)
    BY BufferOrder
  <2>2. buf.cur.off <= buf'.cur.off /\ buf'.cur.off <= buf.end.off
    BY <1>1, <1>3, <2>1
  <2>3. buf.cur.off # buf.end.off
    BY <1>1, <2>1
  <2>. QED BY <2>1, <2>2, <2>3
<1>5. /\ Open' = Open /\ block' \in [Blocks -> [state : {"free", "open", "kept"}, size : Nat]]
      /\ UNCHANGED <<engine, SizeEstimate, FunctionBlock, TableBlock, extent, mapped>>
  BY <1>1 DEF IInv, TypeOK, heap, Open
<1>. QED BY <1>1, <1>2, <1>3, <1>4, <1>5, ReferInv


\* A crash loses nothing that was emitted.
LEMMA CrashInv ==
  ASSUME IInv, job' = [job EXCEPT !.phase = "crashed", !.todo = <<>>], buf' \in Buf,
         UNCHANGED <<engine, saved, SizeEstimate, block, FunctionBlock, TableBlock, address, extent, mapped, stubs>>
  PROVE  IInv'
<1>1. /\ job' \in [fn : Functions \cup {None}, phase : Phase, todo : Seq(Task)]
      /\ job'.fn = job.fn /\ job'.phase = "crashed" /\ job'.todo = <<>>
  <2>1. <<>> \in Seq(Task) /\ "crashed" \in Phase
    BY DEF Phase
  <2>. QED BY <2>1 DEF IInv, TypeOK
<1>2. TypeOK'
  BY <1>1 DEF IInv, TypeOK
<1>3. Phases' /\ Progress'
  <2>1. job.phase' = "crashed" /\ job.todo' = <<>>
    BY <1>1
  <2>. QED BY <2>1 DEF Phases, Progress, Emitting
<1>4. OthersWhole'
  BY <1>1, OthersStay
<1>. QED BY <1>2, <1>3, <1>4 DEF IInv

\* A variable that has no room, and nothing to write: its task is over.
LEMMA AllocateNothingInv == IInv /\ AllocateNothing => IInv'
<1>. SUFFICES ASSUME IInv, AllocateNothing PROVE IInv'
  OBVIOUS
<1>1. /\ Doing("refer")
      /\ buf' = [buf EXCEPT !.cur = buf.end]
      /\ UNCHANGED <<engine, saved, SizeEstimate, heap, names>>
      /\ \/ job' = Done
         \/ job' = [job EXCEPT !.phase = "crashed", !.todo = <<>>]
  BY DEF AllocateNothing, Unplaced
<1>2. /\ buf \in Buf /\ buf' \in Buf /\ buf'.begin = buf.begin /\ buf'.end = buf.end /\ buf'.cur = buf.end
  BY <1>1 DEF IInv, TypeOK, Buf
<1>3. /\ Open' = Open /\ block' = block /\ address' = address
      /\ UNCHANGED <<engine, SizeEstimate, FunctionBlock, TableBlock, extent, mapped, stubs, saved>>
  BY <1>1 DEF heap, names, Open
<1>4. CASE job' = Done
  <2>1. /\ <<>> \in Seq(Functions \cup Variables)
        /\ job' = [job EXCEPT !.todo = References(<<>>) \o Tail(@)]
    BY <1>1, <1>4, DoneRefers
  <2>2. job.phase \in Emitting =>
        /\ buf'.begin = buf.begin /\ buf'.end = buf.end /\ buf'.cur.block = buf.cur.block
        /\ buf.cur.off <= buf'.cur.off /\ buf'.cur.off <= buf.end.off /\ (Full => Full')
    BY <1>2, BufferOrder DEF Full
  <2>3. /\ saved' \in Buf /\ address' \in [Variables -> Address] /\ stubs' \subseteq Functions
        /\ block' \in [Blocks -> [state : {"free", "open", "kept"}, size : Nat]]
    BY <1>3 DEF IInv, TypeOK
  <2>. QED BY <1>1, <1>2, <1>3, <2>1, <2>2, <2>3, ReferInv
<1>5. CASE job' = [job EXCEPT !.phase = "crashed", !.todo = <<>>]
  BY <1>2, <1>3, <1>5, CrashInv
<1>. QED BY <1>1, <1>4, <1>5

LEMMA AllocateWildInv == IInv /\ AllocateWild => IInv'
<1>. SUFFICES ASSUME IInv, AllocateWild PROVE IInv'
  OBVIOUS
<1>1. /\ job' = [job EXCEPT !.phase = "crashed", !.todo = <<>>]
      /\ UNCHANGED <<engine, buffer, heap, names>>
  BY DEF AllocateWild
<1>2. /\ buf' \in Buf /\ block' = block /\ address' = address
      /\ UNCHANGED <<engine, SizeEstimate, FunctionBlock, TableBlock, extent, mapped, stubs, saved>>
  BY <1>1 DEF IInv, TypeOK, buffer, heap, names
<1>. QED BY <1>1, <1>2, CrashInv

-----------------------------------------------------------------------------
LEMMA EmitConstantPoolInv == IInv /\ EmitConstantPool => IInv'
<1>. SUFFICES ASSUME IInv, EmitConstantPool PROVE IInv'
  OBVIOUS
<1>. DEFINE s == job.todo
<1>1. /\ s # <<>> /\ Next1.op = "pool"
      /\ UNCHANGED <<engine, saved, SizeEstimate, heap, names>>
  BY DEF EmitConstantPool, Doing
<1>2. /\ job.phase = "body" /\ CodeLeft /\ Len(s) > 1 /\ Next1 \in Task /\ job.fn \in Functions
  BY <1>1, FirstTask DEF IInv, Phases, Emitting
<1>3. job.phase \in Emitting
  BY <1>2 DEF Emitting
<1>4. PICK r \in Seq(Functions \cup Variables) : job' = [job EXCEPT !.todo = References(r) \o Tail(@)]
  <2>1. CASE job' = Done
    <3>1. s \in Seq(Task) /\ References(<<>>) = <<>>
      BY DEF IInv, TypeOK, References
    <3>2. Tail(s) \in Seq(Task)
      BY <1>1, <3>1, TodoTail
    <3>3. References(<<>>) \o Tail(s) = Tail(s)
      BY <3>1, <3>2
    <3>4. <<>> \in Seq(Functions \cup Variables)
      OBVIOUS
    <3>. QED BY <2>1, <3>3, <3>4 DEF Done
  <2>2. CASE job' = [job EXCEPT !.todo = References(ConstantRefs[job.fn]) \o Tail(@)]
    <3>1. ConstantRefs[job.fn] \in Seq(Functions \cup Variables)
      BY <1>2, JITEmitterAssumption
    <3>. QED BY <2>2, <3>1
  <2>. QED BY <2>1, <2>2 DEF EmitConstantPool
<1>5. /\ buf' \in Buf /\ buf'.begin = buf.begin /\ buf'.end = buf.end /\ buf'.cur.block = buf.cur.block
      /\ buf.cur.off <= buf'.cur.off /\ buf'.cur.off <= buf.end.off
  <2>0. /\ buf = [begin |-> buf.begin, end |-> buf.end, cur |-> buf.cur]
        /\ buf.cur = [block |-> buf.cur.block, off |-> buf.cur.off]
        /\ {buf.begin, buf.end, buf.cur} \subseteq Address
        /\ {buf.cur.off, buf.end.off} \subseteq Nat /\ buf.cur.off <= buf.end.off
        /\ buf.end.block = buf.cur.block
    BY <1>3, BufferOrder DEF Buf, Address
  <2>1. CASE buf' = [buf EXCEPT !.cur = buf.end]
    BY <2>0, <2>1 DEF Buf
  <2>2. CASE /\ Next1.words < Room
             /\ buf' = [buf EXCEPT !.cur.off = @ + Next1.words]
    <3>1. buf' = [begin |-> buf.begin, end |-> buf.end,
                  cur |-> [block |-> buf.cur.block, off |-> buf.cur.off + Next1.words]]
      BY <2>0, <2>2
    <3>2. /\ Next1.words \in Nat /\ buf.cur.off + Next1.words \in Int
          /\ buf.cur.off <= buf.cur.off + Next1.words /\ buf.cur.off + Next1.words <= buf.end.off
      BY <1>2, <2>0, <2>2 DEF Task, Room
    <3>. QED BY <2>0, <3>1, <3>2 DEF Buf, Address
  <2>. QED BY <2>1, <2>2 DEF EmitConstantPool
<1>6. /\ job' \in [fn : Functions \cup {None}, phase : Phase, todo : Seq(Task)]
      /\ job'.fn = job.fn /\ job'.phase = job.phase /\ CodeLeft'
  BY <1>1, <1>2, <1>4, CodeStaysLast
<1>7. /\ UNCHANGED <<engine, SizeEstimate, FunctionBlock, TableBlock, extent, mapped, stubs, saved, block, address>>
      /\ Open' = Open
  BY <1>1 DEF heap, names, Open
<1>8. TypeOK'
  <2>1. /\ Open = {buf.begin.block} /\ buf.cur.block = buf.begin.block /\ buf.end.block = buf.begin.block
        /\ buf.begin.off <= buf.cur.off /\ {buf.begin.off, buf.cur.off, buf'.cur.off} \subseteq Int
    BY <1>3, <1>5 DEF IInv, TypeOK, Emitting, Open, Buf, Address
  <2>2. /\ Open' = {buf'.begin.block} /\ buf'.cur.block = buf'.begin.block /\ buf'.end.block = buf'.begin.block
        /\ buf'.begin.off <= buf'.cur.off /\ buf'.cur.off <= buf'.end.off
    BY <1>5, <1>7, <2>1
  <2>. QED BY <1>5, <1>6, <1>7, <2>2 DEF IInv, TypeOK, Open
<1>9. Phases' /\ Progress'
  <2>1. job.phase' = "body" /\ job.fn' = job.fn
    BY <1>2, <1>6
  <2>2. buf.begin' = buf.begin
    BY <1>5
  <2>. QED BY <1>2, <1>3, <1>6, <2>1, <2>2 DEF IInv, Phases, Progress, Emitting
<1>10. OthersWhole'
  BY <1>6, <1>7, OthersStay
<1>. QED BY <1>8, <1>9, <1>10 DEF IInv

LEMMA EmitWordsInv == IInv /\ EmitWords => IInv'
<1>. SUFFICES ASSUME IInv, EmitWords PROVE IInv'
  OBVIOUS
<1>. DEFINE s == job.todo
            fn == job.fn
            e == [block |-> buf.cur.block, from |-> buf.cur.off, to |-> Emitted]
<1>1. /\ s # <<>> /\ Next1.op \in {"code", "table"}
      /\ buf' = [buf EXCEPT !.cur.off = Emitted]
      /\ extent' = [extent EXCEPT ![fn][Next1.op] = e]
      /\ mapped' = mapped \cup {fn}
      /\ job' = Done
      /\ UNCHANGED <<engine, saved, SizeEstimate, FunctionBlock, TableBlock, block, address, stubs>>
  BY DEF EmitWords, Doing, heap
<1>2. /\ job.phase \in {"body", "table"} /\ Next1 \in Task
      /\ Next1.op = "code" => job.phase = "body" /\ Len(s) = 1 /\ Next1.words = Code[fn]
      /\ Next1.op = "table" => job.phase = "table" /\ TableLeft /\ Next1.words = Table[fn]
  BY <1>1, FirstTask
<1>3. job.phase \in Emitting /\ fn \in Functions
  BY <1>2 DEF IInv, Phases, Emitting
<1>4. /\ buf = [begin |-> buf.begin, end |-> buf.end, cur |-> buf.cur]
      /\ buf.cur = [block |-> buf.cur.block, off |-> buf.cur.off]
      /\ {buf.begin, buf.end, buf.cur} \subseteq Address
      /\ {buf.cur.off, buf.end.off} \subseteq Nat /\ buf.cur.off <= buf.end.off
      /\ buf.end.block = buf.cur.block /\ buf.cur.block = buf.begin.block
      /\ buf.begin.block \in Blocks /\ buf.begin.off = 0
  BY <1>3, BufferOrder DEF Buf, Address
<1>5. /\ Emitted \in Nat /\ buf.cur.off <= Emitted /\ Emitted <= buf.end.off
      /\ Emitted = buf.end.off \/ Emitted - buf.cur.off = Next1.words
  BY <1>2, <1>4 DEF Emitted, Room, Task
<1>6. /\ buf' \in Buf /\ buf'.begin = buf.begin /\ buf'.end = buf.end
      /\ buf'.cur = [block |-> buf.cur.block, off |-> Emitted]
  <2>1. buf' = [begin |-> buf.begin, end |-> buf.end, cur |-> [block |-> buf.cur.block, off |-> Emitted]]
    BY <1>1, <1>4
  <2>. QED BY <1>4, <1>5, <2>1 DEF Buf, Address
<1>7. /\ s \in Seq(Task) /\ Tail(s) \in Seq(Task) /\ Len(s) \in Nat /\ Len(Tail(s)) = Len(s) - 1
      /\ \A i \in 1 .. Len(s) - 1 : Tail(s)[i] = s[i + 1]
  <2>1. s \in Seq(Task)
    BY DEF IInv, TypeOK
  <2>. QED BY <1>1, <2>1, TodoTail
<1>8. /\ job' \in [fn : Functions \cup {None}, phase : Phase, todo : Seq(Task)]
      /\ job'.fn = fn /\ job'.phase = job.phase /\ job'.todo = Tail(s)
  BY <1>1, <1>7 DEF IInv, TypeOK, Done
<1>9. /\ extent' \in [Functions -> [code : Extent, table : Extent]]
      /\ \A f \in Functions \ {fn} : extent'[f] = extent[f]
      /\ Next1.op = "code" => extent'[fn].code = e
      /\ Next1.op = "table" => extent'[fn].table = e /\ extent'[fn].code = extent[fn].code
  <2>1. e \in Extent
    BY <1>4, <1>5 DEF Extent
  <2>2. extent \in [Functions -> [code : Extent, table : Extent]]
    BY DEF IInv, TypeOK
  <2>. HIDE DEF e, fn
  <2>3. CASE Next1.op = "code"
    BY <1>1, <1>3, <2>1, <2>2, <2>3
  <2>4. CASE Next1.op = "table"
    BY <1>1, <1>3, <2>1, <2>2, <2>4
  <2>. QED BY <1>1, <2>3, <2>4
<1>10. TypeOK'
  <2>1. Open = {buf.begin.block}
    BY <1>3 DEF IInv, TypeOK, Emitting, Open
  <2>2. Open' = {buf'.begin.block} /\ buf'.cur.block = buf'.begin.block /\ buf'.end.block = buf'.begin.block
        /\ buf'.begin.off <= buf'.cur.off /\ buf'.cur.off <= buf'.end.off
    BY <1>1, <1>4, <1>5, <1>6, <2>1 DEF Open
  <2>3. mapped' \subseteq Functions
    BY <1>1, <1>3 DEF IInv, TypeOK
  <2>. QED BY <1>1, <1>6, <1>8, <1>9, <2>2, <2>3 DEF IInv, TypeOK, Open
<1>11. Phases'
  <2>1. job.phase' = job.phase /\ job.fn' = fn /\ buf.begin' = buf.begin
    BY <1>6, <1>8
  <2>. QED BY <1>1, <1>2, <1>3, <2>1 DEF IInv, Phases, Emitting
<1>12. Progress'
  <2>1. CASE Next1.op = "code"
    <3>1. job.phase' = "body" /\ job.fn' = fn /\ job'.todo = <<>>
      BY <1>2, <1>7, <1>8, <2>1
    <3>2. CodeWritten'
      <4>1. e.block = buf'.begin.block /\ extent'[fn].code = e
        BY <1>4, <1>6, <1>9, <2>1
      <4>2. CASE Emitted = buf.end.off
        <5>1. Full'
          BY <1>4, <1>6, <4>2 DEF Full, Address
        <5>. QED BY <3>1, <4>1, <5>1 DEF CodeWritten
      <4>3. CASE Emitted - buf.cur.off = Next1.words
        <5>1. e.to - e.from = Code[fn]
          BY <1>2, <2>1, <4>3
        <5>. QED BY <3>1, <4>1, <5>1 DEF CodeWritten
      <4>. QED BY <1>5, <4>2, <4>3
    <3>. QED BY <3>1, <3>2 DEF Progress
  <2>2. CASE Next1.op = "table"
    <3>1. job.phase' = "table" /\ job.fn' = fn /\ job'.todo = Tail(s)
      BY <1>2, <1>8, <2>2
    <3>2. OnlyRefers(Tail(s))
      <4>1. \A i \in 2 .. Len(s) : s[i].op = "refer"
        BY <1>2, <2>2 DEF TableLeft
      <4>2. \A i \in 1 .. Len(s) - 1 : i + 1 \in 2 .. Len(s)
        BY <1>7
      <4>. QED BY <1>7, <4>1, <4>2 DEF OnlyRefers
    <3>3. TableWritten'
      <4>1. e.block = buf'.begin.block /\ extent'[fn].table = e
        BY <1>4, <1>6, <1>9, <2>2
      <4>2. TablesFit => e.to - e.from = Table[fn]
        <5>. SUFFICES ASSUME TablesFit PROVE e.to - e.from = Table[fn]
          OBVIOUS
        <5>1. Next1.words = Table[fn] /\ buf.cur.off = 0 /\ Table[fn] <= buf.end.off
          BY <1>2, <2>2 DEF TableLeft
        <5>2. Next1.words \in Nat /\ Next1.words <= Room
          BY <1>2, <1>4, <5>1 DEF Task, Room
        <5>. QED BY <1>4, <5>1, <5>2 DEF Emitted
      <4>. QED BY <3>1, <4>1, <4>2 DEF TableWritten
    <3>4. CodeWhole(fn)'
      BY <1>1, <1>2, <1>8, <1>9, <2>2 DEF IInv, Progress, CodeWhole
    <3>. QED BY <3>1, <3>2, <3>3, <3>4 DEF Progress
  <2>. QED BY <1>1, <2>1, <2>2
<1>13. OthersWhole'
  <2>1. job.fn' = job.fn /\ mapped' \subseteq mapped \cup {job.fn}
        /\ UNCHANGED <<engine, FunctionBlock, TableBlock>>
        /\ \A f \in Functions \ {job.fn} : extent'[f] = extent[f]
    BY <1>1, <1>8, <1>9
  <2>. QED BY <2>1, OthersStay
<1>. QED BY <1>10, <1>11, <1>12, <1>13 DEF IInv

\* References on their own.
LEMMA OnlyReferences ==
  ASSUME NEW r \in Seq(Functions \cup Variables)
  PROVE  References(r) \in Seq(Task) /\ OnlyRefers(References(r))
<1>1. \A i \in 1 .. Len(r) : References(r)[i] \in Task /\ References(r)[i].op = "refer"
  BY DEF References, Refer, Task
<1>2. DOMAIN References(r) = 1 .. Len(r)
  BY DEF References
<1>. QED BY <1>1, <1>2 DEF References, OnlyRefers

-----------------------------------------------------------------------------
\* The body is handed to the memory manager.
LEMMA EndBody ==
  ASSUME IInv, job.phase \in {"body", "relocations"}, EndFunctionBody,
         UNCHANGED <<engine, TableBlock, extent, mapped>>
  PROVE  /\ Open' = {}
         /\ block' \in [Blocks -> [state : {"free", "open", "kept"}, size : Nat]]
         /\ FunctionBlock' \in [Functions -> Blocks \cup {NoBlock}]
         /\ job.fn \in Functions
         /\ FunctionBlock'[job.fn] = buf.begin.block /\ buf.begin.block # NoBlock
         /\ \A f \in mapped \ {job.fn} :
              CodeWhole(f)' /\ (engine.DwarfExceptionHandling => TableWhole(f)')
<1>1. job.phase \in Emitting /\ job.fn \in Functions
  BY DEF IInv, Phases, Emitting
<1>2. /\ buf.begin.block \in Blocks /\ buf.cur.off \in Nat
      /\ Open = {buf.begin.block}
  BY <1>1, BufferOrder DEF IInv, TypeOK, Emitting, Open
<1>3. /\ block' = [block EXCEPT ![buf.begin.block] = [state |-> "kept", size |-> buf.cur.off]]
      /\ FunctionBlock' = [FunctionBlock EXCEPT ![job.fn] = buf.begin.block]
  BY DEF EndFunctionBody, WithBlock
<1>4. /\ Open' = {} /\ block' \in [Blocks -> [state : {"free", "open", "kept"}, size : Nat]]
  BY <1>2, <1>3 DEF IInv, TypeOK, Open
<1>5. buf.begin.block # NoBlock
  BY <1>2, JITEmitterAssumption DEF Blocks, NoBlock
<1>6. FunctionBlock' \in [Functions -> Blocks \cup {NoBlock}] /\ FunctionBlock'[job.fn] = buf.begin.block
  BY <1>1, <1>2, <1>3 DEF IInv, TypeOK
<1>7. ASSUME NEW f \in mapped \ {job.fn}
      PROVE  CodeWhole(f)' /\ (engine.DwarfExceptionHandling => TableWhole(f)')
  <2>1. f \in Functions /\ FunctionBlock'[f] = FunctionBlock[f]
    BY <1>3, <1>7 DEF IInv, TypeOK
  <2>. QED BY <1>7, <2>1 DEF IInv, OthersWhole, CodeWhole, TableWhole
<1>. QED BY <1>1, <1>4, <1>5, <1>6, <1>7

LEMMA FinishOverflownInv == IInv /\ FinishOverflown => IInv'
<1>. SUFFICES ASSUME IInv, FinishOverflown PROVE IInv'
  OBVIOUS
<1>1. /\ job.phase = "body" /\ job.todo = <<>> /\ EndFunctionBody
      /\ job' = [job EXCEPT !.phase = "retry"]
      /\ UNCHANGED <<engine, buf, saved, SizeEstimate, TableBlock, address, extent, mapped, stubs>>
  BY DEF FinishOverflown, buffer, names
<1>2. /\ Open' = {}
      /\ block' \in [Blocks -> [state : {"free", "open", "kept"}, size : Nat]]
      /\ FunctionBlock' \in [Functions -> Blocks \cup {NoBlock}]
      /\ job.fn \in Functions
      /\ \A f \in mapped \ {job.fn} :
           CodeWhole(f)' /\ (engine.DwarfExceptionHandling => TableWhole(f)')
  BY <1>1, EndBody
<1>3. /\ job' \in [fn : Functions \cup {None}, phase : Phase, todo : Seq(Task)]
      /\ job.fn' = job.fn /\ job.phase' = "retry" /\ job.todo' = <<>>
  BY <1>1 DEF IInv, TypeOK, Phase
<1>4. buf.begin.off <= buf.end.off
  BY <1>1, BufferOrder DEF Emitting
<1>5. TypeOK'
  BY <1>1, <1>2, <1>3 DEF IInv, TypeOK
<1>6. Phases' /\ Progress'
  BY <1>1, <1>2, <1>3, <1>4 DEF Phases, Progress, Emitting
<1>7. OthersWhole'
  BY <1>1, <1>2, <1>3 DEF OthersWhole
<1>. QED BY <1>5, <1>6, <1>7 DEF IInv

LEMMA ResolveRelocationsInv == IInv /\ ResolveRelocations => IInv'
<1>. SUFFICES ASSUME IInv, ResolveRelocations PROVE IInv'
  OBVIOUS
<1>. DEFINE u == References(Relocations[job.fn])
<1>1. /\ job.phase = "body" /\ job.todo = <<>>
      /\ job' = [job EXCEPT !.phase = "relocations", !.todo = u]
      /\ UNCHANGED <<engine, buf, saved, SizeEstimate, block, FunctionBlock, TableBlock,
                     address, extent, mapped, stubs>>
  BY DEF ResolveRelocations, buffer, heap, names
<1>2. job.fn \in Functions /\ CodeWritten
  BY <1>1 DEF IInv, Phases, Progress, CodeLeft, Emitting
<1>3. u \in Seq(Task) /\ OnlyRefers(u)
  <2>1. Relocations[job.fn] \in Seq(Functions \cup Variables)
    BY <1>2, JITEmitterAssumption
  <2>. QED BY <2>1, OnlyReferences
<1>. HIDE DEF u
<1>4. /\ job' \in [fn : Functions \cup {None}, phase : Phase, todo : Seq(Task)]
      /\ job.fn' = job.fn /\ job.phase' = "relocations" /\ job.todo' = u
  BY <1>1, <1>3 DEF IInv, TypeOK, Phase
<1>5. TypeOK'
  BY <1>1, <1>4 DEF IInv, TypeOK
<1>6. Phases'
  BY <1>1, <1>2, <1>4 DEF IInv, Phases, Emitting
<1>7. Progress'
  <2>1. CodeWritten'
    BY <1>1, <1>2, <1>4 DEF CodeWritten, Full
  <2>. QED BY <1>3, <1>4, <2>1 DEF Progress
<1>8. OthersWhole'
  <2>1. job.fn' = job.fn
    BY <1>4
  <2>. QED BY <1>1, <2>1, OthersStay
<1>. QED BY <1>5, <1>6, <1>7, <1>8 DEF IInv

LEMMA FinishFunctionInv == IInv /\ FinishFunction => IInv'
<1>. SUFFICES ASSUME IInv, FinishFunction PROVE IInv'
  OBVIOUS
<1>1. /\ job.phase = "relocations" /\ job.todo = <<>> /\ EndFunctionBody
      /\ UNCHANGED <<engine, saved, TableBlock, address, extent, mapped, stubs>>
  BY DEF FinishFunction, names
<1>2. /\ Open' = {}
      /\ block' \in [Blocks -> [state : {"free", "open", "kept"}, size : Nat]]
      /\ FunctionBlock' \in [Functions -> Blocks \cup {NoBlock}]
      /\ job.fn \in Functions
      /\ FunctionBlock'[job.fn] = buf.begin.block /\ buf.begin.block # NoBlock
      /\ \A f \in mapped \ {job.fn} :
           CodeWhole(f)' /\ (engine.DwarfExceptionHandling => TableWhole(f)')
  BY <1>1, EndBody
<1>3. CodeWritten /\ buf.begin.off <= buf.end.off /\ buf \in Buf
  BY <1>1, BufferOrder DEF Emitting, IInv, Progress
<1>4. CASE Full
  <2>1. job' = [job EXCEPT !.phase = "retry"] /\ buf' = buf /\ SizeEstimate' = SizeEstimate
    BY <1>4 DEF FinishFunction
  <2>2. /\ job' \in [fn : Functions \cup {None}, phase : Phase, todo : Seq(Task)]
        /\ job.fn' = job.fn /\ job.phase' = "retry" /\ job.todo' = <<>>
    BY <1>1, <2>1 DEF IInv, TypeOK, Phase
  <2>3. TypeOK'
    BY <1>1, <1>2, <2>1, <2>2 DEF IInv, TypeOK
  <2>4. Phases' /\ Progress'
    BY <1>1, <1>2, <1>3, <2>1, <2>2 DEF Phases, Progress, Emitting
  <2>5. OthersWhole'
    BY <1>1, <1>2, <2>2 DEF OthersWhole
  <2>. QED BY <2>3, <2>4, <2>5 DEF IInv
<1>5. CASE ~Full
  <2>1. /\ buf' = [buf EXCEPT !.begin = Null, !.cur = Null] /\ SizeEstimate' = 0
        /\ job' = IF engine.DwarfExceptionHandling THEN [job EXCEPT !.phase = "finished"] ELSE Idle
    BY <1>5 DEF FinishFunction
  <2>2. buf' \in Buf
    <3>1. Null \in Address
      BY DEF Null, Pointer, Address
    <3>. QED BY <1>3, <2>1, <3>1 DEF Buf
  <2>3. /\ FunctionBlock'[job.fn] # NoBlock /\ extent'[job.fn].code.block = FunctionBlock'[job.fn]
        /\ extent'[job.fn].code.to - extent'[job.fn].code.from = Code[job.fn]
    BY <1>1, <1>2, <1>3, <1>5 DEF CodeWritten
  <2>4. CASE engine.DwarfExceptionHandling
    <3>1. /\ job' \in [fn : Functions \cup {None}, phase : Phase, todo : Seq(Task)]
          /\ job.fn' = job.fn /\ job.phase' = "finished" /\ job.todo' = <<>>
      BY <1>1, <2>1, <2>4 DEF IInv, TypeOK, Phase
    <3>2. TypeOK'
      BY <1>1, <1>2, <2>1, <2>2, <3>1 DEF IInv, TypeOK
    <3>3. Phases'
      BY <1>1, <1>2, <2>4, <3>1 DEF Phases, Emitting
    <3>4. Progress'
      <4>1. CodeWhole(job.fn)'
        BY <2>3, <3>1 DEF CodeWhole
      <4>. QED BY <3>1, <4>1 DEF Progress
    <3>5. OthersWhole'
      BY <1>1, <1>2, <3>1 DEF OthersWhole
    <3>. QED BY <3>2, <3>3, <3>4, <3>5 DEF IInv
  <2>5. CASE ~engine.DwarfExceptionHandling
    <3>1. /\ job' \in [fn : Functions \cup {None}, phase : Phase, todo : Seq(Task)]
          /\ job.fn' = None /\ job.phase' = "idle" /\ job.todo' = <<>>
      BY <2>1, <2>5 DEF Phase, Idle
    <3>2. TypeOK'
      BY <1>1, <1>2, <2>1, <2>2, <3>1 DEF IInv, TypeOK
    <3>3. Phases' /\ Progress'
      BY <1>1, <1>2, <3>1 DEF Phases, Progress, Emitting
    <3>4. OthersWhole'
      <4>1. ASSUME NEW f \in mapped PROVE CodeWhole(f)'
        BY <1>2, <2>3, <4>1 DEF CodeWhole
      <4>. QED BY <1>1, <2>5, <4>1 DEF OthersWhole
    <3>. QED BY <3>2, <3>3, <3>4 DEF IInv
  <2>. QED BY <2>4, <2>5
<1>. QED BY <1>4, <1>5

\* The memory of a function, and of no other, goes back.
LEMMA Deallocated ==
  ASSUME IInv, NEW f \in Functions, DeallocateMemForFunction(f), Open = {}
  PROVE  /\ Open' = {}
         /\ block' \in [Blocks -> [state : {"free", "open", "kept"}, size : Nat]]
         /\ {FunctionBlock', TableBlock'} \subseteq [Functions -> Blocks \cup {NoBlock}]
         /\ extent' \in [Functions -> [code : Extent, table : Extent]]
         /\ \A g \in Functions \ {f} :
              /\ FunctionBlock'[g] = FunctionBlock[g] /\ TableBlock'[g] = TableBlock[g]
              /\ extent'[g] = extent[g]
<1>1. /\ block \in [Blocks -> [state : {"free", "open", "kept"}, size : Nat]]
      /\ {FunctionBlock, TableBlock} \subseteq [Functions -> Blocks \cup {NoBlock}]
      /\ extent \in [Functions -> [code : Extent, table : Extent]]
  BY DEF IInv, TypeOK
<1>2. Open' = {} /\ block' \in [Blocks -> [state : {"free", "open", "kept"}, size : Nat]]
  BY <1>1 DEF DeallocateMemForFunction, FreeBlocks, Open
<1>3. {FunctionBlock', TableBlock'} \subseteq [Functions -> Blocks \cup {NoBlock}]
  BY <1>1 DEF DeallocateMemForFunction
<1>4. extent' \in [Functions -> [code : Extent, table : Extent]]
  <2>1. NoExtent \in Extent
    BY DEF NoExtent, Extent
  <2>. QED BY <1>1, <2>1 DEF DeallocateMemForFunction
<1>5. ASSUME NEW g \in Functions \ {f}
      PROVE  /\ FunctionBlock'[g] = FunctionBlock[g] /\ TableBlock'[g] = TableBlock[g]
             /\ extent'[g] = extent[g]
  BY <1>1, <1>5 DEF DeallocateMemForFunction
<1>. QED BY <1>2, <1>3, <1>4, <1>5

LEMMA RetryInv == IInv /\ RetryWithMoreMemory => IInv'
<1>. SUFFICES ASSUME IInv, RetryWithMoreMemory PROVE IInv'
  OBVIOUS
<1>1. /\ job.phase = "retry" /\ DeallocateMemForFunction(job.fn)
      /\ SizeEstimate' = 2 * (buf.end.off - buf.begin.off)
      /\ job' = [job EXCEPT !.phase = "again"]
      /\ UNCHANGED <<engine, buf, saved, address, mapped, stubs>>
  BY DEF RetryWithMoreMemory
<1>2. job.fn \in Functions /\ Open = {} /\ job.todo = <<>> /\ buf.begin.off <= buf.end.off
  BY <1>1 DEF IInv, Phases, Progress, Emitting
<1>3. /\ Open' = {}
      /\ block' \in [Blocks -> [state : {"free", "open", "kept"}, size : Nat]]
      /\ {FunctionBlock', TableBlock'} \subseteq [Functions -> Blocks \cup {NoBlock}]
      /\ extent' \in [Functions -> [code : Extent, table : Extent]]
      /\ \A g \in Functions \ {job.fn} :
           /\ FunctionBlock'[g] = FunctionBlock[g] /\ TableBlock'[g] = TableBlock[g]
           /\ extent'[g] = extent[g]
  BY <1>1, <1>2, Deallocated
<1>4. SizeEstimate' \in Nat
  <2>1. buf.begin.off \in Int /\ buf.end.off \in Int
    BY DEF IInv, TypeOK, Buf, Address
  <2>. QED BY <1>1, <1>2, <2>1
<1>5. /\ job' \in [fn : Functions \cup {None}, phase : Phase, todo : Seq(Task)]
      /\ job.fn' = job.fn /\ job.phase' = "again" /\ job.todo' = <<>>
  BY <1>1, <1>2 DEF IInv, TypeOK, Phase
<1>6. TypeOK'
  BY <1>1, <1>3, <1>4, <1>5 DEF IInv, TypeOK
<1>7. Phases' /\ Progress'
  BY <1>2, <1>3, <1>5 DEF Phases, Progress, Emitting
<1>8. OthersWhole'
  BY <1>1, <1>3, <1>5 DEF IInv, TypeOK, OthersWhole, CodeWhole, TableWhole
<1>. QED BY <1>6, <1>7, <1>8 DEF IInv

LEMMA StartExceptionTableInv == IInv /\ StartExceptionTable => IInv'
<1>. SUFFICES ASSUME IInv, StartExceptionTable PROVE IInv'
  OBVIOUS
<1>. DEFINE fn == job.fn
            r == TypeInfos[fn]
            u == <<Words("table", Table[fn])>> \o References(r)
<1>1. PICK b \in Blocks, n \in Offers(0) \cap 0 .. Stride :
        /\ Fresh(b)
        /\ block' = WithBlock(b, "open", n)
        /\ buf' = Buffer(b, n)
  BY DEF StartExceptionTable
<1>2. /\ job.phase = "finished" /\ saved' = buf
      /\ job' = [job EXCEPT !.phase = "table", !.todo = u]
      /\ UNCHANGED <<engine, SizeEstimate, FunctionBlock, TableBlock, address, extent, mapped, stubs>>
  BY DEF StartExceptionTable, names
<1>3. /\ fn \in Functions /\ engine.DwarfExceptionHandling /\ Open = {} /\ CodeWhole(fn)
      /\ engine \in Engines /\ DOMAIN block = Blocks
  BY <1>2 DEF IInv, TypeOK, Phases, Progress, Emitting
<1>4. n \in Nat /\ (TablesFit => Table[fn] <= n)
  <2>. SUFFICES ASSUME TablesFit PROVE Table[fn] <= n
    OBVIOUS
  <2>1. /\ engine.BlockSizes # {} /\ engine.BlockSizes \subseteq Nat
        /\ \A s \in engine.BlockSizes : Table[fn] <= s
    BY <1>3, JITEmitterAssumption DEF TablesFit, Engine
  <2>2. n \in engine.BlockSizes
    BY <2>1 DEF Offers
  <2>. QED BY <2>1, <2>2
<1>5. /\ buf'.begin = [block |-> b, off |-> 0] /\ buf'.cur = [block |-> b, off |-> 0]
      /\ buf'.end = [block |-> b, off |-> n] /\ buf' \in Buf
  BY <1>1, <1>4 DEF Buffer, Pointer, Buf, Address
<1>6. /\ u \in Seq(Task) /\ u # <<>> /\ u[1] = Words("table", Table[fn])
      /\ \A i \in 2 .. Len(u) : u[i].op = "refer"
  <2>1. r \in Seq(Functions \cup Variables)
    BY <1>3, JITEmitterAssumption
  <2>. DEFINE q == References(r)
              w == Words("table", Table[fn])
  <2>2. q \in Seq(Task) /\ \A i \in 1 .. Len(q) : q[i].op = "refer"
    BY <2>1, OnlyReferences DEF OnlyRefers
  <2>3. w \in Task
    BY <1>3, JITEmitterAssumption DEF Words, Task
  <2>. HIDE DEF q, w, r, fn
  <2>4. /\ <<w>> \o q \in Seq(Task) /\ Len(<<w>> \o q) = Len(q) + 1 /\ (<<w>> \o q)[1] = w
        /\ \A i \in 2 .. Len(q) + 1 : (<<w>> \o q)[i] = q[i - 1]
    BY <2>2, <2>3
  <2>5. Len(q) \in Nat
    BY <2>2
  <2>6. \A i \in 2 .. Len(q) + 1 : i - 1 \in 1 .. Len(q)
    BY <2>5
  <2>7. <<w>> \o q # <<>>
    BY <2>4, <2>5
  <2>8. u = <<w>> \o q
    BY DEF q, w, r, fn
  <2>9. \A i \in 2 .. Len(u) : u[i].op = "refer"
    BY <2>2, <2>4, <2>6, <2>8
  <2>. QED BY <2>4, <2>7, <2>8, <2>9 DEF w
<1>. HIDE DEF u
<1>7. /\ job' \in [fn : Functions \cup {None}, phase : Phase, todo : Seq(Task)]
      /\ job.fn' = job.fn /\ job.phase' = "table" /\ job.todo' = u
  BY <1>2, <1>6 DEF IInv, TypeOK, Phase
<1>8. TypeOK'
  <2>1. block' \in [Blocks -> [state : {"free", "open", "kept"}, size : Nat]]
    BY <1>1, <1>4 DEF IInv, TypeOK, WithBlock
  <2>2. {c \in Blocks : block'[c].state = "open"} = {b}
    BY <1>1, <1>3, OpenOne
  <2>3. saved' \in Buf
    BY <1>2 DEF IInv, TypeOK
  <2>. QED BY <1>2, <1>4, <1>5, <1>7, <2>1, <2>2, <2>3 DEF IInv, TypeOK
<1>9. Phases'
  BY <1>2, <1>3, <1>5, <1>7 DEF Phases, Emitting
<1>10. Progress'
  <2>1. TableLeft'
    BY <1>4, <1>5, <1>6, <1>7 DEF TableLeft
  <2>2. CodeWhole(job.fn)'
    BY <1>2, <1>3, <1>7 DEF CodeWhole
  <2>. QED BY <1>7, <2>1, <2>2 DEF Progress
<1>11. OthersWhole'
  BY <1>2, <1>7, OthersStay
<1>. QED BY <1>8, <1>9, <1>10, <1>11 DEF IInv

LEMMA EndExceptionTableInv == IInv /\ EndExceptionTable => IInv'
<1>. SUFFICES ASSUME IInv, EndExceptionTable PROVE IInv'
  OBVIOUS
<1>. DEFINE fn == job.fn
<1>1. /\ job.phase = "table" /\ job.todo = <<>>
      /\ block' = [block EXCEPT ![buf.begin.block] = [state |-> "kept", size |-> buf.cur.off]]
      /\ TableBlock' = [TableBlock EXCEPT ![fn] = buf.begin.block]
      /\ buf' = saved /\ job' = Idle
      /\ UNCHANGED <<engine, saved, SizeEstimate, FunctionBlock, address, extent, mapped, stubs>>
  BY DEF EndExceptionTable, names, WithBlock
<1>2. /\ buf.begin.block \in Blocks /\ buf.cur.off \in Nat /\ Open = {buf.begin.block}
      /\ buf.begin.block # NoBlock
  <2>1. buf.begin.block \in Blocks /\ buf.cur.off \in Nat /\ Open = {buf.begin.block}
    BY <1>1, BufferOrder DEF IInv, TypeOK, Emitting, Open
  <2>. QED BY <2>1, JITEmitterAssumption DEF Blocks, NoBlock
<1>3. fn \in Functions /\ CodeWhole(fn) /\ TableWritten
  BY <1>1 DEF IInv, Phases, Progress, TableLeft, Emitting
<1>4. Open' = {} /\ block' \in [Blocks -> [state : {"free", "open", "kept"}, size : Nat]]
  BY <1>1, <1>2 DEF IInv, TypeOK, Open
<1>5. /\ job' \in [fn : Functions \cup {None}, phase : Phase, todo : Seq(Task)]
      /\ job.fn' = None /\ job.phase' = "idle" /\ job.todo' = <<>>
  BY <1>1 DEF Phase, Idle
<1>6. TypeOK'
  <2>1. TableBlock' \in [Functions -> Blocks \cup {NoBlock}]
    BY <1>1, <1>2 DEF IInv, TypeOK
  <2>. QED BY <1>1, <1>4, <1>5, <2>1 DEF IInv, TypeOK
<1>7. Phases' /\ Progress'
  BY <1>4, <1>5 DEF Phases, Progress, Emitting
<1>8. OthersWhole'
  <2>1. ASSUME NEW f \in mapped PROVE CodeWhole(f)' /\ (engine.DwarfExceptionHandling => TableWhole(f)')
    <3>1. f \in Functions /\ TableBlock \in [Functions -> Blocks \cup {NoBlock}]
      BY <2>1 DEF IInv, TypeOK
    <3>2. CASE f = fn
      BY <1>1, <1>2, <1>3, <3>1, <3>2 DEF CodeWhole, TableWhole, TableWritten
    <3>3. CASE f # fn
      BY <1>1, <2>1, <3>1, <3>3 DEF IInv, OthersWhole, CodeWhole, TableWhole
    <3>. QED BY <3>2, <3>3
  <2>. QED BY <1>1, <2>1 DEF OthersWhole
<1>. QED BY <1>6, <1>7, <1>8 DEF IInv

-----------------------------------------------------------------------------
LEMMA GetPointerToGlobalInv ==
  ASSUME IInv, NEW v \in Variables, GetPointerToGlobal(v)
  PROVE  IInv'
<1>1. /\ job.phase = "idle"
      /\ job' = [job EXCEPT !.phase = "variable", !.todo = <<Refer(v)>>]
      /\ UNCHANGED <<engine, buf, saved, SizeEstimate, block, FunctionBlock, TableBlock,
                     address, extent, mapped, stubs>>
  BY DEF GetPointerToGlobal, buffer, heap, names
<1>2. job.fn = None /\ Open = {}
  BY <1>1 DEF IInv, Phases, Emitting
<1>3. <<Refer(v)>> \in Seq(Task) /\ OnlyRefers(<<Refer(v)>>)
  <2>1. Refer(v) \in Task /\ Refer(v).op = "refer"
    BY DEF Refer, Task
  <2>. QED BY <2>1 DEF OnlyRefers
<1>4. /\ job' \in [fn : Functions \cup {None}, phase : Phase, todo : Seq(Task)]
      /\ job.fn' = None /\ job.phase' = "variable" /\ job.todo' = <<Refer(v)>>
  BY <1>1, <1>2, <1>3 DEF IInv, TypeOK, Phase
<1>5. TypeOK'
  BY <1>1, <1>4 DEF IInv, TypeOK
<1>6. Phases' /\ Progress'
  <2>1. Open' = {}
    BY <1>1, <1>2 DEF Open
  <2>2. OnlyRefers(job'.todo)
    BY <1>3, <1>4
  <2>. QED BY <1>4, <2>1, <2>2 DEF Phases, Progress, Emitting
<1>7. OthersWhole'
  BY <1>1, <1>2, <1>4 DEF IInv, OthersWhole, CodeWhole, TableWhole
<1>. QED BY <1>5, <1>6, <1>7 DEF IInv

LEMMA ReturnPointerInv == IInv /\ ReturnPointer => IInv'
<1>. SUFFICES ASSUME IInv, ReturnPointer PROVE IInv'
  OBVIOUS
<1>1. /\ job.phase = "variable" /\ job' = Idle
      /\ UNCHANGED <<engine, buf, saved, SizeEstimate, block, FunctionBlock, TableBlock,
                     address, extent, mapped, stubs>>
  BY DEF ReturnPointer, buffer, heap, names
<1>2. job.fn = None /\ Open' = {}
  BY <1>1 DEF IInv, Phases, Emitting, Open
<1>3. /\ job' \in [fn : Functions \cup {None}, phase : Phase, todo : Seq(Task)]
      /\ job.fn' = None /\ job.phase' = "idle" /\ job.todo' = <<>>
  BY <1>1 DEF Phase, Idle
<1>4. TypeOK'
  BY <1>1, <1>3 DEF IInv, TypeOK
<1>5. Phases' /\ Progress'
  BY <1>2, <1>3 DEF Phases, Progress, Emitting
<1>6. OthersWhole'
  BY <1>1, <1>2, <1>3 DEF IInv, OthersWhole, CodeWhole, TableWhole
<1>. QED BY <1>4, <1>5, <1>6 DEF IInv

LEMMA FreeInv ==
  ASSUME IInv, NEW f \in Functions, FreeMachineCodeForFunction(f)
  PROVE  IInv'
<1>1. /\ job.phase = "idle" /\ DeallocateMemForFunction(f) /\ mapped' = mapped \ {f}
      /\ UNCHANGED <<engine, buf, saved, SizeEstimate, job, address, stubs>>
  BY DEF FreeMachineCodeForFunction, buffer
<1>2. job.fn = None /\ Open = {} /\ job.todo = <<>>
  BY <1>1 DEF IInv, Phases, Progress, Emitting
<1>3. /\ Open' = {}
      /\ block' \in [Blocks -> [state : {"free", "open", "kept"}, size : Nat]]
      /\ {FunctionBlock', TableBlock'} \subseteq [Functions -> Blocks \cup {NoBlock}]
      /\ extent' \in [Functions -> [code : Extent, table : Extent]]
      /\ \A g \in Functions \ {f} :
           /\ FunctionBlock'[g] = FunctionBlock[g] /\ TableBlock'[g] = TableBlock[g]
           /\ extent'[g] = extent[g]
  BY <1>1, <1>2, Deallocated
<1>4. job.fn' = None /\ job.phase' = "idle" /\ job.todo' = <<>>
  BY <1>1, <1>2
<1>5. TypeOK'
  BY <1>1, <1>3 DEF IInv, TypeOK
<1>6. Phases' /\ Progress'
  BY <1>3, <1>4 DEF Phases, Progress, Emitting
<1>7. OthersWhole'
  BY <1>1, <1>2, <1>3 DEF IInv, TypeOK, OthersWhole, CodeWhole, TableWhole
<1>. QED BY <1>5, <1>6, <1>7 DEF IInv

LEMMA RecompileInv ==
  ASSUME IInv, NEW f \in Functions, RecompileAndRelinkFunction(f)
  PROVE  IInv'
<1>1. /\ job.phase = "idle" /\ mapped' = mapped \ {f}
      /\ job' = [fn |-> f, phase |-> "again", todo |-> <<>>]
      /\ UNCHANGED <<engine, buf, saved, SizeEstimate, block, FunctionBlock, TableBlock,
                     address, extent, stubs>>
  BY DEF RecompileAndRelinkFunction, buffer, heap
<1>2. job.fn = None /\ Open' = {}
  BY <1>1 DEF IInv, Phases, Emitting, Open
<1>3. /\ job' \in [fn : Functions \cup {None}, phase : Phase, todo : Seq(Task)]
      /\ job.fn' = f /\ job.phase' = "again" /\ job.todo' = <<>>
  BY <1>1 DEF Phase
<1>4. TypeOK'
  BY <1>1, <1>3 DEF IInv, TypeOK
<1>5. Phases' /\ Progress'
  BY <1>2, <1>3 DEF Phases, Progress, Emitting
<1>6. OthersWhole'
  <2>1. None \notin mapped
    BY JITEmitterAssumption DEF IInv, TypeOK
  <2>. QED BY <1>1, <1>2, <1>3, <2>1 DEF IInv, OthersWhole, CodeWhole, TableWhole
<1>. QED BY <1>4, <1>5, <1>6 DEF IInv

-----------------------------------------------------------------------------
\* Every step preserves the invariant.
LEMMA NextInv ==
  ASSUME IInv, [Next]_vars
  PROVE  IInv'
<1>1. CASE UNCHANGED vars
  BY <1>1 DEF vars, buffer, heap, names, IInv, TypeOK, Phases, Open, Progress, OnlyRefers, CodeLeft,
              CodeWritten, Full, TableLeft, TableWritten, CodeWhole, TableWhole, OthersWhole
<1>2. ASSUME NEW f \in Functions, StartFunction(f) PROVE IInv'
  BY <1>2, StartInv
<1>3. ASSUME NEW f \in Functions, FreeMachineCodeForFunction(f) PROVE IInv'
  BY <1>3, FreeInv
<1>4. ASSUME NEW f \in Functions, RecompileAndRelinkFunction(f) PROVE IInv'
  BY <1>4, RecompileInv
<1>5. ASSUME NEW v \in Variables, GetPointerToGlobal(v) PROVE IInv'
  BY <1>5, GetPointerToGlobalInv
<1>6. CASE Emit
  BY <1>6, EmitConstantPoolInv, EmitWordsInv, ReferToFunctionInv, ReferToEmittedInv,
     AllocateGlobalInv, AllocateSpaceInv, AllocateInBufferInv, AllocateNothingInv, AllocateWildInv,
     FinishOverflownInv, ResolveRelocationsInv, FinishFunctionInv, RetryInv,
     StartExceptionTableInv, EndExceptionTableInv, ReturnPointerInv
  DEF Emit
<1>. QED BY <1>1, <1>2, <1>3, <1>4, <1>5, <1>6 DEF Next

\* Between two requests nothing is being emitted, so all functions are whole.
LEMMA WholeBetween == TablesFit /\ IInv => EmittedWhole
<1>. SUFFICES ASSUME TablesFit, IInv, job.phase = "idle", NEW f \in mapped
              PROVE  /\ CodeWhole(f)
                     /\ engine.DwarfExceptionHandling => TableWhole(f)
  BY DEF EmittedWhole, CodeWhole, TableWhole
<1>1. job.fn = None /\ None \notin mapped
  BY JITEmitterAssumption DEF IInv, TypeOK, Phases
<1>. QED BY <1>1 DEF IInv, OthersWhole

-----------------------------------------------------------------------------
(***************************************************************************)
(* Where code and exception tables lie.                                    *)
(***************************************************************************)
Kinds == {"code", "table"}

\* The block the memory manager will free for the code, or the table, of f.
Keeper(f, k) == IF k = "code" THEN FunctionBlock[f] ELSE TableBlock[f]

\* Blocks of functions are in use and nobody shares one.
KeepersRight ==
  /\ \A f \in Functions, k \in Kinds :
       Keeper(f, k) # NoBlock => block[Keeper(f, k)].state = "kept"
  /\ \A f, g \in Functions, k, l \in Kinds :
       Keeper(f, k) # NoBlock /\ Keeper(f, k) = Keeper(g, l) => f = g /\ k = l

BlocksRight ==
  /\ \A b \in Blocks : block[b].size <= Stride
  /\ job.phase \in Emitting => block[buf.begin.block].size = buf.end.off
  /\ job.phase = "retry" => FunctionBlock[job.fn] # NoBlock

\* What was written lies in the block of its function, or in the one that is
\* written to, before the buffer pointer.
InKeeper(f, k) == LET e == extent[f][k] IN
  e.block = Keeper(f, k) /\ e.to <= block[e.block].size
InBuffer(f, k) == LET e == extent[f][k] IN
  /\ block[e.block].state = "open" /\ f = job.fn /\ e.to <= block[e.block].size
  /\ job.phase \in Emitting => e.to <= buf.cur.off /\ (k = "table" <=> job.phase = "table")

ExtentsRight ==
  \A f \in Functions, k \in Kinds :
    extent[f][k].block # NoBlock => InKeeper(f, k) \/ InBuffer(f, k)

\* The exception table is not in the block of the code.
TablesApart ==
  \A f \in Functions :
    extent[f].code.block # NoBlock => extent[f].code.block # extent[f].table.block

Memory == KeepersRight /\ BlocksRight /\ ExtentsRight /\ TablesApart

\* The words a function was written to and the blocks that will be freed for it.
LEMMA WrittenTyped ==
  ASSUME IInv, NEW f \in Functions, NEW k \in Kinds
  PROVE  /\ extent[f][k].block \in Blocks \cup {NoBlock}
         /\ extent[f][k].from \in Nat /\ extent[f][k].to \in Nat
         /\ Keeper(f, k) \in Blocks \cup {NoBlock}
         /\ NoBlock \notin Blocks
<1>1. extent[f].code \in Extent /\ extent[f].table \in Extent
  BY DEF IInv, TypeOK
<1>2. extent[f][k] \in Extent
  BY <1>1 DEF Kinds
<1>3. Keeper(f, k) \in Blocks \cup {NoBlock}
  BY DEF IInv, TypeOK, Keeper
<1>4. NoBlock \notin Blocks
  BY JITEmitterAssumption DEF Blocks, NoBlock
<1>. QED BY <1>2, <1>3, <1>4 DEF Extent

\* While code or a table is written, its block is the one that is open.
LEMMA OpenBlock ==
  ASSUME IInv, job.phase \in Emitting
  PROVE  /\ buf.begin.block \in Blocks /\ Open = {buf.begin.block}
         /\ buf.cur.off \in Nat /\ buf.end.off \in Nat /\ buf.cur.off <= buf.end.off
         /\ buf.begin.block # NoBlock /\ job.fn \in Functions
<1>1. /\ buf.begin.block \in Blocks /\ Open = {buf.begin.block} /\ buf.begin.off = 0
      /\ job.fn \in Functions
  BY DEF IInv, TypeOK, Phases, Emitting, Open
<1>2. buf.cur.off \in Int /\ buf.end.off \in Int /\ buf.begin.off <= buf.cur.off /\ buf.cur.off <= buf.end.off
  BY DEF IInv, TypeOK, Buf, Address, Emitting
<1>3. NoBlock \notin Blocks
  BY JITEmitterAssumption DEF Blocks, NoBlock
<1>. QED BY <1>1, <1>2, <1>3

LEMMA InitMemory == Init => Memory
<1>. SUFFICES ASSUME Init PROVE Memory
  OBVIOUS
<1>1. KeepersRight
  BY DEF Init, KeepersRight, Keeper
<1>2. BlocksRight
  BY JITEmitterAssumption DEF Init, BlocksRight, Idle, Emitting
<1>3. ExtentsRight
  BY DEF Init, ExtentsRight, NoExtent, Kinds
<1>4. TablesApart
  BY DEF Init, TablesApart, NoExtent
<1>. QED BY <1>1, <1>2, <1>3, <1>4 DEF Memory

\* A step that neither opens nor keeps nor frees a block and writes no code.
LEMMA QuietMemory ==
  ASSUME IInv, Memory, IInv', UNCHANGED <<block, FunctionBlock, TableBlock, extent>>,
         job'.phase \in Emitting =>
           /\ job.phase \in Emitting /\ (job'.phase = "table" <=> job.phase = "table")
           /\ buf'.begin = buf.begin /\ buf'.end = buf.end /\ buf.cur.off <= buf'.cur.off,
         job'.phase # "retry",
         job'.fn = job.fn \/ Open = {}
  PROVE  Memory'
<1>1. KeepersRight'
  BY DEF Memory, KeepersRight, Keeper
<1>2. BlocksRight'
  BY DEF Memory, BlocksRight
<1>3. ExtentsRight'
  <2>. SUFFICES ASSUME NEW f \in Functions, NEW k \in Kinds, extent'[f][k].block # NoBlock
                PROVE  InKeeper(f, k)' \/ InBuffer(f, k)'
    BY DEF ExtentsRight
  <2>1. InKeeper(f, k) \/ InBuffer(f, k)
    BY DEF Memory, ExtentsRight
  <2>2. CASE InKeeper(f, k)
    BY <2>2 DEF InKeeper, Keeper
  <2>3. CASE InBuffer(f, k)
    <3>1. extent[f][k].block \in Open
      BY <2>3, WrittenTyped DEF InBuffer, Open
    <3>2. job'.fn = job.fn
      BY <3>1
    <3>3. job'.phase \in Emitting => buf.cur.off \in Nat /\ buf'.cur.off \in Int
      BY OpenBlock DEF IInv, TypeOK, Buf, Address
    <3>4. extent[f][k].to \in Nat
      BY WrittenTyped
    <3>. QED BY <2>3, <3>2, <3>3, <3>4 DEF InBuffer
  <2>. QED BY <2>1, <2>2, <2>3
<1>. QED BY <1>1, <1>2, <1>3 DEF Memory, TablesApart

\* A free block is taken, to write code to it or to keep a variable.
LEMMA TakenMemory ==
  ASSUME IInv, Memory, IInv', Open = {}, NEW b \in Blocks, Fresh(b),
         NEW s \in {"open", "kept"}, NEW n \in Nat, n <= Stride,
         block' = WithBlock(b, s, n), UNCHANGED <<FunctionBlock, TableBlock, extent>>,
         job'.phase \in Emitting => buf' = Buffer(b, n),
         job'.phase # "retry"
  PROVE  Memory'
<1>1. /\ block[b].state = "free" /\ block' = [block EXCEPT ![b] = [state |-> s, size |-> n]]
      /\ block \in [Blocks -> [state : {"free", "open", "kept"}, size : Nat]]
  BY DEF Fresh, WithBlock, IInv, TypeOK
<1>2. ASSUME NEW f \in Functions, NEW k \in Kinds, Keeper(f, k) # NoBlock
      PROVE  /\ Keeper(f, k)' = Keeper(f, k) /\ Keeper(f, k) # b
             /\ block'[Keeper(f, k)] = block[Keeper(f, k)]
  <2>1. Keeper(f, k)' = Keeper(f, k) /\ Keeper(f, k) \in Blocks
    BY <1>2, WrittenTyped DEF Keeper
  <2>2. block[Keeper(f, k)].state = "kept"
    BY <1>2 DEF Memory, KeepersRight
  <2>. QED BY <1>1, <2>1, <2>2
<1>3. KeepersRight'
  <2>1. ASSUME NEW f \in Functions, NEW k \in Kinds PROVE Keeper(f, k)' = Keeper(f, k)
    BY DEF Keeper
  <2>. QED BY <1>2, <2>1 DEF Memory, KeepersRight
<1>4. BlocksRight'
  <2>1. \A c \in Blocks : block'[c].size <= Stride
    BY <1>1 DEF Memory, BlocksRight
  <2>2. job'.phase \in Emitting => block'[buf'.begin.block].size = buf'.end.off
    BY <1>1 DEF Buffer, Pointer
  <2>. QED BY <2>1, <2>2 DEF BlocksRight
<1>5. ExtentsRight'
  <2>. SUFFICES ASSUME NEW f \in Functions, NEW k \in Kinds, extent'[f][k].block # NoBlock
                PROVE  InKeeper(f, k)'
    BY DEF ExtentsRight
  <2>1. ~InBuffer(f, k)
    BY WrittenTyped DEF InBuffer, Open
  <2>2. InKeeper(f, k)
    BY <2>1 DEF Memory, ExtentsRight
  <2>. QED BY <1>2, <2>2 DEF InKeeper
<1>. QED BY <1>3, <1>4, <1>5 DEF Memory, TablesApart

\* The block that was written to is kept for the function.
LEMMA KeptMemory ==
  ASSUME IInv, Memory, IInv', job.phase \in Emitting, NEW k \in Kinds,
         k = "table" <=> job.phase = "table", extent[job.fn][k].block = buf.begin.block,
         block' = WithBlock(buf.begin.block, "kept", buf.cur.off),
         FunctionBlock' = IF k = "code" THEN [FunctionBlock EXCEPT ![job.fn] = buf.begin.block] ELSE FunctionBlock,
         TableBlock' = IF k = "table" THEN [TableBlock EXCEPT ![job.fn] = buf.begin.block] ELSE TableBlock,
         extent' = extent, job'.phase \notin Emitting,
         job'.phase = "retry" => k = "code" /\ job'.fn = job.fn
  PROVE  Memory'
<1>. DEFINE b == buf.begin.block
            fn == job.fn
<1>1. /\ b \in Blocks /\ Open = {b} /\ buf.cur.off \in Nat /\ buf.end.off \in Nat
      /\ buf.cur.off <= buf.end.off /\ b # NoBlock /\ fn \in Functions
  BY OpenBlock
<1>2. /\ block[b].state = "open" /\ block' = [block EXCEPT ![b] = [state |-> "kept", size |-> buf.cur.off]]
      /\ block \in [Blocks -> [state : {"free", "open", "kept"}, size : Nat]]
      /\ {FunctionBlock, TableBlock} \subseteq [Functions -> Blocks \cup {NoBlock}]
  BY <1>1 DEF Open, WithBlock, IInv, TypeOK
<1>3. ASSUME NEW f \in Functions, NEW l \in Kinds
      PROVE  Keeper(f, l)' = IF f = fn /\ l = k THEN b ELSE Keeper(f, l)
  BY <1>2 DEF Keeper, Kinds
<1>4. ASSUME NEW f \in Functions, NEW l \in Kinds, Keeper(f, l) # NoBlock
      PROVE  Keeper(f, l) # b /\ block'[Keeper(f, l)] = block[Keeper(f, l)]
  <2>1. block[Keeper(f, l)].state = "kept" /\ Keeper(f, l) \in Blocks
    BY <1>4, WrittenTyped DEF Memory, KeepersRight
  <2>. QED BY <1>2, <2>1
<1>. HIDE DEF b, fn
<1>5. KeepersRight'
  <2>1. ASSUME NEW f \in Functions, NEW l \in Kinds, Keeper(f, l)' # NoBlock
        PROVE  block'[Keeper(f, l)'].state = "kept"
    <3>1. CASE f = fn /\ l = k
      BY <1>1, <1>2, <1>3, <3>1
    <3>2. CASE ~(f = fn /\ l = k)
      BY <1>3, <1>4, <2>1, <3>2 DEF Memory, KeepersRight
    <3>. QED BY <3>1, <3>2
  <2>2. ASSUME NEW f \in Functions, NEW g \in Functions, NEW l \in Kinds, NEW m \in Kinds,
               Keeper(f, l)' # NoBlock, Keeper(f, l)' = Keeper(g, m)'
        PROVE  f = g /\ l = m
    <3>1. Keeper(f, l)' = (IF f = fn /\ l = k THEN b ELSE Keeper(f, l))
          /\ Keeper(g, m)' = (IF g = fn /\ m = k THEN b ELSE Keeper(g, m))
      BY <1>3
    <3>2. (Keeper(f, l) # NoBlock => Keeper(f, l) # b) /\ (Keeper(g, m) # NoBlock => Keeper(g, m) # b)
      BY <1>4
    <3>3. Keeper(f, l) # NoBlock /\ Keeper(f, l) = Keeper(g, m) => f = g /\ l = m
      BY DEF Memory, KeepersRight
    <3>. QED BY <1>1, <2>2, <3>1, <3>2, <3>3
  <2>. QED BY <2>1, <2>2 DEF KeepersRight
<1>6. BlocksRight'
  <2>1. \A c \in Blocks : block'[c].size <= Stride
    <3>1. block[b].size = buf.end.off /\ buf.end.off <= Stride
      BY <1>1 DEF Memory, BlocksRight, b
    <3>2. buf.cur.off <= Stride
      BY <1>1, <3>1, JITEmitterAssumption
    <3>. QED BY <1>1, <1>2, <3>2 DEF Memory, BlocksRight
  <2>2. job'.phase = "retry" => FunctionBlock'[job'.fn] # NoBlock
    BY <1>1, <1>2 DEF fn, b
  <2>. QED BY <2>1, <2>2 DEF BlocksRight
<1>7. ExtentsRight'
  <2>. SUFFICES ASSUME NEW f \in Functions, NEW l \in Kinds, extent'[f][l].block # NoBlock
                PROVE  InKeeper(f, l)'
    BY DEF ExtentsRight
  <2>1. extent'[f][l] = extent[f][l] /\ (InKeeper(f, l) \/ InBuffer(f, l))
    BY DEF Memory, ExtentsRight
  <2>2. CASE InBuffer(f, l)
    <3>1. extent[f][l].block \in Open /\ f = fn /\ l = k /\ extent[f][l].to <= buf.cur.off
      BY <2>1, <2>2, WrittenTyped DEF InBuffer, Open, Kinds, fn
    <3>2. extent[f][l].block = b /\ Keeper(f, l)' = b
      BY <1>1, <1>3, <3>1
    <3>. QED BY <1>1, <1>2, <2>1, <3>1, <3>2 DEF InKeeper
  <2>3. CASE InKeeper(f, l)
    <3>1. extent[f][l].block = Keeper(f, l) /\ Keeper(f, l) # NoBlock
      BY <2>1, <2>3 DEF InKeeper
    <3>2. Keeper(f, l) # b
      BY <1>4, <3>1
    <3>3. ~(f = fn /\ l = k)
      BY <3>1, <3>2 DEF b, fn
    <3>. QED BY <1>3, <1>4, <2>1, <2>3, <3>1, <3>3 DEF InKeeper
  <2>. QED BY <2>1, <2>2, <2>3
<1>. QED BY <1>5, <1>6, <1>7 DEF Memory, TablesApart

\* The blocks of a function are freed, and what lay in them is forgotten.
LEMMA FreedMemory ==
  ASSUME IInv, Memory, IInv', Open = {}, NEW f \in Functions, DeallocateMemForFunction(f),
         job'.phase \notin Emitting \cup {"retry"}
  PROVE  Memory'
<1>1. /\ block' = FreeBlocks({FunctionBlock[f], TableBlock[f]})
      /\ FunctionBlock' = [FunctionBlock EXCEPT ![f] = NoBlock]
      /\ TableBlock' = [TableBlock EXCEPT ![f] = NoBlock]
      /\ extent' = [extent EXCEPT ![f] = [code |-> NoExtent, table |-> NoExtent]]
      /\ {FunctionBlock, TableBlock} \subseteq [Functions -> Blocks \cup {NoBlock}]
      /\ DOMAIN extent = Functions
      /\ block \in [Blocks -> [state : {"free", "open", "kept"}, size : Nat]]
  BY DEF DeallocateMemForFunction, IInv, TypeOK
<1>2. ASSUME NEW g \in Functions, NEW k \in Kinds
      PROVE  Keeper(g, k)' = IF g = f THEN NoBlock ELSE Keeper(g, k)
  BY <1>1 DEF Keeper
<1>3. ASSUME NEW g \in Functions \ {f}, NEW k \in Kinds, Keeper(g, k) # NoBlock
      PROVE  block'[Keeper(g, k)] = block[Keeper(g, k)]
  <2>1. Keeper(g, k) \in Blocks
    BY <1>3, WrittenTyped
  <2>2. Keeper(g, k) # Keeper(f, "code") /\ Keeper(g, k) # Keeper(f, "table")
    BY <1>3 DEF Memory, KeepersRight, Kinds
  <2>. QED BY <1>1, <2>1, <2>2 DEF Keeper, FreeBlocks
<1>4. KeepersRight'
  BY <1>2, <1>3 DEF Memory, KeepersRight
<1>5. BlocksRight'
  <2>1. \A c \in Blocks : block'[c].size <= Stride
    BY <1>1, JITEmitterAssumption DEF Memory, BlocksRight, FreeBlocks
  <2>. QED BY <2>1 DEF BlocksRight
<1>6. ExtentsRight'
  <2>. SUFFICES ASSUME NEW g \in Functions, NEW k \in Kinds, extent'[g][k].block # NoBlock
                PROVE  InKeeper(g, k)'
    BY DEF ExtentsRight
  <2>1. g # f
    BY <1>1 DEF NoExtent, Kinds
  <2>2. extent'[g][k] = extent[g][k]
    BY <1>1, <2>1
  <2>3. ~InBuffer(g, k)
    BY <2>2, WrittenTyped DEF InBuffer, Open
  <2>4. InKeeper(g, k)
    BY <2>2, <2>3 DEF Memory, ExtentsRight
  <2>. QED BY <1>2, <1>3, <2>1, <2>2, <2>4 DEF InKeeper
<1>7. TablesApart'
  BY <1>1 DEF Memory, TablesApart, NoExtent
<1>. QED BY <1>4, <1>5, <1>6, <1>7 DEF Memory

\* The code or the exception table is written to the open block.
LEMMA WrittenMemory == IInv /\ Memory /\ IInv' /\ EmitWords => Memory'
<1>. SUFFICES ASSUME IInv, Memory, IInv', EmitWords PROVE Memory'
  OBVIOUS
<1>. DEFINE fn == job.fn
            k == Next1.op
            e == [block |-> buf.cur.block, from |-> buf.cur.off, to |-> Emitted]
<1>1. /\ k \in Kinds /\ job.todo # <<>>
      /\ buf' = [buf EXCEPT !.cur.off = Emitted]
      /\ extent' = [extent EXCEPT ![fn][k] = e]
      /\ job'.fn = fn /\ job'.phase = job.phase
      /\ UNCHANGED <<block, FunctionBlock, TableBlock>>
  BY DEF EmitWords, Doing, Done, heap, Kinds, IInv, TypeOK
<1>2. /\ job.phase \in Emitting /\ (k = "table" <=> job.phase = "table") /\ Next1.words \in Nat
      /\ job.phase # "retry"
  <2>1. Next1 \in Task
    BY <1>1, FirstTask
  <2>. QED BY <1>1, <2>1, FirstTask DEF Kinds, Emitting, Task
<1>3. /\ buf.begin.block \in Blocks /\ Open = {buf.begin.block}
      /\ buf.cur.off \in Nat /\ buf.end.off \in Nat /\ buf.cur.off <= buf.end.off
      /\ fn \in Functions /\ buf.cur.block = buf.begin.block
  BY <1>2, OpenBlock DEF IInv, TypeOK, Emitting
<1>4. Emitted \in Nat /\ buf.cur.off <= Emitted /\ Emitted <= buf.end.off
  BY <1>2, <1>3 DEF Emitted, Room
<1>5. /\ buf'.begin = buf.begin /\ buf'.end = buf.end /\ buf'.cur.off = Emitted
  <2>1. buf \in Buf /\ buf.cur \in Address
    BY DEF IInv, TypeOK, Buf
  <2>. QED BY <1>1, <2>1 DEF Buf, Address
<1>6. /\ extent'[fn][k] = e
      /\ \A f \in Functions, l \in Kinds : ~(f = fn /\ l = k) => extent'[f][l] = extent[f][l]
  <2>1. DOMAIN extent = Functions /\ DOMAIN extent[fn] = Kinds
    BY <1>3 DEF IInv, TypeOK, Kinds
  <2>. HIDE DEF e, k, fn
  <2>. QED BY <1>1, <1>3, <2>1
<1>7. KeepersRight' /\ BlocksRight'
  BY <1>1, <1>2, <1>5 DEF Memory, KeepersRight, Keeper, BlocksRight
<1>8. ExtentsRight'
  <2>. SUFFICES ASSUME NEW f \in Functions, NEW l \in Kinds, extent'[f][l].block # NoBlock
                PROVE  InKeeper(f, l)' \/ InBuffer(f, l)'
    BY DEF ExtentsRight
  <2>1. CASE f = fn /\ l = k
    <3>1. extent'[f][l] = e
      BY <1>6, <2>1
    <3>2. block[e.block].state = "open" /\ block[e.block].size = buf.end.off
      BY <1>2, <1>3 DEF Open, Memory, BlocksRight
    <3>. QED BY <1>1, <1>2, <1>4, <1>5, <2>1, <3>1, <3>2 DEF InBuffer
  <2>2. CASE ~(f = fn /\ l = k)
    <3>1. extent'[f][l] = extent[f][l] /\ extent[f][l].to \in Nat
      BY <1>6, <2>2, WrittenTyped
    <3>2. InKeeper(f, l) \/ InBuffer(f, l)
      BY <3>1 DEF Memory, ExtentsRight
    <3>3. InKeeper(f, l) => InKeeper(f, l)'
      BY <1>1, <3>1 DEF InKeeper, Keeper
    <3>4. InBuffer(f, l) => InBuffer(f, l)'
      BY <1>1, <1>2, <1>3, <1>4, <1>5, <3>1 DEF InBuffer
    <3>. QED BY <3>2, <3>3, <3>4
  <2>. QED BY <2>1, <2>2
<1>9. TablesApart'
  <2>. SUFFICES ASSUME NEW f \in Functions, extent'[f]["code"].block # NoBlock
                PROVE  extent'[f]["code"].block # extent'[f]["table"].block
    BY DEF TablesApart
  <2>1. CASE f # fn
    <3>1. extent'[f]["code"] = extent[f]["code"] /\ extent'[f]["table"] = extent[f]["table"]
      BY <1>6, <2>1 DEF Kinds
    <3>. QED BY <3>1 DEF Memory, TablesApart
  <2>2. CASE f = fn
    <3>. DEFINE l == IF k = "code" THEN "table" ELSE "code"
    <3>1. l \in Kinds /\ l # k /\ (k = "table" <=> l = "code")
      BY <1>1 DEF Kinds
    <3>2. extent'[fn][l] = extent[fn][l] /\ extent'[fn][k].block = buf.begin.block
      BY <1>3, <1>6, <3>1
    <3>3. ~InBuffer(fn, l)
      BY <1>1, <1>2, <3>1 DEF InBuffer, Kinds
    <3>4. extent[fn][l].block # buf.begin.block
      <4>1. ASSUME extent[fn][l].block = buf.begin.block PROVE FALSE
        <5>1. buf.begin.block # NoBlock /\ block[buf.begin.block].state = "open"
          BY <1>2, <1>3, OpenBlock DEF Open
        <5>2. InKeeper(fn, l)
          BY <1>3, <3>1, <3>3, <4>1, <5>1 DEF Memory, ExtentsRight
        <5>3. block[buf.begin.block].state = "kept"
          BY <1>3, <3>1, <4>1, <5>1, <5>2 DEF InKeeper, Memory, KeepersRight
        <5>. QED BY <5>1, <5>3
      <4>. QED BY <4>1
    <3>. QED BY <1>1, <2>2, <3>1, <3>2, <3>4 DEF Kinds
  <2>. QED BY <2>1, <2>2
<1>. QED BY <1>7, <1>8, <1>9 DEF Memory

\* The step that finishes the body keeps its block for the function.
LEMMA BodyMemory ==
  ASSUME IInv, Memory, IInv', job.phase \in {"body", "relocations"}, job.todo = <<>>,
         EndFunctionBody, UNCHANGED <<TableBlock, extent>>, job'.phase \notin Emitting,
         job'.phase = "retry" => job'.fn = job.fn
  PROVE  Memory'
<1>1. CodeWritten
  BY DEF IInv, Progress, CodeLeft
<1>2. extent[job.fn]["code"].block = buf.begin.block
  BY <1>1 DEF CodeWritten
<1>3. /\ block' = WithBlock(buf.begin.block, "kept", buf.cur.off)
      /\ FunctionBlock' = [FunctionBlock EXCEPT ![job.fn] = buf.begin.block]
  BY DEF EndFunctionBody
<1>4. job.phase \in Emitting /\ "code" \in Kinds
  BY DEF Emitting, Kinds
<1>. QED BY <1>2, <1>3, <1>4, KeptMemory

\* So does the one that finishes the exception table.
LEMMA TableMemory == IInv /\ Memory /\ IInv' /\ EndExceptionTable => Memory'
<1>. SUFFICES ASSUME IInv, Memory, IInv', EndExceptionTable PROVE Memory'
  OBVIOUS
<1>1. /\ job.phase = "table" /\ job.todo = <<>>
      /\ block' = WithBlock(buf.begin.block, "kept", buf.cur.off)
      /\ TableBlock' = [TableBlock EXCEPT ![job.fn] = buf.begin.block]
      /\ job'.phase = "idle" /\ UNCHANGED <<FunctionBlock, extent>>
  BY DEF EndExceptionTable, Idle, names
<1>2. TableWritten
  BY <1>1 DEF IInv, Progress, TableLeft
<1>3. extent[job.fn]["table"].block = buf.begin.block
  BY <1>2 DEF TableWritten
<1>4. job.phase \in Emitting /\ "table" \in Kinds
  BY <1>1 DEF Emitting, Kinds
<1>. QED BY <1>1, <1>3, <1>4, KeptMemory DEF Emitting

\* A function is begun, or a block taken for a variable or a table.
LEMMA StartMemory ==
  ASSUME IInv, Memory, IInv', NEW f \in Functions, StartFunction(f)
  PROVE  Memory'
<1>1. PICK b \in Blocks, n \in Offers(SizeEstimate) \cap 0 .. Stride :
        Fresh(b) /\ block' = WithBlock(b, "open", n) /\ buf' = Buffer(b, n)
  BY DEF StartFunction
<1>2. /\ job.phase \in {"idle", "again"} /\ job'.phase = "body"
      /\ UNCHANGED <<FunctionBlock, TableBlock, extent>>
  BY DEF StartFunction, names
<1>3. Open = {}
  BY <1>2 DEF IInv, Phases, Emitting
<1>4. n \in Nat /\ n <= Stride
  BY JITEmitterAssumption
<1>5. Fresh(b) /\ block' = WithBlock(b, "open", n) /\ buf' = Buffer(b, n) /\ job'.phase # "retry"
  BY <1>1, <1>2
<1>. QED BY <1>2, <1>3, <1>4, <1>5, TakenMemory

LEMMA StartTableMemory == IInv /\ Memory /\ IInv' /\ StartExceptionTable => Memory'
<1>. SUFFICES ASSUME IInv, Memory, IInv', StartExceptionTable PROVE Memory'
  OBVIOUS
<1>1. PICK b \in Blocks, n \in Offers(0) \cap 0 .. Stride :
        Fresh(b) /\ block' = WithBlock(b, "open", n) /\ buf' = Buffer(b, n)
  BY DEF StartExceptionTable
<1>2. /\ job.phase = "finished" /\ UNCHANGED <<FunctionBlock, TableBlock, extent>>
      /\ job' = [job EXCEPT !.phase = "table",
                            !.todo = <<Words("table", Table[job.fn])>> \o References(TypeInfos[job.fn])]
  BY DEF StartExceptionTable, names
<1>3. Open = {} /\ n \in Nat /\ n <= Stride /\ job'.phase = "table"
  BY <1>2, JITEmitterAssumption DEF IInv, TypeOK, Phases, Emitting
<1>. QED BY <1>1, <1>2, <1>3, TakenMemory

LEMMA SpaceMemory == IInv /\ Memory /\ IInv' /\ AllocateSpace => Memory'
<1>. SUFFICES ASSUME IInv, Memory, IInv', AllocateSpace PROVE Memory'
  OBVIOUS
<1>. DEFINE v == Next1.to
<1>1. /\ Doing("refer") /\ v \in Variables /\ buf.begin = Null /\ Size[v] <= Stride
      /\ job' = [job EXCEPT !.todo = References(Initializer[v]) \o Tail(@)]
      /\ UNCHANGED <<FunctionBlock, TableBlock, extent>>
  BY DEF AllocateSpace, Unplaced, PlaceVariable
<1>2. PICK b \in Blocks : /\ Fresh(b) /\ block' = WithBlock(b, "kept", Size[v])
                          /\ buf' = Buffer(b, Size[v])
  BY DEF AllocateSpace
<1>3. job.phase = "variable" /\ job'.phase = "variable"
  <2>1. job.phase \in Emitting \cup {"variable"}
    BY <1>1, FirstTask DEF Doing
  <2>2. job.phase \notin Emitting
    BY <1>1, OpenBlock DEF Null, Pointer
  <2>. QED BY <1>1, <2>1, <2>2 DEF IInv, TypeOK
<1>4. Open = {} /\ Size[v] \in Nat
  BY <1>1, <1>3, JITEmitterAssumption DEF IInv, Phases, Emitting
<1>. QED BY <1>1, <1>2, <1>3, <1>4, TakenMemory DEF Emitting

\* Constants, references and variables leave code and tables where they are.
LEMMA ReferMemory ==
  ASSUME IInv, Memory, IInv', Doing("refer") \/ Doing("pool"),
         job'.phase \in {job.phase, "crashed"}, job'.fn = job.fn,
         UNCHANGED <<block, FunctionBlock, TableBlock, extent>>,
         job.phase \in Emitting =>
           buf'.begin = buf.begin /\ buf'.end = buf.end /\ buf.cur.off <= buf'.cur.off
  PROVE  Memory'
<1>1. job.phase \in Emitting \cup {"variable"}
  BY FirstTask DEF Doing
<1>. QED BY <1>1, QuietMemory DEF Emitting

\* What these steps do to the job.
LEMMA JobStays ==
  ASSUME IInv, NEW r, \/ job' = Done
                      \/ job' = [job EXCEPT !.todo = r]
                      \/ job' = [job EXCEPT !.phase = "crashed", !.todo = <<>>]
  PROVE  job'.phase \in {job.phase, "crashed"} /\ job'.fn = job.fn
BY DEF Done, IInv, TypeOK

LEMMA PoolMemory == IInv /\ Memory /\ IInv' /\ EmitConstantPool => Memory'
<1>. SUFFICES ASSUME IInv, Memory, IInv', EmitConstantPool PROVE Memory'
  OBVIOUS
<1>1. /\ Doing("pool") /\ Next1 \in Task
      /\ UNCHANGED <<block, FunctionBlock, TableBlock, extent>>
      /\ \/ job' = Done
         \/ job' = [job EXCEPT !.todo = References(ConstantRefs[job.fn]) \o Tail(job.todo)]
      /\ \/ buf' = [buf EXCEPT !.cur = buf.end]
         \/ buf' = [buf EXCEPT !.cur.off = @ + Next1.words]
  BY FirstTask DEF EmitConstantPool, Doing, heap, names
<1>2. job'.phase \in {job.phase, "crashed"} /\ job'.fn = job.fn
  BY <1>1, JobStays
<1>3. buf \in Buf /\ Next1.words \in Nat
  BY <1>1 DEF Task, IInv, TypeOK
<1>4. ASSUME job.phase \in Emitting
      PROVE  buf'.begin = buf.begin /\ buf'.end = buf.end /\ buf.cur.off <= buf'.cur.off
  BY <1>1, <1>3, <1>4, OpenBlock DEF Buf, Address
<1>. QED BY <1>1, <1>2, <1>4, ReferMemory

LEMMA ReferencesMemory ==
  ASSUME IInv, Memory, IInv', ReferToFunction \/ ReferToEmitted \/ AllocateGlobal \/ AllocateWild
  PROVE  Memory'
<1>1. /\ Doing("refer") /\ UNCHANGED <<buf, block, FunctionBlock, TableBlock, extent>>
      /\ \/ job' = Done
         \/ job' = [job EXCEPT !.todo = References(Initializer[Next1.to]) \o Tail(job.todo)]
         \/ job' = [job EXCEPT !.phase = "crashed", !.todo = <<>>]
  BY DEF ReferToFunction, ReferToEmitted, AllocateGlobal, AllocateWild, Unplaced, PlaceVariable,
         heap, names, buffer
<1>2. job'.phase \in {job.phase, "crashed"} /\ job'.fn = job.fn
  BY <1>1, JobStays
<1>3. buf.cur.off \in Int
  BY DEF IInv, TypeOK, Buf, Address
<1>. QED BY <1>1, <1>2, <1>3, ReferMemory

LEMMA AllocateMemory ==
  ASSUME IInv, Memory, IInv', AllocateInBuffer \/ AllocateNothing
  PROVE  Memory'
<1>1. /\ Doing("refer") /\ Next1.to \in Variables
      /\ UNCHANGED <<block, FunctionBlock, TableBlock, extent>>
      /\ \/ job' = Done
         \/ job' = [job EXCEPT !.todo = References(Initializer[Next1.to]) \o Tail(job.todo)]
         \/ job' = [job EXCEPT !.phase = "crashed", !.todo = <<>>]
      /\ \/ buf' = [buf EXCEPT !.cur = buf.end]
         \/ buf' = [buf EXCEPT !.cur.off = @ + Size[Next1.to]]
  BY DEF AllocateInBuffer, AllocateNothing, Unplaced, PlaceVariable, heap, names
<1>2. job'.phase \in {job.phase, "crashed"} /\ job'.fn = job.fn
  BY <1>1, JobStays
<1>3. buf \in Buf /\ Size[Next1.to] \in Nat
  BY <1>1, JITEmitterAssumption DEF IInv, TypeOK
<1>4. ASSUME job.phase \in Emitting
      PROVE  buf'.begin = buf.begin /\ buf'.end = buf.end /\ buf.cur.off <= buf'.cur.off
  BY <1>1, <1>3, <1>4, OpenBlock DEF Buf, Address
<1>. QED BY <1>1, <1>2, <1>4, ReferMemory

\* Every step keeps code and tables where they belong.
LEMMA NextMemory ==
  ASSUME IInv, Memory, [Next]_vars
  PROVE  Memory'
<1>. USE NextInv
<1>1. CASE UNCHANGED vars
  BY <1>1 DEF vars, buffer, heap, names, Memory, KeepersRight, Keeper, BlocksRight, ExtentsRight,
              InKeeper, InBuffer, TablesApart
<1>2. ASSUME NEW f \in Functions, StartFunction(f) PROVE Memory'
  BY <1>2, StartMemory
<1>3. ASSUME NEW f \in Functions, FreeMachineCodeForFunction(f) PROVE Memory'
  BY <1>3, FreedMemory DEF FreeMachineCodeForFunction, IInv, Phases, Emitting
<1>4. ASSUME NEW f \in Functions, RecompileAndRelinkFunction(f) PROVE Memory'
  <2>1. job.phase = "idle" /\ job'.phase = "again" /\ UNCHANGED <<block, FunctionBlock, TableBlock, extent>>
    BY <1>4 DEF RecompileAndRelinkFunction, heap
  <2>2. Open = {}
    BY <2>1 DEF IInv, Phases, Emitting
  <2>. QED BY <2>1, <2>2, QuietMemory DEF Emitting
<1>5. ASSUME NEW v \in Variables, GetPointerToGlobal(v) PROVE Memory'
  <2>1. /\ job.phase = "idle" /\ job'.phase = "variable"
        /\ UNCHANGED <<block, FunctionBlock, TableBlock, extent>>
    BY <1>5 DEF GetPointerToGlobal, heap, names, IInv, TypeOK
  <2>2. Open = {}
    BY <2>1 DEF IInv, Phases, Emitting
  <2>. QED BY <2>1, <2>2, QuietMemory DEF Emitting
<1>6. CASE ResolveRelocations \/ ReturnPointer
  <2>1. \/ job.phase = "body" /\ job'.phase = "relocations" /\ job'.fn = job.fn
        \/ job.phase = "variable" /\ job'.phase = "idle"
    <3>1. job \in [fn : Functions \cup {None}, phase : Phase, todo : Seq(Task)]
      BY DEF IInv, TypeOK
    <3>2. CASE ResolveRelocations
      BY <3>1, <3>2 DEF ResolveRelocations
    <3>3. CASE ReturnPointer
      BY <3>3 DEF ReturnPointer, Idle
    <3>. QED BY <1>6, <3>2, <3>3
  <2>2. UNCHANGED <<buf, block, FunctionBlock, TableBlock, extent>> /\ buf.cur.off \in Int
    BY <1>6 DEF ResolveRelocations, ReturnPointer, buffer, heap, names, IInv, TypeOK, Buf, Address
  <2>3. job.phase = "variable" => Open = {}
    BY DEF IInv, Phases, Emitting
  <2>. QED BY <2>1, <2>2, <2>3, QuietMemory DEF Emitting
<1>7. CASE FinishOverflown \/ FinishFunction
  <2>1. /\ job.phase \in {"body", "relocations"} /\ job.todo = <<>> /\ EndFunctionBody
        /\ UNCHANGED <<TableBlock, extent>>
        /\ job' = [job EXCEPT !.phase = "retry"] \/ job' = [job EXCEPT !.phase = "finished"] \/ job' = Idle
    BY <1>7 DEF FinishOverflown, FinishFunction, names
  <2>2. job'.phase \notin Emitting /\ (job'.phase = "retry" => job'.fn = job.fn)
    BY <2>1 DEF IInv, TypeOK, Idle, Emitting
  <2>. QED BY <2>1, <2>2, BodyMemory
<1>8. CASE RetryWithMoreMemory
  <2>1. /\ job.phase = "retry" /\ job'.phase = "again" /\ job.fn \in Functions
        /\ DeallocateMemForFunction(job.fn)
    BY <1>8 DEF RetryWithMoreMemory, IInv, TypeOK, Phases, Emitting
  <2>2. Open = {}
    BY <2>1 DEF IInv, Phases, Emitting
  <2>. QED BY <2>1, <2>2, FreedMemory DEF Emitting
<1>9. CASE Emit
  BY <1>6, <1>7, <1>8, <1>9, PoolMemory, WrittenMemory, ReferencesMemory, AllocateMemory, SpaceMemory,
     StartTableMemory, TableMemory
  DEF Emit
<1>. QED BY <1>1, <1>2, <1>3, <1>4, <1>5, <1>9 DEF Next

-----------------------------------------------------------------------------
\* Code and exception tables lie in blocks that are in use, within what the
\* memory manager was told to keep, and each has a block of its own.
CodeApart ==
  \A f \in Functions, k \in Kinds : LET e == extent[f][k] IN
    e.block # NoBlock =>
      /\ block[e.block].state # "free" /\ e.to <= block[e.block].size
      /\ \A g \in Functions, l \in Kinds : extent[g][l].block = e.block => g = f /\ l = k

LEMMA MemoryApart == IInv /\ Memory => CodeApart
<1>. SUFFICES ASSUME IInv, Memory,
                     NEW f \in Functions, NEW k \in Kinds, extent[f][k].block # NoBlock
              PROVE  /\ block[extent[f][k].block].state # "free"
                     /\ extent[f][k].to <= block[extent[f][k].block].size
                     /\ \A g \in Functions, l \in Kinds :
                          extent[g][l].block = extent[f][k].block => g = f /\ l = k
  BY DEF CodeApart
<1>1. ASSUME NEW g \in Functions, NEW l \in Kinds, extent[g][l].block # NoBlock
      PROVE  /\ InKeeper(g, l) \/ InBuffer(g, l)
             /\ InKeeper(g, l) => block[extent[g][l].block].state = "kept"
             /\ InBuffer(g, l) => block[extent[g][l].block].state = "open"
  BY <1>1 DEF Memory, KeepersRight, ExtentsRight, InKeeper, InBuffer
<1>2. ASSUME NEW g \in Functions, NEW l \in Kinds, extent[g][l].block = extent[f][k].block
      PROVE  g = f /\ l = k
  <2>1. CASE InKeeper(f, k)
    <3>1. InKeeper(g, l)
      BY <1>1, <1>2, <2>1
    <3>. QED BY <1>2, <2>1, <3>1 DEF InKeeper, Memory, KeepersRight
  <2>2. CASE InBuffer(f, k)
    <3>1. InBuffer(g, l)
      BY <1>1, <1>2, <2>2
    <3>2. f = g
      BY <2>2, <3>1 DEF InBuffer
    <3>3. extent[f]["code"].block # NoBlock => extent[f]["code"].block # extent[f]["table"].block
      BY DEF Memory, TablesApart
    <3>. QED BY <1>2, <3>2, <3>3 DEF Kinds
  <2>. QED BY <1>1, <2>1, <2>2
<1>. QED BY <1>1, <1>2 DEF InKeeper, InBuffer

\* Memory for variables is apart from that for code, as it is unless a client
\* of EngineBuilder asks for it (ExecutionEngine.h:410).
Separate == \A e \in Engines : ~e.AllocateGVsWithCode

VariablesApart == \A v \in Variables : address[v].block \notin Blocks

LEMMA VariablesStayApart ==
  ASSUME Separate, IInv, VariablesApart, [Next]_vars
  PROVE  VariablesApart'
<1>1. ~engine.AllocateGVsWithCode
  BY DEF Separate, IInv, TypeOK
<1>2. CASE UNCHANGED address
  BY <1>2 DEF VariablesApart
<1>3. CASE AllocateGlobal
  <2>. DEFINE w == Next1.to
  <2>1. w \in Variables /\ address' = [address EXCEPT ![w] = Pointer(w, 0)]
    BY <1>3 DEF AllocateGlobal, Unplaced, PlaceVariable
  <2>2. w \notin Blocks
    BY <2>1, JITEmitterAssumption DEF Blocks
  <2>3. address \in [Variables -> Address]
    BY DEF IInv, TypeOK
  <2>. QED BY <2>1, <2>2, <2>3 DEF VariablesApart, Pointer
<1>4. CASE AllocateSpace \/ AllocateInBuffer
  BY <1>1, <1>4 DEF AllocateSpace, AllocateInBuffer
<1>5. ASSUME [Next]_vars, ~AllocateGlobal, ~AllocateSpace, ~AllocateInBuffer PROVE UNCHANGED address
  <2>1. ASSUME NEW f \in Functions, StartFunction(f) \/ FreeMachineCodeForFunction(f) \/ RecompileAndRelinkFunction(f)
        PROVE  UNCHANGED address
    BY <2>1 DEF StartFunction, FreeMachineCodeForFunction, RecompileAndRelinkFunction, names
  <2>2. ASSUME NEW v \in Variables, GetPointerToGlobal(v) PROVE UNCHANGED address
    BY <2>2 DEF GetPointerToGlobal, names
  <2>3. ASSUME Emit PROVE UNCHANGED address
    <3>1. CASE EmitConstantPool \/ EmitWords \/ ReferToFunction \/ ReferToEmitted
      BY <3>1 DEF EmitConstantPool, EmitWords, ReferToFunction, ReferToEmitted, names
    <3>2. CASE AllocateNothing \/ AllocateWild \/ FinishOverflown \/ ResolveRelocations \/ FinishFunction
      BY <3>2 DEF AllocateNothing, AllocateWild, FinishOverflown, ResolveRelocations, FinishFunction, names
    <3>3. CASE RetryWithMoreMemory \/ StartExceptionTable \/ EndExceptionTable \/ ReturnPointer
      BY <3>3 DEF RetryWithMoreMemory, StartExceptionTable, EndExceptionTable, ReturnPointer, names
    <3>. QED BY <1>5, <2>3, <3>1, <3>2, <3>3 DEF Emit
  <2>4. CASE UNCHANGED vars
    BY <2>4 DEF vars, names
  <2>. QED BY <1>5, <2>1, <2>2, <2>3, <2>4 DEF Next
<1>. QED BY <1>2, <1>3, <1>4, <1>5

\* Where variables are apart from code, everything is.
LEMMA AllApart == IInv /\ Memory /\ VariablesApart => EmittedApart
<1>. SUFFICES ASSUME IInv, Memory, VariablesApart PROVE EmittedApart
  OBVIOUS
<1>. DEFINE W(x) == IF x \in Variables
                    THEN [block |-> address[x].block, from |-> address[x].off,
                          to |-> address[x].off + Size[x]]
                    ELSE extent[x[1]][x[2]]
            Things == {x \in Variables \cup (Functions \X Kinds) : W(x).block \in Blocks}
<1>1. CodeApart /\ NoBlock \notin Blocks
  BY MemoryApart, JITEmitterAssumption DEF Blocks, NoBlock
<1>2. ASSUME NEW x \in Things
      PROVE  \E f \in Functions, k \in Kinds : x = <<f, k>> /\ W(x) = extent[f][k] /\ W(x).block # NoBlock
  <2>1. x \notin Variables
    BY DEF VariablesApart
  <2>. QED BY <1>1, <2>1
<1>3. ASSUME NEW x \in Things
      PROVE  /\ block[W(x).block].state # "free" /\ W(x).to <= block[W(x).block].size
             /\ \A y \in Things \ {x} :
                  W(y).block = W(x).block => W(x).to <= W(y).from \/ W(y).to <= W(x).from
  <2>1. PICK f \in Functions, k \in Kinds : x = <<f, k>> /\ W(x) = extent[f][k] /\ W(x).block # NoBlock
    BY <1>2
  <2>2. ASSUME NEW y \in Things \ {x} PROVE W(y).block # W(x).block
    <3>1. PICK g \in Functions, l \in Kinds : y = <<g, l>> /\ W(y) = extent[g][l]
      BY <1>2
    <3>. QED BY <1>1, <2>1, <3>1 DEF CodeApart
  <2>. HIDE DEF W
  <2>3. block[W(x).block].state # "free" /\ W(x).to <= block[W(x).block].size
    BY <1>1, <2>1 DEF CodeApart
  <2>. QED BY <2>2, <2>3
<1>. QED BY <1>3 DEF EmittedApart, Kinds

-----------------------------------------------------------------------------
(***************************************************************************)
(* The emitter uses the memory manager as CodeHeap describes it.           *)
(***************************************************************************)

\* A product is larger by a factor when the other one is larger by one.
LEMMA NextProduct ==
  ASSUME NEW b \in Nat, NEW c \in Nat, NEW n \in Nat \ {0}, b < c
  PROVE  b * n + n <= c * n
<1>1. c - b - 1 \in Nat /\ c = b + 1 + (c - b - 1)
  OBVIOUS
<1>2. c * n = (b + 1) * n + (c - b - 1) * n
  BY <1>1
<1>. QED BY <1>1, <1>2

LEMMA ProductQuotient ==
  ASSUME NEW b \in Nat, NEW n \in Nat \ {0}
  PROVE  (b * n) \div n = b /\ b * n \in Nat
OBVIOUS

\* Blocks have starts of their own, far enough apart.
LEMMA StartApart ==
  ASSUME NEW b \in Blocks, NEW c \in Blocks
  PROVE  /\ Start(b) \in Nat /\ Start(b) \div Stride = b
         /\ b < c => Start(b) + Stride <= Start(c)
         /\ Start(b) = Start(c) => b = c
         /\ Start(b) + Stride <= (MaxBlocks + 1) * Stride
<1>1. b \in Nat /\ c \in Nat /\ Stride \in Nat \ {0} /\ MaxBlocks \in Nat /\ b < MaxBlocks + 1
  BY JITEmitterAssumption DEF Blocks
<1>2. /\ Start(b) \div Stride = b /\ Start(b) \in Nat
      /\ Start(c) \div Stride = c /\ Start(c) \in Nat
  BY <1>1, ProductQuotient DEF Start
<1>3. b < c => Start(b) + Stride <= Start(c)
  BY <1>1, NextProduct DEF Start
<1>4. Start(b) + Stride <= (MaxBlocks + 1) * Stride
  BY <1>1, NextProduct DEF Start
<1>. QED BY <1>2, <1>3, <1>4

\* The regions are the blocks in use.
LEMMA RegionsFact ==
  /\ DOMAIN Regions = {Start(b) : b \in InUse}
  /\ \A b \in InUse : Regions[Start(b)] = block[b].size
  /\ DOMAIN Regions' = {Start(b) : b \in InUse'}
  /\ \A b \in InUse' : Regions'[Start(b)] = block'[b].size
<1>1. \A b \in Blocks : Start(b) \div Stride = b
  BY StartApart
<1>. QED BY <1>1 DEF Regions, InUse

\* Two blocks of legal sizes share no word, and all are in the arena.
LEMMA BlocksApart ==
  ASSUME NEW b \in Blocks, NEW n \in Nat, n <= Stride,
         NEW c \in Blocks, NEW m \in Nat, m <= Stride
  PROVE  /\ b # c => Heap!Apart(Start(b), n, Start(c), m)
         /\ Heap!Within(Arena, Start(b), n)
<1>1. /\ Start(b) \in Nat /\ Start(c) \in Nat /\ Stride \in Nat
      /\ b < c => Start(b) + Stride <= Start(c)
      /\ c < b => Start(c) + Stride <= Start(b)
      /\ Start(b) + Stride <= (MaxBlocks + 1) * Stride
  BY StartApart, JITEmitterAssumption
<1>2. b # c => b < c \/ c < b
  BY DEF Blocks
<1>3. b # c => Heap!Apart(Start(b), n, Start(c), m)
  BY <1>1, <1>2 DEF Heap!Apart
<1>4. (MaxBlocks + 1) * Stride \in Nat
  BY JITEmitterAssumption
<1>. DEFINE A == (MaxBlocks + 1) * Stride
<1>5. 0 \in DOMAIN Arena /\ Arena[0] = A
  BY DEF Arena
<1>. HIDE DEF A
<1>6. 0 <= Start(b) /\ Start(b) + n <= 0 + Arena[0]
  BY <1>1, <1>4, <1>5 DEF A
<1>7. Heap!Within(Arena, Start(b), n)
  BY <1>5, <1>6 DEF Heap!Within
<1>. QED BY <1>3, <1>7

LEMMA ArenaSized == Heap!Sized(Arena) /\ Arena' = Arena
<1>1. (MaxBlocks + 1) * Stride \in Nat
  BY JITEmitterAssumption
<1>. QED BY <1>1 DEF Arena, Heap!Sized

\* No block is free that a function has, and blocks have legal sizes.
LEMMA SizesFact ==
  ASSUME IInv, Memory
  PROVE  /\ \A b \in Blocks : block[b].size \in Nat /\ block[b].size <= Stride
         /\ \A f \in Functions : BlocksOf(f) \subseteq InUse
         /\ \A f, g \in Functions : f # g => BlocksOf(f) \cap BlocksOf(g) = {}
         /\ \A f \in Functions : \A b \in BlocksOf(f) : block[b].state = "kept"
<1>1. \A b \in Blocks : block[b].size \in Nat /\ block[b].size <= Stride
  BY DEF IInv, TypeOK, Memory, BlocksRight
<1>2. ASSUME NEW f \in Functions, NEW b \in BlocksOf(f)
      PROVE  /\ \E k \in Kinds : b = Keeper(f, k)
             /\ b # NoBlock /\ b \in Blocks /\ block[b].state = "kept"
  <2>1. \E k \in Kinds : b = Keeper(f, k)
    BY <1>2 DEF BlocksOf, Keeper, Kinds
  <2>2. b # NoBlock
    BY <1>2 DEF BlocksOf
  <2>. QED BY <2>1, <2>2, WrittenTyped DEF Memory, KeepersRight
<1>3. ASSUME NEW f \in Functions, NEW g \in Functions, f # g PROVE BlocksOf(f) \cap BlocksOf(g) = {}
  BY <1>2, <1>3 DEF Memory, KeepersRight
<1>. QED BY <1>1, <1>2, <1>3 DEF InUse

CodeOf == [f \in Coded |-> {Start(b) : b \in BlocksOf(f)}]

\* A free block is taken: a region is reserved.
LEMMA ReserveStep ==
  ASSUME IInv, Memory, NEW b \in Blocks, Fresh(b),
         NEW s \in {"open", "kept"}, NEW n \in Nat, n <= Stride,
         block' = WithBlock(b, s, n), UNCHANGED <<FunctionBlock, TableBlock>>
  PROVE  Heap!Reserve
<1>1. /\ b \notin InUse /\ InUse' = InUse \cup {b} /\ block'[b].size = n
      /\ \A c \in InUse : block'[c] = block[c]
      /\ InUse \subseteq Blocks
  BY DEF Fresh, WithBlock, IInv, TypeOK, InUse
<1>2. \A c \in Blocks : Start(c) = Start(b) => c = b
  BY StartApart
<1>3. /\ Start(b) \in DOMAIN Regions' \ DOMAIN Regions
      /\ DOMAIN Regions' = DOMAIN Regions \cup {Start(b)}
  BY <1>1, <1>2, RegionsFact
<1>4. Heap!Keeps(Regions, Regions', DOMAIN Regions)
  BY <1>1, RegionsFact DEF Heap!Keeps
<1>5. ASSUME NEW t \in DOMAIN Regions PROVE Heap!Apart(Start(b), Regions'[Start(b)], t, Regions[t])
  <2>1. PICK c \in InUse : t = Start(c) /\ Regions[t] = block[c].size
    BY RegionsFact
  <2>2. Regions'[Start(b)] = n /\ block[c].size \in Nat /\ block[c].size <= Stride
    BY <1>1, RegionsFact, SizesFact
  <2>. QED BY <1>1, <2>1, <2>2, BlocksApart
<1>6. Heap!Sized(Regions')
  <2>. SUFFICES ASSUME NEW x \in DOMAIN Regions'
                PROVE  x \in Nat /\ Regions'[x] \in Nat
    BY DEF Heap!Sized
  <2>1. PICK c \in InUse' : x = Start(c) /\ Regions'[x] = block'[c].size
    BY RegionsFact
  <2>. QED BY <1>1, <2>1, SizesFact, StartApart
<1>7. Heap!Within(Arena', Start(b), Regions'[Start(b)])
  BY <1>1, BlocksApart, ArenaSized, RegionsFact
<1>8. CodeOf' = CodeOf
  BY DEF CodeOf, Coded, BlocksOf
<1>9. Heap!Keeps(Arena, Arena', DOMAIN Arena) /\ DOMAIN Arena \subseteq DOMAIN Arena'
      /\ Heap!Sized(Arena')
  BY ArenaSized DEF Heap!Keeps
<1>. QED BY <1>3, <1>4, <1>5, <1>6, <1>7, <1>8, <1>9 DEF Heap!Reserve, CodeOf

\* The code of the functions, now and after a step.
LEMMA CodeFact ==
  /\ DOMAIN CodeOf = Coded /\ \A f \in Coded : CodeOf[f] = {Start(b) : b \in BlocksOf(f)}
  /\ DOMAIN CodeOf' = Coded' /\ \A f \in Coded' : CodeOf'[f] = {Start(b) : b \in BlocksOf(f)'}
BY DEF CodeOf

\* The open block is kept for a function: a region becomes code.
LEMMA CommitStep ==
  ASSUME IInv, Memory, NEW f \in Functions, NEW b \in Blocks, block[b].state = "open",
         NEW n \in Nat, n <= block[b].size, block' = WithBlock(b, "kept", n),
         \A g \in Functions \ {f} : BlocksOf(g)' = BlocksOf(g),
         b \in BlocksOf(f)', BlocksOf(f)' \ {b} \subseteq BlocksOf(f)
  PROVE  Heap!Commit(f)
<1>. DEFINE s == Start(b)
<1>1. /\ b \in InUse /\ InUse' = InUse /\ block'[b].size = n /\ InUse \subseteq Blocks
      /\ \A c \in InUse \ {b} : block'[c] = block[c]
  BY DEF WithBlock, IInv, TypeOK, InUse
<1>2. \A c \in Blocks : Start(c) = s => c = b
  BY StartApart
<1>3. /\ s \in DOMAIN Regions /\ DOMAIN Regions' = DOMAIN Regions
      /\ Regions[s] = block[b].size /\ Regions'[s] = n
  BY <1>1, RegionsFact
<1>4. Heap!Keeps(Regions, Regions', DOMAIN Regions \ {s})
  BY <1>1, <1>2, RegionsFact DEF Heap!Keeps
<1>5. \A g \in DOMAIN CodeOf : s \notin CodeOf[g]
  <2>. SUFFICES ASSUME NEW g \in Coded, NEW c \in BlocksOf(g), Start(c) = s PROVE FALSE
    BY CodeFact
  <2>1. g \in Functions /\ block[c].state = "kept" /\ c \in Blocks
    BY SizesFact, <1>1 DEF Coded
  <2>. QED BY <1>2, <2>1
<1>6. Coded' = Coded \cup {f}
  BY DEF Coded
<1>7. Heap!Keeps(CodeOf, CodeOf', DOMAIN CodeOf \ {f})
  <2>. SUFFICES ASSUME NEW g \in Coded \ {f} PROVE CodeOf'[g] = CodeOf[g]
    BY CodeFact DEF Heap!Keeps
  <2>. QED BY <1>6, CodeFact DEF Coded
<1>8. CodeOf'[f] = {Start(c) : c \in BlocksOf(f)'} /\ s \in CodeOf'[f]
  BY <1>6, CodeFact
<1>9. CodeOf'[f] \ {s} \subseteq UNION {CodeOf[g] : g \in DOMAIN CodeOf \cap {f}}
  <2>. SUFFICES ASSUME NEW c \in BlocksOf(f)', Start(c) # s
                PROVE  f \in DOMAIN CodeOf /\ Start(c) \in CodeOf[f]
    BY <1>8
  <2>1. c \in BlocksOf(f)
    OBVIOUS
  <2>2. f \in Coded
    BY <2>1 DEF Coded
  <2>. QED BY <2>1, <2>2, CodeFact
<1>10. DOMAIN CodeOf' = DOMAIN CodeOf \cup {f}
  BY <1>6, CodeFact
<1>11. n <= Regions[s]
  BY <1>3
<1>. HIDE DEF s
<1>12. \E t \in DOMAIN Regions :
         /\ \A g \in DOMAIN CodeOf : t \notin CodeOf[g]
         /\ DOMAIN Regions' = DOMAIN Regions
         /\ Heap!Keeps(Regions, Regions', DOMAIN Regions \ {t})
         /\ Regions'[t] \in Nat /\ Regions'[t] <= Regions[t]
         /\ DOMAIN CodeOf' = DOMAIN CodeOf \cup {f}
         /\ Heap!Keeps(CodeOf, CodeOf', DOMAIN CodeOf \ {f})
         /\ t \in CodeOf'[f]
         /\ CodeOf'[f] \ {t} \subseteq UNION {CodeOf[g] : g \in DOMAIN CodeOf \cap {f}}
         /\ UNCHANGED Arena
  BY <1>3, <1>4, <1>5, <1>7, <1>8, <1>9, <1>10, <1>11, ArenaSized
<1>. QED BY <1>12 DEF Heap!Commit, CodeOf

\* A function is freed: its regions are.
LEMMA DiscardStep ==
  ASSUME IInv, Memory, NEW f \in Functions, FunctionBlock[f] # NoBlock, DeallocateMemForFunction(f)
  PROVE  Heap!Discard(f)
<1>1. /\ block' = FreeBlocks({FunctionBlock[f], TableBlock[f]})
      /\ FunctionBlock' = [FunctionBlock EXCEPT ![f] = NoBlock]
      /\ TableBlock' = [TableBlock EXCEPT ![f] = NoBlock]
      /\ {FunctionBlock, TableBlock} \subseteq [Functions -> Blocks \cup {NoBlock}]
      /\ block \in [Blocks -> [state : {"free", "open", "kept"}, size : Nat]]
      /\ NoBlock \notin Blocks
  BY WrittenTyped DEF DeallocateMemForFunction, IInv, TypeOK, Kinds
<1>2. /\ BlocksOf(f)' = {} /\ FunctionBlock[f] \in BlocksOf(f)
      /\ \A g \in Functions \ {f} : BlocksOf(g)' = BlocksOf(g)
  BY <1>1 DEF BlocksOf
<1>3. Coded' = Coded \ {f} /\ f \in Coded
  BY <1>2 DEF Coded
<1>4. InUse' = InUse \ BlocksOf(f) /\ \A c \in InUse' : block'[c] = block[c]
  BY <1>1 DEF InUse, BlocksOf, FreeBlocks
<1>5. CodeOf[f] = {Start(b) : b \in BlocksOf(f)} /\ BlocksOf(f) \subseteq InUse /\ InUse \subseteq Blocks
  BY <1>3, CodeFact, SizesFact DEF InUse
<1>6. DOMAIN Regions' = DOMAIN Regions \ CodeOf[f]
  <2>1. \A c \in InUse, b \in BlocksOf(f) : Start(c) = Start(b) => c = b
    BY <1>5, StartApart
  <2>. QED BY <1>4, <1>5, <2>1, RegionsFact
<1>7. Heap!Keeps(Regions, Regions', DOMAIN Regions')
  BY <1>4, RegionsFact DEF Heap!Keeps
<1>8. DOMAIN CodeOf' = DOMAIN CodeOf \ {f} /\ Heap!Keeps(CodeOf, CodeOf', DOMAIN CodeOf')
  <2>1. ASSUME NEW g \in Coded' PROVE CodeOf'[g] = CodeOf[g]
    BY <1>2, <1>3, CodeFact DEF Coded
  <2>. QED BY <1>3, <2>1, CodeFact DEF Heap!Keeps
<1>9. /\ f \in DOMAIN CodeOf
      /\ DOMAIN Regions' = DOMAIN Regions \ CodeOf[f]
      /\ Heap!Keeps(Regions, Regions', DOMAIN Regions')
      /\ DOMAIN CodeOf' = DOMAIN CodeOf \ {f}
      /\ Heap!Keeps(CodeOf, CodeOf', DOMAIN CodeOf')
      /\ UNCHANGED Arena
  BY <1>3, <1>6, <1>7, <1>8, CodeFact, ArenaSized
<1>. QED BY <1>9 DEF Heap!Discard, CodeOf

\* What the end of the body or of the exception table keeps.
LEMMA KeepStep ==
  ASSUME IInv, Memory, job.phase \in Emitting,
         block' = WithBlock(buf.begin.block, "kept", buf.cur.off),
         \/ /\ FunctionBlock' = [FunctionBlock EXCEPT ![job.fn] = buf.begin.block]
            /\ TableBlock' = TableBlock
         \/ /\ TableBlock' = [TableBlock EXCEPT ![job.fn] = buf.begin.block]
            /\ FunctionBlock' = FunctionBlock
  PROVE  \E f \in Functions : Heap!Commit(f)
<1>1. PICK f \in Functions, b \in Blocks : f = job.fn /\ b = buf.begin.block
  BY OpenBlock
<1>2. /\ block[b].state = "open" /\ buf.cur.off \in Nat /\ buf.cur.off <= block[b].size
      /\ b # NoBlock
  BY <1>1, OpenBlock DEF Open, Memory, BlocksRight
<1>3. {FunctionBlock, TableBlock} \subseteq [Functions -> Blocks \cup {NoBlock}]
  BY DEF IInv, TypeOK
<1>4. /\ \A g \in Functions \ {f} : BlocksOf(g)' = BlocksOf(g)
      /\ b \in BlocksOf(f)' /\ BlocksOf(f)' \ {b} \subseteq BlocksOf(f)
  BY <1>1, <1>2, <1>3 DEF BlocksOf
<1>5. Heap!Commit(f)
  BY <1>1, <1>2, <1>4, CommitStep
<1>. QED BY <1>5

\* Every step of the emitter is a step of the heap, or none.
LEMMA HeapStep ==
  ASSUME IInv, Memory, [Next]_vars
  PROVE  Heap!Next \/ UNCHANGED Heap!heapVars
<1>1. CASE UNCHANGED heap
  BY <1>1, ArenaSized DEF heap, Heap!heapVars, Regions, InUse, Coded, BlocksOf
<1>2. ASSUME NEW f \in Functions, StartFunction(f) PROVE Heap!Next
  <2>1. PICK b \in Blocks, n \in Offers(SizeEstimate) \cap 0 .. Stride :
          Fresh(b) /\ block' = WithBlock(b, "open", n)
    BY <1>2 DEF StartFunction
  <2>2. UNCHANGED <<FunctionBlock, TableBlock>> /\ n \in Nat /\ n <= Stride
    BY <1>2, JITEmitterAssumption DEF StartFunction
  <2>. QED BY <2>1, <2>2, ReserveStep DEF Heap!Next
<1>3. CASE StartExceptionTable
  <2>1. PICK b \in Blocks, n \in Offers(0) \cap 0 .. Stride :
          Fresh(b) /\ block' = WithBlock(b, "open", n)
    BY <1>3 DEF StartExceptionTable
  <2>2. UNCHANGED <<FunctionBlock, TableBlock>> /\ n \in Nat /\ n <= Stride
    BY <1>3, JITEmitterAssumption DEF StartExceptionTable
  <2>. QED BY <2>1, <2>2, ReserveStep DEF Heap!Next
<1>4. CASE AllocateSpace
  <2>1. PICK b \in Blocks : Fresh(b) /\ block' = WithBlock(b, "kept", Size[Next1.to])
    BY <1>4 DEF AllocateSpace
  <2>2. /\ UNCHANGED <<FunctionBlock, TableBlock>> /\ Size[Next1.to] \in Nat /\ Size[Next1.to] <= Stride
    BY <1>4, JITEmitterAssumption DEF AllocateSpace, Unplaced
  <2>. QED BY <2>1, <2>2, ReserveStep DEF Heap!Next
<1>5. CASE FinishOverflown \/ FinishFunction
  BY <1>5, KeepStep DEF FinishOverflown, FinishFunction, EndFunctionBody, Emitting, Heap!Next
<1>6. CASE EndExceptionTable
  BY <1>6, KeepStep DEF EndExceptionTable, Emitting, Heap!Next
<1>7. ASSUME NEW f \in Functions, FreeMachineCodeForFunction(f) PROVE Heap!Next
  BY <1>7, DiscardStep DEF FreeMachineCodeForFunction, Heap!Next
<1>8. CASE RetryWithMoreMemory
  <2>1. job.fn \in Functions /\ FunctionBlock[job.fn] # NoBlock
    BY <1>8 DEF RetryWithMoreMemory, Memory, BlocksRight, IInv, Phases
  <2>. QED BY <1>8, <2>1, DiscardStep DEF RetryWithMoreMemory, Heap!Next
<1>9. ASSUME NEW f \in Functions, RecompileAndRelinkFunction(f) PROVE UNCHANGED heap
  BY <1>9 DEF RecompileAndRelinkFunction
<1>10. ASSUME NEW v \in Variables, GetPointerToGlobal(v) PROVE UNCHANGED heap
  BY <1>10 DEF GetPointerToGlobal
<1>11. CASE EmitConstantPool \/ EmitWords \/ ReferToFunction \/ ReferToEmitted \/ AllocateGlobal
  BY <1>1, <1>11 DEF EmitConstantPool, EmitWords, ReferToFunction, ReferToEmitted, AllocateGlobal
<1>12. CASE AllocateInBuffer \/ AllocateNothing \/ AllocateWild \/ ResolveRelocations \/ ReturnPointer
  BY <1>1, <1>12 DEF AllocateInBuffer, AllocateNothing, AllocateWild, ResolveRelocations, ReturnPointer
<1>13. CASE UNCHANGED vars
  BY <1>1, <1>13 DEF vars
<1>14. CASE Emit
  BY <1>3, <1>4, <1>5, <1>6, <1>8, <1>11, <1>12, <1>14 DEF Emit
<1>. QED BY <1>1, <1>2, <1>7, <1>9, <1>10, <1>13, <1>14 DEF Next

-----------------------------------------------------------------------------
\* Every variable keeps its type and the buffer its order, whatever is retried,
\* placed in between or recompiled.
THEOREM TypeCorrect == Spec => []TypeOK
<1>1. IInv => TypeOK
  BY DEF IInv
<1>. QED BY <1>1, InitInv, NextInv, PTL DEF Spec

\* Where the blocks that are offered hold the exception tables, every function
\* with an address has all of its code and its exception table in the blocks
\* that will be freed for it.
THEOREM AlwaysWhole == ASSUME TablesFit PROVE Spec => []EmittedWhole
BY InitInv, NextInv, WholeBetween, PTL DEF Spec

\* However functions are retried, recompiled and freed and whatever is placed
\* in between, code and exception tables lie in memory in use, each in a block
\* of its own, within what the memory manager keeps of it.
THEOREM AlwaysCodeApart == Spec => []CodeApart
<1>1. Init => IInv /\ Memory
  BY InitInv, InitMemory
<1>2. IInv /\ Memory /\ [Next]_vars => (IInv /\ Memory)'
  BY NextInv, NextMemory
<1>. QED BY <1>1, <1>2, MemoryApart, PTL DEF Spec

\* Where variables have memory of their own, nothing that was written and may
\* be used shares a word with anything else or lies in memory that is free.
THEOREM AlwaysApart == ASSUME Separate PROVE Spec => []EmittedApart
<1>1. Init => IInv /\ Memory /\ VariablesApart
  <2>1. Init => VariablesApart
    BY JITEmitterAssumption DEF Init, VariablesApart, Null, Pointer, Blocks, NoBlock
  <2>. QED BY <2>1, InitInv, InitMemory
<1>2. IInv /\ Memory /\ VariablesApart /\ [Next]_vars => (IInv /\ Memory /\ VariablesApart)'
  BY NextInv, NextMemory, VariablesStayApart
<1>. QED BY <1>1, <1>2, AllApart, PTL DEF Spec

\* A block that is written to is reserved, becomes code of the function when
\* that is finished, too small ones included, keeps its start, and goes back
\* with the function: every step keeps to what CodeHeap says.
THEOREM UsesHeap == Spec => HeapUse
<1>1. Init => IInv /\ Memory
  BY InitInv, InitMemory
<1>2. IInv /\ Memory /\ [Next]_vars => (IInv /\ Memory)'
  BY NextInv, NextMemory
<1>3. Init => Heap!Init
  <2>. SUFFICES ASSUME Init PROVE Heap!Init
    OBVIOUS
  <2>1. InUse = {} /\ Coded = {}
    BY DEF Init, InUse, Coded, BlocksOf
  <2>2. DOMAIN Regions = {}
    BY <2>1, RegionsFact
  <2>. QED BY <2>1, <2>2, ArenaSized DEF Heap!Init
<1>4. IInv /\ Memory /\ [Next]_vars => [Heap!Next]_(Heap!heapVars)
  BY HeapStep DEF Heap!heapVars
<1>. QED BY <1>1, <1>2, <1>3, <1>4, PTL DEF Spec, HeapUse, Heap!Spec
=============================================================================
