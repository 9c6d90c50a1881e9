---------------------------- MODULE Pipes_proofs ----------------------------
(***************************************************************************)
(* Proofs about the two components that talk to a child process through   *)
(* its pipes: PtyPath and VibeLens.  Both rest on facts about sequences    *)
(* that are flattened, cut and folded, proved first.                       *)
(*                                                                         *)
(* PtyPath: what is on its way from the child to the terminal, at every    *)
(* place it passes, is what the child wrote and in order.                  *)
(*                                                                         *)
(* VibeLens: one caller holds the lock; what transport, child and request  *)
(* ids are then follows from where that caller is, so no server is left    *)
(* without a transport, and an answer that is believed is to the request.  *)
(* The explanation is that of the caller's diff, and fits it.              *)
(***************************************************************************)
EXTENDS PtyPath, VibeLens, FiniteSetTheorems, SequenceTheorems, WellFoundedInduction, TLAPS

(* Induction over data.  The induction theorems of the library take an     *)
(* operator, which the provers here cannot instantiate; that the natural   *)
(* numbers are well founded is a statement about sets, and gives induction *)
(* in the form of a set that holds 0 and the successor of each member.     *)

\* A set of natural numbers that is not empty has a least member.
LEMMA LeastNat ==
  ASSUME NEW T, T \subseteq Nat, T # {}
  PROVE  \E n \in T : \A m \in T : n <= m
<1> DEFINE Less == {p \in Nat \X Nat : p[1] < p[2]}
<1>1. IsWellFoundedOn(Less, Nat)
  BY NatLessThanWellFounded DEF OpToRel
<1>2. PICK n \in T : \A m \in T : <<m, n>> \notin Less
  <2> HIDE DEF Less
  <2> QED BY <1>1, WFMin
<1>3. \A m \in T : ~(m < n)
  BY <1>2
<1>4. \A m \in T : n <= m
  BY <1>2, <1>3
<1> QED BY <1>2, <1>4

LEMMA InductiveSet ==
  ASSUME NEW P, 0 \in P, \A n \in Nat : n \in P => n + 1 \in P
  PROVE  \A n \in Nat : n \in P
<1> SUFFICES ASSUME Nat \ P # {} PROVE FALSE
  OBVIOUS
<1>1. PICK n \in Nat \ P : \A m \in Nat \ P : n <= m
  BY LeastNat
<1>2. n # 0 /\ n - 1 \in Nat
  BY <1>1
<1>3. n - 1 \in P
  BY <1>1, <1>2
<1> QED BY <1>1, <1>2, <1>3
-----------------------------------------------------------------------------
(* FlattenSeq, a recursive function over the positions of a sequence.      *)

\* f[i] is the concatenation of the first i of seqs, for i up to n.
Flattens(f, seqs, n) ==
  f = [i \in 1..n |-> IF i = 1 THEN seqs[i] ELSE f[i-1] \o seqs[i]]

LEMMA FlattensAt ==
  ASSUME NEW f, NEW seqs, NEW n, Flattens(f, seqs, n), NEW i \in 1..n
  PROVE  f[i] = IF i = 1 THEN seqs[i] ELSE f[i-1] \o seqs[i]
<1>1. f = [k \in 1..n |-> IF k = 1 THEN seqs[k] ELSE f[k-1] \o seqs[k]]
  BY DEF Flattens
<1> QED BY <1>1, Zenon

LEMMA FlattensNext ==
  ASSUME NEW f, NEW seqs, NEW n, Flattens(f, seqs, n), NEW i \in Nat, i + 1 \in 1..n
  PROVE  f[i + 1] = IF i = 0 THEN seqs[1] ELSE f[i] \o seqs[i + 1]
<1>1. f[i + 1] = IF i + 1 = 1 THEN seqs[i + 1] ELSE f[(i + 1)-1] \o seqs[i + 1]
  BY FlattensAt
<1>2. (i + 1) - 1 = i /\ (i + 1 = 1 <=> i = 0)
  OBVIOUS
<1> QED BY <1>1, <1>2

LEMMA FlatteningExists ==
  ASSUME NEW seqs, NEW m \in Nat
  PROVE  \E f : Flattens(f, seqs, m)
<1> DEFINE P == {n \in Nat : \E f : Flattens(f, seqs, n)}
<1>1. 0 \in P
  <2>1. Flattens([i \in 1..0 |-> {}], seqs, 0)
    BY DEF Flattens
  <2> QED BY <2>1
<1>2. ASSUME NEW n \in Nat, n \in P PROVE n + 1 \in P
  <2>1. PICK f : Flattens(f, seqs, n)
    BY <1>2
  <2> DEFINE g == [i \in 1..(n + 1) |-> IF i \in 1..n THEN f[i]
                                        ELSE IF i = 1 THEN seqs[i] ELSE f[i-1] \o seqs[i]]
  <2>2. ASSUME NEW i \in 1..(n + 1)
        PROVE  g[i] = IF i = 1 THEN seqs[i] ELSE g[i-1] \o seqs[i]
    <3>1. i # 1 => i - 1 \in 1..n /\ g[i-1] = f[i-1]
      OBVIOUS
    <3>2. CASE i \in 1..n
      BY <2>1, <3>1, <3>2 DEF Flattens
    <3>3. CASE i = n + 1
      BY <3>1, <3>3
    <3> QED BY <3>2, <3>3
  <2>3. Flattens(g, seqs, n + 1)
    <3> HIDE DEF g
    <3>1. g = [i \in 1..(n + 1) |-> g[i]]
      BY DEF g
    <3> QED BY <2>2, <3>1 DEF Flattens
  <2> QED BY <2>3
<1> HIDE DEF P
<1>3. \A n \in Nat : n \in P
  BY <1>1, <1>2, InductiveSet
<1> QED BY <1>3 DEF P

\* It is a function of seqs, on which two of them agree...
LEMMA FlatteningUnique ==
  ASSUME NEW seqs, NEW m \in Nat, NEW n \in Nat, NEW f, NEW g,
         Flattens(f, seqs, m), Flattens(g, seqs, n)
  PROVE  \A i \in 1..m : i \in 1..n => f[i] = g[i]
<1> DEFINE P == {i \in Nat : i \in 1..m /\ i \in 1..n => f[i] = g[i]}
<1>1. 0 \in P
  OBVIOUS
<1>2. ASSUME NEW i \in Nat, i \in P PROVE i + 1 \in P
  <2> SUFFICES ASSUME i + 1 \in 1..m, i + 1 \in 1..n PROVE f[i + 1] = g[i + 1]
    OBVIOUS
  <2>1. /\ f[i + 1] = IF i = 0 THEN seqs[1] ELSE f[i] \o seqs[i + 1]
        /\ g[i + 1] = IF i = 0 THEN seqs[1] ELSE g[i] \o seqs[i + 1]
    BY FlattensNext
  <2>2. i # 0 => i \in 1..m /\ i \in 1..n
    OBVIOUS
  <2> QED BY <1>2, <2>1, <2>2
<1> HIDE DEF P
<1>3. \A i \in Nat : i \in P
  BY <1>1, <1>2, InductiveSet
<1> QED BY <1>3 DEF P

\* ... and its values are sequences.
LEMMA FlatteningType ==
  ASSUME NEW S, NEW seqs \in Seq(Seq(S)), NEW f, Flattens(f, seqs, Len(seqs))
  PROVE  \A i \in 1..Len(seqs) : f[i] \in Seq(S)
<1> DEFINE P == {i \in Nat : i \in 1..Len(seqs) => f[i] \in Seq(S)}
<1>1. 0 \in P
  OBVIOUS
<1>2. ASSUME NEW i \in Nat, i \in P PROVE i + 1 \in P
  <2> SUFFICES ASSUME i + 1 \in 1..Len(seqs) PROVE f[i + 1] \in Seq(S)
    OBVIOUS
  <2>1. f[i + 1] = IF i = 0 THEN seqs[1] ELSE f[i] \o seqs[i + 1]
    BY FlattensNext
  <2>2. i # 0 => f[i] \in Seq(S)
    BY <1>2
  <2>3. seqs[i + 1] \in Seq(S)
    OBVIOUS
  <2>4. i # 0 => f[i] \o seqs[i + 1] \in Seq(S)
    BY <2>2, <2>3
  <2> QED BY <2>1, <2>3, <2>4
<1> HIDE DEF P
<1>3. \A i \in Nat : i \in P
  BY <1>1, <1>2, InductiveSet
<1> QED BY <1>3 DEF P

\* FlattenSeq is the last value of any such function.
LEMMA FlattenIs ==
  ASSUME NEW S, NEW seqs \in Seq(Seq(S)), Len(seqs) # 0, NEW f, Flattens(f, seqs, Len(seqs))
  PROVE  FlattenSeq(seqs) = f[Len(seqs)]
<1> DEFINE g == CHOOSE h : Flattens(h, seqs, Len(seqs))
<1>1. Flattens(g, seqs, Len(seqs))
  OBVIOUS
<1>2. FlattenSeq(seqs) = g[Len(seqs)]
  BY DEF FlattenSeq, Flattens
<1> HIDE DEF g
<1>3. g[Len(seqs)] = f[Len(seqs)]
  <2>1. Len(seqs) \in Nat /\ Len(seqs) \in 1..Len(seqs)
    OBVIOUS
  <2> QED BY <1>1, <2>1, FlatteningUnique
<1> QED BY <1>2, <1>3

LEMMA FlattenEmpty == FlattenSeq(<<>>) = <<>>
BY DEF FlattenSeq

LEMMA FlattenType ==
  ASSUME NEW S, NEW seqs \in Seq(Seq(S))
  PROVE  FlattenSeq(seqs) \in Seq(S)
<1>1. CASE Len(seqs) = 0
  <2>1. seqs = <<>>
    BY <1>1
  <2>2. FlattenSeq(seqs) = <<>>
    BY <2>1, FlattenEmpty
  <2>3. <<>> \in Seq(S)
    OBVIOUS
  <2> QED BY <2>2, <2>3
<1>2. CASE Len(seqs) # 0
  <2>0. Len(seqs) \in Nat
    OBVIOUS
  <2>1. PICK f : Flattens(f, seqs, Len(seqs))
    BY <2>0, FlatteningExists
  <2>2. FlattenSeq(seqs) = f[Len(seqs)] /\ Len(seqs) \in 1..Len(seqs)
    BY <1>2, <2>1, FlattenIs
  <2> QED BY <2>1, <2>2, FlatteningType
<1> QED BY <1>1, <1>2

\* Another chunk is concatenated at the end.
LEMMA FlattenAppend ==
  ASSUME NEW S, NEW seqs \in Seq(Seq(S)), NEW chunk \in Seq(S)
  PROVE  FlattenSeq(Append(seqs, chunk)) = FlattenSeq(seqs) \o chunk
<1> DEFINE n == Len(seqs)
           more == Append(seqs, chunk)
<1>1. /\ n \in Nat /\ more \in Seq(Seq(S)) /\ Len(more) = n + 1
      /\ \A i \in 1..n : more[i] = seqs[i]
      /\ more[n + 1] = chunk
  OBVIOUS
<1> HIDE DEF n, more
<1>2. PICK g : Flattens(g, more, n + 1)
  <2>1. n + 1 \in Nat
    BY <1>1
  <2> QED BY <2>1, FlatteningExists
<1>3. FlattenSeq(more) = g[n + 1]
  BY <1>1, <1>2, FlattenIs
<1>4. g[n + 1] = IF n = 0 THEN more[1] ELSE g[n] \o more[n + 1]
  <2>1. n + 1 \in 1..(n + 1)
    BY <1>1
  <2> QED BY <1>1, <1>2, <2>1, FlattensNext
<1>5. CASE n = 0
  <2>1. seqs = <<>>
    BY <1>5 DEF n
  <2>2. FlattenSeq(seqs) \o chunk = chunk
    BY <2>1, FlattenEmpty
  <2> QED BY <1>1, <1>3, <1>4, <1>5, <2>2 DEF more
<1>6. CASE n # 0
  <2> DEFINE f == [i \in 1..n |-> g[i]]
  <2>1. ASSUME NEW i \in 1..n
        PROVE  f[i] = IF i = 1 THEN seqs[i] ELSE f[i-1] \o seqs[i]
    <3>1. i \in 1..(n + 1) /\ (i # 1 => i - 1 \in 1..n)
      BY <1>1
    <3>2. g[i] = IF i = 1 THEN more[i] ELSE g[i-1] \o more[i]
      BY <1>2, <3>1, FlattensAt
    <3> QED BY <1>1, <3>1, <3>2
  <2>2. f = [i \in 1..n |-> f[i]]
    OBVIOUS
  <2>3. f[n] = g[n]
    BY <1>1, <1>6
  <2> HIDE DEF f
  <2>4. Flattens(f, seqs, n)
    BY <2>1, <2>2 DEF Flattens
  <2>5. FlattenSeq(seqs) = f[n]
    BY <2>4, <1>6, FlattenIs DEF n
  <2> QED BY <1>1, <1>3, <1>4, <1>6, <2>3, <2>5 DEF more
<1> QED BY <1>5, <1>6

\* The first chunk comes first.
LEMMA FlattenHead ==
  ASSUME NEW S, NEW seqs \in Seq(Seq(S)), seqs # <<>>
  PROVE  FlattenSeq(seqs) = Head(seqs) \o FlattenSeq(Tail(seqs))
<1> DEFINE n == Len(seqs)
           rest == Tail(seqs)
<1>1. /\ n \in Nat \ {0} /\ Head(seqs) = seqs[1] /\ Head(seqs) \in Seq(S)
      /\ rest \in Seq(Seq(S)) /\ Len(rest) = n - 1
      /\ \A i \in 1..(n - 1) : rest[i] = seqs[i + 1] /\ rest[i] \in Seq(S)
  OBVIOUS
<1>2. PICK f : Flattens(f, seqs, n)
  BY <1>1, FlatteningExists
<1>3. FlattenSeq(seqs) = f[n]
  BY <1>1, <1>2, FlattenIs
<1>4. f[1] = seqs[1]
  BY <1>1, <1>2, FlattensAt
<1> HIDE DEF n, rest
<1>5. CASE n = 1
  <2>1. rest = <<>>
    BY <1>1, <1>5
  <2>2. Head(seqs) \o FlattenSeq(rest) = Head(seqs)
    BY <1>1, <2>1, FlattenEmpty
  <2> QED BY <1>1, <1>3, <1>4, <1>5, <2>2 DEF rest
<1>6. CASE n # 1
  <2>1. PICK g : Flattens(g, rest, n - 1)
    <3>1. n - 1 \in Nat
      BY <1>1
    <3> QED BY <3>1, FlatteningExists
  <2>2. FlattenSeq(rest) = g[n - 1]
    BY <1>1, <1>6, <2>1, FlattenIs
  <2>3. \A i \in 1..(n - 1) : g[i] \in Seq(S)
    BY <1>1, <2>1, FlatteningType
  <2> DEFINE P == {i \in Nat : i \in 1..(n - 1) => f[i + 1] = Head(seqs) \o g[i]}
  <2>4. 0 \in P
    OBVIOUS
  <2>5. ASSUME NEW i \in Nat, i \in P PROVE i + 1 \in P
    <3>0. i + 1 \in Nat
      OBVIOUS
    <3> SUFFICES ASSUME i + 1 \in 1..(n - 1)
                 PROVE  f[(i + 1) + 1] = Head(seqs) \o g[i + 1]
      BY <3>0
    <3>1. f[(i + 1) + 1] = f[i + 1] \o seqs[(i + 1) + 1]
      <4>1. i + 1 \in Nat /\ (i + 1) + 1 \in 1..n /\ i + 1 # 0
        BY <1>1
      <4> QED BY <1>2, <4>1, FlattensNext
    <3>2. g[i + 1] = IF i = 0 THEN rest[1] ELSE g[i] \o rest[i + 1]
      BY <2>1, FlattensNext
    <3>3. seqs[(i + 1) + 1] = rest[i + 1] /\ rest[i + 1] \in Seq(S)
      BY <1>1
    <3>4. CASE i = 0
      <4>1. f[i + 1] = Head(seqs)
        BY <1>1, <1>4, <3>4
      <4>2. g[i + 1] = rest[i + 1]
        BY <3>2, <3>4
      <4> QED BY <3>1, <3>3, <4>1, <4>2
    <3>5. CASE i # 0
      <4>1. i \in 1..(n - 1)
        BY <1>1, <3>5
      <4>2. f[i + 1] = Head(seqs) \o g[i] /\ g[i] \in Seq(S)
        BY <2>3, <2>5, <4>1
      <4>3. (Head(seqs) \o g[i]) \o rest[i + 1] = Head(seqs) \o (g[i] \o rest[i + 1])
        <5> DEFINE a == Head(seqs)  b == g[i]  c == rest[i + 1]
        <5>1. a \in Seq(S) /\ b \in Seq(S) /\ c \in Seq(S)
          BY <1>1, <3>3, <4>2
        <5> HIDE DEF a, b, c
        <5>2. (a \o b) \o c = a \o (b \o c)
          BY ONLY <5>1, ConcatAssociative
        <5> QED BY <5>2 DEF a, b, c
      <4> QED BY <3>1, <3>2, <3>3, <3>5, <4>2, <4>3
    <3> QED BY <3>4, <3>5
  <2> HIDE DEF P
  <2>6. \A i \in Nat : i \in P
    BY <2>4, <2>5, InductiveSet
  <2>7. f[n] = Head(seqs) \o g[n - 1]
    <3>1. n - 1 \in Nat /\ n - 1 \in 1..(n - 1) /\ (n - 1) + 1 = n
      BY <1>1, <1>6
    <3>2. f[(n - 1) + 1] = Head(seqs) \o g[n - 1]
      BY <2>6, <3>1 DEF P
    <3> QED BY <3>1, <3>2
  <2> QED BY <1>3, <2>2, <2>7 DEF rest
<1> QED BY <1>5, <1>6
-----------------------------------------------------------------------------
(* Cutting and joining.                                                    *)

\* A sequence is what is cut off at n and what remains.
LEMMA CutAt ==
  ASSUME NEW S, NEW s \in Seq(S), NEW n \in 1..Len(s)
  PROVE  /\ SubSeq(s, 1, n) \in Seq(S) /\ SubSeq(s, n + 1, Len(s)) \in Seq(S)
         /\ SubSeq(s, 1, n) \o SubSeq(s, n + 1, Len(s)) = s
<1>1. Len(s) \in Nat /\ n \in Nat /\ 1 \in 1..Len(s)+1 /\ n \in 0..Len(s) /\ Len(s) \in n..Len(s)
  OBVIOUS
<1>2. SubSeq(s, 1, n) \in Seq(S) /\ SubSeq(s, n + 1, Len(s)) \in Seq(S)
  BY <1>1
<1>3. SubSeq(s, 1, n) \o SubSeq(s, n + 1, Len(s)) = SubSeq(s, 1, Len(s))
  <2>1. n \in (1 - 1)..Len(s)
    BY <1>1
  <2> QED BY ONLY <1>1, <2>1, s \in Seq(S), ConcatAdjacentSubSeq
<1>4. SubSeq(s, 1, Len(s)) = s
  BY SubSeqFull
<1> QED BY <1>2, <1>3, <1>4

LEMMA Join ==
  ASSUME NEW x \in Seq(Bytes), NEW a \in Seq(Bytes), NEW b \in Seq(Bytes)
  PROVE  (x \o a) \o b = x \o (a \o b)
BY ConcatAssociative

\* Concatenation under a name, for the leaves that are to use one law of it and
\* no other.
Cat(s, t) == s \o t

\* What is taken from the one end of a queue and joined to the other.
LEMMA CatRegroup ==
  ASSUME NEW x \in Seq(Bytes), NEW a \in Seq(Bytes), NEW b \in Seq(Bytes), NEW c \in Seq(Bytes)
  PROVE  Cat(Cat(x, Cat(a, b)), c) = Cat(Cat(x, a), Cat(b, c))
<1>1. x \o (a \o b) = (x \o a) \o b
  BY Join
<1> DEFINE y == x \o a
<1>2. y \in Seq(Bytes)
  OBVIOUS
<1> HIDE DEF y
<1>3. (y \o b) \o c = y \o (b \o c)
  BY <1>2, Join
<1> QED BY <1>1, <1>3 DEF y, Cat
-----------------------------------------------------------------------------
(* The inductive invariant: besides the types, chunks are early only       *)
(* before there is a terminal, and how far the threads are.                *)

EarlyOnlyBefore ==
  /\ pane # "absent" => early = <<>>
  /\ spawn = "none" => /\ early = <<>> /\ channel = <<>> /\ ipc = <<>>
                       /\ child = "none" /\ main = "idle" /\ closing = "none"
                       /\ pane = "absent"
  /\ pane = "torn" => channel = <<>>

\* The read thread leaves its loop by the flag or at the end of the output, and
\* the forwarder leaves its own when there is nothing left of either, unless the
\* webview is gone.
ThreadFacts ==
  /\ child = "none" => reader = "none" /\ forwarder = "none"
  /\ exited => forwarder = "done"
  /\ reader \in {"join", "done"} => stop \/ (SlaveClosed /\ tty = <<>>) \/ pane = "torn"
  /\ forwarder = "done" => \/ reader \in {"join", "done"} /\ rx = <<>> /\ buf = <<>>
                           \/ pane = "torn"

PtyShape == PtyTypeOK /\ EarlyOnlyBefore /\ ThreadFacts

\* What the child wrote, from the screen back to the PTY.
OnTheWay ==
  screen \o FlattenSeq(early) \o FlattenSeq(channel) \o buf \o FlattenSeq(rx) \o tty
InOrder == OnTheWay = [n \in 1..written |-> n]

\* The types in three parts: the queues, the flags, and the rest.
QueueType ==
  /\ screen \in Seq(Bytes) /\ buf \in Seq(Bytes) /\ tty \in Seq(Bytes)
  /\ early \in Seq(Seq(Bytes)) /\ channel \in Seq(Seq(Bytes)) /\ rx \in Seq(Seq(Bytes))
  /\ ipc \in Seq(Calls)
ControlType ==
  /\ kind \in {"shell", "session"} /\ pane \in {"absent", "mounted", "gone", "torn"}
  /\ spawn \in {"none", "asked", "open", "up", "told", "failed"}
  /\ closing \in {"none", "asked", "kill", "join", "closed"}
  /\ main \in {"idle", "input", "writing", "resize", "kill", "shutdown", "join"}
  /\ keys \in 0..MaxKeys /\ written \in 0..MaxBytes /\ input \in 0..InCap
  /\ reader \in {"none", "top", "read", "join", "done"}
  /\ forwarder \in {"none", "recv", "done"}
  /\ child \in {"none", "running", "off", "left", "dead"}
FlagType == registered \in BOOLEAN /\ stop \in BOOLEAN /\ exited \in BOOLEAN /\ deaf \in BOOLEAN

LEMMA TypeParts == PtyTypeOK <=> QueueType /\ ControlType /\ FlagType
BY DEF PtyTypeOK, QueueType, ControlType, FlagType

LEMMA ShapeInit == Init => PtyShape
<1> SUFFICES ASSUME Init PROVE PtyShape
  OBVIOUS
<1>1. QueueType
  BY DEF Init, QueueType
<1>2. ControlType
  BY PtyAssumption DEF Init, ControlType
<1>3. FlagType
  BY DEF Init, FlagType
<1>4. EarlyOnlyBefore /\ ThreadFacts
  BY DEF Init, EarlyOnlyBefore, ThreadFacts
<1> QED BY <1>1, <1>2, <1>3, <1>4, TypeParts DEF PtyShape

LEMMA ControlStep == ControlType /\ QueueType /\ [Next]_vars => ControlType'
<1> SUFFICES ASSUME ControlType, QueueType, [Next]_vars PROVE ControlType'
  OBVIOUS
<1> USE PtyAssumption DEF ControlType, uiVars, callVars, threadVars, childVars
<1>1. CASE AskSpawn \/ UnmountShell \/ AskClose \/ MountSession \/ UnmountSession
  BY <1>1 DEF AskSpawn, UnmountShell, AskClose, MountSession, UnmountSession
<1>2. CASE \E op \in {"input", "resize"} : Key(op)
  BY <1>2 DEF Key
<1>3. CASE Deliver \/ SpawnTold
  BY <1>3 DEF Deliver, SpawnTold
<1>4. CASE TakeCall
  <2>1. Head(ipc) \in Calls
    BY <1>4 DEF TakeCall, QueueType
  <2>2. /\ main' = IF Head(ipc) \in {"spawn", "close"} THEN "idle" ELSE Head(ipc)
        /\ spawn' = IF Head(ipc) = "spawn" THEN "open" ELSE spawn
        /\ closing' = IF Head(ipc) = "close" THEN "kill" ELSE closing
    BY <1>4 DEF TakeCall
  <2> HIDE DEF QueueType
  <2>3. main' \in {"idle", "input", "resize", "kill"}
    BY <2>1, <2>2 DEF Calls
  <2> QED BY <1>4, <2>2, <2>3 DEF TakeCall
<1>5. CASE send_input \/ pty_resize \/ pty_kill
  BY <1>5 DEF send_input, pty_resize, pty_kill
<1>6. CASE Write
  BY <1>6 DEF Write, SlaveClosed
<1>7. CASE ShutdownFlag \/ ShutdownKill \/ ShutdownJoin
  BY <1>7 DEF ShutdownFlag, ShutdownKill, ShutdownJoin, ChildEnds
<1>8. CASE OpenPty \/ OpenFails \/ Register \/ close_session
  BY <1>8 DEF OpenPty, OpenFails, Register, close_session
<1>9. CASE ReadTop \/ ReadEof \/ ReaderJoin
  BY <1>9 DEF ReadTop, ReadEof, ReaderJoin
<1>10. CASE \E n \in 1..MaxChunk : Read(n) \/ ReadUnsent(n)
  BY <1>10 DEF Read, ReadUnsent
<1>11. CASE Forward \/ ForwardTimeout \/ ForwardFails \/ ForwardExit
  BY <1>11 DEF Forward, ForwardTimeout, ForwardFails, ForwardExit
<1>12. CASE ChildWrites
  BY <1>12 DEF ChildWrites
<1>13. CASE ChildReads
  BY <1>13 DEF ChildReads
<1>14. CASE ChildStopsReading \/ ChildExits \/ ChildDetaches \/ DescendantEnds
  BY <1>14 DEF ChildStopsReading, ChildExits, ChildDetaches, DescendantEnds, ChildEnds
<1>15. CASE WebviewGone \/ UNCHANGED vars
  BY <1>15 DEF WebviewGone, vars
<1> QED
  BY <1>1, <1>2, <1>3, <1>4, <1>5, <1>6, <1>7, <1>8, <1>9, <1>10, <1>11, <1>12, <1>13, <1>14,
     <1>15 DEF Next, UiStep, AppStep, ReaderStep, ForwarderStep

LEMMA FlagStep == FlagType /\ [Next]_vars => FlagType'
<1> SUFFICES ASSUME FlagType, [Next]_vars PROVE FlagType'
  OBVIOUS
<1> USE DEF FlagType, uiVars, callVars, threadVars, childVars
<1>1. CASE AskSpawn \/ UnmountShell \/ AskClose \/ MountSession \/ UnmountSession
  BY <1>1, ZenonT(60) DEF AskSpawn, UnmountShell, AskClose, MountSession, UnmountSession
<1>2. CASE \E op \in {"input", "resize"} : Key(op)
  BY <1>2, ZenonT(60) DEF Key
<1>3. CASE Deliver \/ SpawnTold \/ TakeCall
  BY <1>3, ZenonT(60) DEF Deliver, SpawnTold, TakeCall
<1>4. CASE send_input \/ Write \/ pty_resize \/ pty_kill
  BY <1>4, ZenonT(60) DEF send_input, Write, pty_resize, pty_kill
<1>5. CASE ShutdownFlag \/ ShutdownKill \/ ShutdownJoin
  BY <1>5, ZenonT(60) DEF ShutdownFlag, ShutdownKill, ShutdownJoin, ChildEnds
<1>6. CASE OpenPty \/ OpenFails \/ Register \/ close_session
  BY <1>6, ZenonT(60) DEF OpenPty, OpenFails, Register, close_session
<1>7. CASE ReaderStep
  BY <1>7, ZenonT(60) DEF ReaderStep, ReadTop, Read, ReadUnsent, ReadEof, ReaderJoin
<1>8. CASE ForwarderStep
  BY <1>8, ZenonT(60) DEF ForwarderStep, Forward, ForwardTimeout, ForwardFails, ForwardExit
<1>9. CASE ChildWrites \/ ChildReads \/ ChildStopsReading \/ ChildExits \/ ChildDetaches
           \/ DescendantEnds
  BY <1>9, ZenonT(60)
     DEF ChildWrites, ChildReads, ChildStopsReading, ChildExits, ChildDetaches, DescendantEnds, ChildEnds
<1>10. CASE WebviewGone \/ UNCHANGED vars
  BY <1>10, ZenonT(60) DEF WebviewGone, vars
<1> QED
  BY <1>1, <1>2, <1>3, <1>4, <1>5, <1>6, <1>7, <1>8, <1>9, <1>10 DEF Next, UiStep, AppStep

\* What Forward does to the queues: with the message it takes, what is sent and
\* what stays in the Coalescer are what was there, as long as there is a webview to
\* send it to.
LEMMA ForwardCut ==
  ASSUME QueueType, Forward
  PROVE  /\ Head(rx) \in Seq(Bytes) /\ rx' \in Seq(Seq(Bytes)) /\ buf' \in Seq(Bytes)
         /\ \/ channel' = channel /\ (buf' = buf \o Head(rx) \/ pane = "torn")
            \/ \E chunk \in Seq(Bytes) : /\ channel' = Append(channel, chunk)
                                         /\ chunk \o buf' = buf \o Head(rx)
<1> DEFINE all == buf \o Head(rx)
<1>1. Head(rx) \in Seq(Bytes) /\ rx' \in Seq(Seq(Bytes)) /\ buf \in Seq(Bytes)
  BY DEF Forward, QueueType
<1>2. all \in Seq(Bytes)
  BY <1>1
<1>3. push(Head(rx))
  BY DEF Forward
<1>4. CASE Len(all) >= MaxChunk
  <2> DEFINE chunk == SubSeq(all, 1, MaxChunk)
  <2>1. /\ channel' = Append(channel, chunk) \/ (pane = "torn" /\ channel' = channel)
        /\ buf' = SubSeq(all, MaxChunk + 1, Len(all))
    BY <1>3, <1>4 DEF push, send
  <2> HIDE DEF all
  <2>2. MaxChunk \in 1..Len(all)
    BY <1>2, <1>4, PtyAssumption
  <2>3. /\ chunk \in Seq(Bytes) /\ SubSeq(all, MaxChunk + 1, Len(all)) \in Seq(Bytes)
        /\ chunk \o SubSeq(all, MaxChunk + 1, Len(all)) = all
    BY ONLY <1>2, <2>2, CutAt
  <2> HIDE DEF chunk
  <2> QED BY <1>1, <2>1, <2>3 DEF all
<1>5. CASE ~(Len(all) >= MaxChunk)
  <2>1. channel' = channel /\ buf' = all
    BY <1>3, <1>5 DEF push
  <2> QED BY <1>1, <1>2, <2>1
<1> QED BY <1>4, <1>5

LEMMA QueueStep == ControlType /\ QueueType /\ [Next]_vars => QueueType'
<1> SUFFICES ASSUME ControlType, QueueType, [Next]_vars PROVE QueueType'
  OBVIOUS
<1> USE DEF QueueType, uiVars, callVars, threadVars, childVars
<1>1. CASE AskSpawn \/ UnmountShell \/ AskClose \/ UnmountSession \/ SpawnTold
  <2>1. Append(ipc, "spawn") \in Seq(Calls) /\ Append(ipc, "kill") \in Seq(Calls)
        /\ Append(ipc, "close") \in Seq(Calls)
    BY DEF Calls
  <2> QED BY <1>1, <2>1 DEF AskSpawn, UnmountShell, AskClose, UnmountSession, SpawnTold
<1>2. CASE \E op \in {"input", "resize"} : Key(op)
  BY <1>2 DEF Key, Calls
<1>3. CASE MountSession
  <2>1. FlattenSeq(early) \in Seq(Bytes)
    BY FlattenType
  <2> QED BY <1>3, <2>1 DEF MountSession
<1>4. CASE Deliver
  <2>1. Head(channel) \in Seq(Bytes) /\ Tail(channel) \in Seq(Seq(Bytes))
    BY <1>4 DEF Deliver
  <2> QED BY <1>4, <2>1 DEF Deliver
<1>5. CASE TakeCall
  <2>1. ipc' \in Seq(Calls)
    BY <1>5 DEF TakeCall
  <2> QED BY <1>5, <2>1 DEF TakeCall
<1>6. CASE send_input \/ Write \/ pty_resize \/ pty_kill
  BY <1>6 DEF send_input, Write, pty_resize, pty_kill
<1>7. CASE ShutdownFlag \/ ShutdownKill \/ ShutdownJoin
  BY <1>7 DEF ShutdownFlag, ShutdownKill, ShutdownJoin
<1>8. CASE OpenPty \/ OpenFails \/ Register \/ close_session
  BY <1>8 DEF OpenPty, OpenFails, Register, close_session
<1>9. CASE ReadTop \/ ReadEof \/ ReaderJoin
  BY <1>9 DEF ReadTop, ReadEof, ReaderJoin
<1>10. CASE \E n \in 1..MaxChunk : Read(n) \/ ReadUnsent(n)
  <2>1. PICK n \in 1..Len(tty) : Read(n) \/ ReadUnsent(n)
    BY <1>10 DEF Read, ReadUnsent
  <2>2. SubSeq(tty, 1, n) \in Seq(Bytes) /\ SubSeq(tty, n + 1, Len(tty)) \in Seq(Bytes)
    BY CutAt
  <2>3. CASE Read(n)
    BY <2>2, <2>3 DEF Read
  <2>4. CASE ReadUnsent(n)
    BY <2>2, <2>4 DEF ReadUnsent
  <2> QED BY <2>1, <2>3, <2>4
<1>11. CASE Forward
  <2>1. channel' \in Seq(Seq(Bytes))
    <3>1. CASE channel' = channel
      BY <3>1
    <3>2. ASSUME NEW chunk \in Seq(Bytes), channel' = Append(channel, chunk)
          PROVE  channel' \in Seq(Seq(Bytes))
      BY <3>2
    <3> QED BY <1>11, <3>1, <3>2, ForwardCut
  <2> QED BY <1>11, <2>1, ForwardCut DEF Forward
<1>12. CASE ForwardTimeout \/ ForwardExit
  <2>1. channel' \in {channel, Append(channel, buf)} /\ buf' = <<>>
    BY <1>12 DEF ForwardTimeout, ForwardExit, drain, send
  <2>2. Append(channel, buf) \in Seq(Seq(Bytes)) /\ <<>> \in Seq(Bytes)
    OBVIOUS
  <2>3. channel' \in Seq(Seq(Bytes)) /\ buf' \in Seq(Bytes)
    BY <2>1, <2>2
  <2> QED BY <1>12, <2>3 DEF ForwardTimeout, ForwardExit
<1>13. CASE ChildWrites
  <2>1. written + 1 \in Bytes
    BY <1>13, PtyAssumption DEF ChildWrites, Bytes, ControlType
  <2> QED BY <1>13, <2>1 DEF ChildWrites
<1>14. CASE ChildReads \/ ChildStopsReading \/ ChildExits \/ ChildDetaches \/ DescendantEnds
  BY <1>14 DEF ChildReads, ChildStopsReading, ChildExits, ChildDetaches, DescendantEnds
<1>15. CASE ForwardFails \/ WebviewGone \/ UNCHANGED vars
  <2>1. <<>> \in Seq(Bytes) /\ <<>> \in Seq(Seq(Bytes))
    OBVIOUS
  <2> QED BY <1>15, <2>1 DEF ForwardFails, WebviewGone, vars
<1> QED
  BY <1>1, <1>2, <1>3, <1>4, <1>5, <1>6, <1>7, <1>8, <1>9, <1>10, <1>11, <1>12, <1>13, <1>14,
     <1>15 DEF Next, UiStep, AppStep, ReaderStep, ForwarderStep

LEMMA ThreadStep ==
  ControlType /\ EarlyOnlyBefore /\ ThreadFacts /\ [Next]_vars => (EarlyOnlyBefore /\ ThreadFacts)'
<1> SUFFICES ASSUME ControlType, EarlyOnlyBefore, ThreadFacts, [Next]_vars
             PROVE  (EarlyOnlyBefore /\ ThreadFacts)'
  OBVIOUS
<1> USE DEF ControlType, EarlyOnlyBefore, ThreadFacts, SlaveClosed, uiVars, callVars, threadVars, childVars
<1>1. CASE AskSpawn \/ UnmountShell \/ AskClose \/ UnmountSession \/ MountSession
  BY <1>1 DEF AskSpawn, UnmountShell, AskClose, UnmountSession, MountSession
<1>2. CASE \E op \in {"input", "resize"} : Key(op)
  BY <1>2 DEF Key
<1>3. CASE Deliver \/ SpawnTold
  BY <1>3 DEF Deliver, SpawnTold
<1>4. CASE TakeCall
  BY <1>4 DEF TakeCall
<1>5. CASE send_input \/ Write \/ pty_resize \/ pty_kill
  BY <1>5 DEF send_input, Write, pty_resize, pty_kill
<1>6. CASE ShutdownFlag \/ ShutdownKill \/ ShutdownJoin
  BY <1>6 DEF ShutdownFlag, ShutdownKill, ShutdownJoin, ShuttingDown, ChildEnds
<1>7. CASE OpenPty \/ OpenFails \/ Register \/ close_session
  BY <1>7 DEF OpenPty, OpenFails, Register, close_session
<1>8. CASE ReadTop \/ ReadEof \/ ReaderJoin
  BY <1>8 DEF ReadTop, ReadEof, ReaderJoin
<1>9. CASE \E n \in 1..MaxChunk : Read(n) \/ ReadUnsent(n)
  BY <1>9 DEF Read, ReadUnsent
<1>10. CASE Forward
  BY <1>10 DEF Forward, push, send
<1>11. CASE ForwardTimeout \/ ForwardFails \/ ForwardExit
  BY <1>11 DEF ForwardTimeout, ForwardFails, ForwardExit, drain, send
<1>12. CASE ChildWrites \/ ChildReads \/ ChildStopsReading \/ ChildExits \/ ChildDetaches
            \/ DescendantEnds
  BY <1>12 DEF ChildWrites, ChildReads, ChildStopsReading, ChildExits, ChildDetaches,
               DescendantEnds, ChildEnds
<1>13. CASE WebviewGone \/ UNCHANGED vars
  BY <1>13 DEF WebviewGone, vars
<1> QED
  BY <1>1, <1>2, <1>3, <1>4, <1>5, <1>6, <1>7, <1>8, <1>9, <1>10, <1>11, <1>12, <1>13
     DEF Next, UiStep, AppStep, ReaderStep, ForwarderStep

LEMMA ShapeStep == PtyShape /\ [Next]_vars => PtyShape'
<1> SUFFICES ASSUME PtyShape, [Next]_vars PROVE PtyShape'
  OBVIOUS
<1>1. QueueType /\ ControlType /\ FlagType /\ EarlyOnlyBefore /\ ThreadFacts
  BY TypeParts DEF PtyShape
<1>2. QueueType' /\ ControlType' /\ FlagType' /\ EarlyOnlyBefore' /\ ThreadFacts'
  BY <1>1, ControlStep, QueueStep, FlagStep, ThreadStep
<1>3. PtyTypeOK'
  BY <1>2 DEF PtyTypeOK, QueueType, ControlType, FlagType
<1> QED BY <1>2, <1>3 DEF PtyShape

-----------------------------------------------------------------------------
(* Every step leaves what is on the way as it is, but for what the child   *)
(* writes.                                                                 *)

LEMMA FlowTypes ==
  ASSUME QueueType
  PROVE  /\ FlattenSeq(early) \in Seq(Bytes) /\ FlattenSeq(channel) \in Seq(Bytes)
         /\ FlattenSeq(rx) \in Seq(Bytes)
         /\ screen \o FlattenSeq(early) \in Seq(Bytes)
         /\ screen \o FlattenSeq(early) \o FlattenSeq(channel) \in Seq(Bytes)
         /\ screen \o FlattenSeq(early) \o FlattenSeq(channel) \o buf \in Seq(Bytes)
         /\ screen \o FlattenSeq(early) \o FlattenSeq(channel) \o buf \o FlattenSeq(rx) \in Seq(Bytes)
<1>1. FlattenSeq(early) \in Seq(Bytes) /\ FlattenSeq(channel) \in Seq(Bytes)
      /\ FlattenSeq(rx) \in Seq(Bytes)
  BY FlattenType DEF QueueType
<1>2. screen \in Seq(Bytes) /\ buf \in Seq(Bytes)
  BY DEF QueueType
<1>3. \A s, t \in Seq(Bytes) : s \o t \in Seq(Bytes)
  OBVIOUS
<1> QED BY <1>1, <1>2, <1>3

\* drainTo writes what arrived early, in one go.
LEMMA MountKeeps == QueueType /\ MountSession => OnTheWay' = OnTheWay
<1> SUFFICES ASSUME QueueType, MountSession PROVE OnTheWay' = OnTheWay
  OBVIOUS
<1>1. /\ screen' = screen \o FlattenSeq(early) /\ early' = <<>>
      /\ channel' = channel /\ buf' = buf /\ rx' = rx /\ tty' = tty
  BY DEF MountSession, threadVars
<1>2. screen' \o FlattenSeq(early') = screen \o FlattenSeq(early)
  BY <1>1, FlowTypes, FlattenEmpty, ConcatEmptySeq
<1> QED BY <1>1, <1>2 DEF OnTheWay

\* A chunk that arrives goes to the screen, or to the end of what is early.
LEMMA DeliverKeeps == QueueType /\ EarlyOnlyBefore /\ Deliver => OnTheWay' = OnTheWay
<1> SUFFICES ASSUME QueueType, EarlyOnlyBefore, Deliver PROVE OnTheWay' = OnTheWay
  OBVIOUS
<1> DEFINE h == Head(channel)
           rest == FlattenSeq(Tail(channel))
           e == FlattenSeq(early)
<1>1. /\ channel' = Tail(channel) /\ buf' = buf /\ rx' = rx /\ tty' = tty
      /\ screen' = IF pane = "absent" THEN screen ELSE screen \o h
      /\ early' = IF pane = "absent" THEN Append(early, h) ELSE early
  BY DEF Deliver, threadVars
<1>2. channel # <<>> /\ channel \in Seq(Seq(Bytes)) /\ early \in Seq(Seq(Bytes)) /\ screen \in Seq(Bytes)
  BY DEF Deliver, QueueType
<1>3. FlattenSeq(channel) = h \o rest
  BY <1>2, FlattenHead
<1>4. h \in Seq(Bytes) /\ Tail(channel) \in Seq(Seq(Bytes))
  BY <1>2
<1>5. rest \in Seq(Bytes) /\ e \in Seq(Bytes)
  BY <1>2, <1>4, FlattenType
<1>6. screen' \o FlattenSeq(early') \o FlattenSeq(channel') = screen \o e \o FlattenSeq(channel)
  <2>1. CASE pane = "absent"
    <3>1. FlattenSeq(early') = e \o h
      BY <1>1, <1>2, <1>4, <2>1, FlattenAppend
    <3> HIDE DEF h, rest, e
    <3>2. (screen \o (e \o h)) \o rest = (screen \o e) \o (h \o rest)
      <4>1. Cat(Cat(screen, Cat(e, h)), rest) = Cat(Cat(screen, e), Cat(h, rest))
        BY <1>2, <1>4, <1>5, CatRegroup
      <4> QED BY <4>1 DEF Cat
    <3>3. screen' = screen /\ FlattenSeq(channel') = rest
      BY <1>1, <2>1 DEF rest
    <3> QED BY <1>3, <3>1, <3>2, <3>3
  <2>2. CASE pane # "absent"
    <3>1. e = <<>>
      BY <2>2, FlattenEmpty DEF EarlyOnlyBefore
    <3>2. FlattenSeq(early') = <<>> /\ screen' = screen \o h /\ FlattenSeq(channel') = rest
      BY <1>1, <2>2, <3>1
    <3> HIDE DEF h, rest, e
    <3>3. (screen \o h) \o <<>> = screen \o h /\ screen \o <<>> = screen
      <4>1. screen \o h \in Seq(Bytes)
        BY <1>2, <1>4
      <4> QED BY ONLY <4>1, <1>2, ConcatEmptySeq
    <3>4. (screen \o h) \o rest = screen \o (h \o rest)
      BY <1>2, <1>4, <1>5, Join
    <3> QED BY <1>3, <3>1, <3>2, <3>3, <3>4
  <2> QED BY <2>1, <2>2
<1> HIDE DEF h, rest, e
<1> QED BY <1>1, <1>6 DEF OnTheWay, e

\* A read cuts what is there, and puts the slice behind those of the mpsc.
LEMMA ReadKeeps ==
  ASSUME QueueType, NEW n \in 1..MaxChunk, Read(n)
  PROVE  OnTheWay' = OnTheWay
<1> DEFINE before == screen \o FlattenSeq(early) \o FlattenSeq(channel) \o buf
           slice == SubSeq(tty, 1, n)
           rest == SubSeq(tty, n + 1, Len(tty))
           r == FlattenSeq(rx)
<1>1. /\ screen' = screen /\ early' = early /\ channel' = channel /\ buf' = buf
      /\ rx' = Append(rx, slice) /\ tty' = rest
  BY DEF Read, uiVars
<1>2. slice \in Seq(Bytes) /\ rest \in Seq(Bytes) /\ slice \o rest = tty
  <2>1. n \in 1..Len(tty) /\ tty \in Seq(Bytes)
    BY DEF Read, QueueType
  <2> QED BY ONLY <2>1, CutAt
<1>3. before \in Seq(Bytes) /\ r \in Seq(Bytes)
  BY FlowTypes
<1> HIDE DEF slice, rest
<1>4. FlattenSeq(rx') = r \o slice
  BY <1>1, <1>2, FlattenAppend DEF QueueType
<1>5. OnTheWay = (before \o r) \o tty /\ OnTheWay' = (before \o (r \o slice)) \o rest
  BY <1>1, <1>4 DEF OnTheWay
<1> HIDE DEF before, r
<1>6. (before \o (r \o slice)) \o rest = (before \o r) \o (slice \o rest)
  <2>1. Cat(Cat(before, Cat(r, slice)), rest) = Cat(Cat(before, r), Cat(slice, rest))
    BY <1>2, <1>3, CatRegroup
  <2> QED BY <2>1 DEF Cat
<1> QED BY <1>2, <1>5, <1>6

\* The Coalescer cuts elsewhere than the reads did.
LEMMA ForwardKeeps == QueueType /\ pane # "torn" /\ Forward => OnTheWay' = OnTheWay
<1> SUFFICES ASSUME QueueType, pane # "torn", Forward PROVE OnTheWay' = OnTheWay
  OBVIOUS
<1> DEFINE x == screen \o FlattenSeq(early)
           c == FlattenSeq(channel)
           h == Head(rx)
           r == FlattenSeq(rx')
<1>1. screen' = screen /\ early' = early /\ tty' = tty /\ rx' = Tail(rx) /\ rx # <<>>
  BY DEF Forward, uiVars
<1>2. FlattenSeq(rx) = h \o r
  BY <1>1, FlattenHead DEF QueueType
<1>3. x \in Seq(Bytes) /\ c \in Seq(Bytes) /\ h \in Seq(Bytes) /\ r \in Seq(Bytes)
      /\ buf \in Seq(Bytes) /\ buf' \in Seq(Bytes) /\ channel \in Seq(Seq(Bytes))
  BY FlowTypes, ForwardCut, FlattenType DEF QueueType
<1>4. OnTheWay = (((x \o c) \o buf) \o (h \o r)) \o tty
  BY <1>2 DEF OnTheWay
<1>5. OnTheWay' = (((x \o FlattenSeq(channel')) \o buf') \o r) \o tty
  BY <1>1 DEF OnTheWay
<1>6. (x \o FlattenSeq(channel')) \o buf' = (x \o c) \o (buf \o h)
  <2>1. CASE channel' = channel /\ buf' = buf \o h
    BY <2>1
  <2>2. ASSUME NEW chunk \in Seq(Bytes), channel' = Append(channel, chunk), chunk \o buf' = buf \o h
        PROVE  (x \o FlattenSeq(channel')) \o buf' = (x \o c) \o (buf \o h)
    <3>1. FlattenSeq(channel') = c \o chunk
      BY <1>3, <2>2, FlattenAppend
    <3> HIDE DEF x, c, h, r
    <3>2. (x \o (c \o chunk)) \o buf' = (x \o c) \o (chunk \o buf')
      <4>1. Cat(Cat(x, Cat(c, chunk)), buf') = Cat(Cat(x, c), Cat(chunk, buf'))
        BY <1>3, CatRegroup
      <4> QED BY <4>1 DEF Cat
    <3> QED BY <2>2, <3>1, <3>2
  <2> QED BY <2>1, <2>2, ForwardCut
<1> HIDE DEF x, c, h, r
<1>7. ((x \o c) \o (buf \o h)) \o r = ((x \o c) \o buf) \o (h \o r)
  <2> DEFINE y == x \o c
  <2>1. y \in Seq(Bytes)
    BY <1>3
  <2> HIDE DEF y
  <2>2. Cat(Cat(y, Cat(buf, h)), r) = Cat(Cat(y, buf), Cat(h, r))
    BY <1>3, <2>1, CatRegroup
  <2> QED BY <2>2 DEF Cat, y
<1> QED BY <1>4, <1>5, <1>6, <1>7

\* A flush sends what the Coalescer holds.
LEMMA DrainKeeps ==
  ASSUME QueueType, pane # "torn", drain, UNCHANGED <<screen, early, rx, tty>>
  PROVE  OnTheWay' = OnTheWay
<1> DEFINE x == screen \o FlattenSeq(early)
           c == FlattenSeq(channel)
<1>1. x \in Seq(Bytes) /\ c \in Seq(Bytes) /\ buf \in Seq(Bytes) /\ channel \in Seq(Seq(Bytes))
  BY FlowTypes DEF QueueType
<1>2. (x \o FlattenSeq(channel')) \o buf' = (x \o c) \o buf
  <2>1. CASE buf = <<>>
    BY <2>1 DEF drain
  <2>2. CASE buf # <<>>
    <3>1. channel' = Append(channel, buf) /\ buf' = <<>>
      BY <2>2 DEF drain, send
    <3>2. FlattenSeq(channel') = c \o buf
      BY <1>1, <3>1, FlattenAppend
    <3> HIDE DEF x, c
    <3>3. x \o (c \o buf) = (x \o c) \o buf
      BY <1>1, Join
    <3>4. ((x \o c) \o buf) \o <<>> = (x \o c) \o buf
      <4>1. (x \o c) \o buf \in Seq(Bytes)
        BY <1>1
      <4> QED BY <4>1, ConcatEmptySeq
    <3> QED BY <3>1, <3>2, <3>3, <3>4
  <2> QED BY <2>1, <2>2
<1> QED BY <1>2 DEF OnTheWay

\* The child writes the next byte.
LEMMA WriteAppends ==
  QueueType /\ ControlType /\ InOrder /\ ChildWrites => InOrder'
<1> SUFFICES ASSUME QueueType, ControlType, InOrder, ChildWrites PROVE InOrder'
  OBVIOUS
<1> DEFINE before == screen \o FlattenSeq(early) \o FlattenSeq(channel) \o buf \o FlattenSeq(rx)
           w == written + 1
<1>1. written \in Nat /\ written' = w /\ w \in Bytes /\ tty' = Append(tty, w)
  BY PtyAssumption DEF ChildWrites, ControlType, Bytes
<1>2. before \in Seq(Bytes) /\ tty \in Seq(Bytes)
  BY FlowTypes DEF QueueType
<1>3. OnTheWay = before \o tty /\ OnTheWay' = before \o tty'
  BY DEF OnTheWay, ChildWrites, uiVars, threadVars
<1>4. before \o tty = [n \in 1..written |-> n]
  BY <1>3 DEF InOrder
<1> HIDE DEF before
<1>5. before \o Append(tty, w) = Append(before \o tty, w)
  BY <1>1, <1>2
<1>6. Append([n \in 1..written |-> n], w) = [n \in 1..w |-> n]
  <2>1. [n \in 1..written |-> n] \in Seq(Nat) /\ Len([n \in 1..written |-> n]) = written
    BY <1>1
  <2> QED BY <1>1, <2>1
<1> QED BY <1>1, <1>3, <1>4, <1>5, <1>6 DEF InOrder

LEMMA OrderInit == Init => InOrder
<1> SUFFICES ASSUME Init PROVE InOrder
  OBVIOUS
<1>1. OnTheWay = <<>>
  BY FlattenEmpty DEF Init, OnTheWay
<1>2. [n \in 1..written |-> n] = <<>>
  BY DEF Init
<1> QED BY <1>1, <1>2 DEF InOrder

\* A webview that is gone does not come back.
LEMMA TornStays == PtyShape /\ [Next]_vars /\ pane = "torn" => pane' = "torn"
<1> SUFFICES ASSUME PtyShape, [Next]_vars, pane = "torn" PROVE pane' = "torn"
  OBVIOUS
<1> USE DEF uiVars
<1>1. spawn # "none"
  BY DEF PtyShape, EarlyOnlyBefore
<1>2. CASE AskSpawn \/ UnmountShell \/ AskClose \/ MountSession \/ UnmountSession \/ WebviewGone
  BY <1>1, <1>2 DEF AskSpawn, UnmountShell, AskClose, MountSession, UnmountSession, WebviewGone
<1>3. CASE (\E op \in {"input", "resize"} : Key(op)) \/ Deliver
  BY <1>3 DEF Key, Deliver
<1>4. CASE AppStep
  BY <1>4 DEF AppStep, SpawnTold, TakeCall, send_input, Write, pty_resize, pty_kill,
              ShutdownFlag, ShutdownKill, ShutdownJoin
<1>5. CASE OpenPty \/ OpenFails \/ Register \/ close_session
  BY <1>5 DEF OpenPty, OpenFails, Register, close_session
<1>6. CASE ReaderStep \/ ForwarderStep
  BY <1>6 DEF ReaderStep, ReadTop, Read, ReadUnsent, ReadEof, ReaderJoin,
              ForwarderStep, Forward, ForwardTimeout, ForwardFails, ForwardExit
<1>7. CASE ChildWrites \/ ChildReads \/ ChildStopsReading \/ ChildExits \/ ChildDetaches
           \/ DescendantEnds
  BY <1>7 DEF ChildWrites, ChildReads, ChildStopsReading, ChildExits, ChildDetaches, DescendantEnds
<1>8. CASE UNCHANGED vars
  BY <1>8 DEF vars
<1> QED BY <1>2, <1>3, <1>4, <1>5, <1>6, <1>7, <1>8 DEF Next, UiStep

\* As long as there is a webview, nothing is lost on the way to it.
OrderKept == pane # "torn" => InOrder

LEMMA OrderStep == PtyShape /\ OrderKept /\ [Next]_vars => OrderKept'
<1> SUFFICES ASSUME PtyShape, OrderKept, [Next]_vars, pane' # "torn" PROVE InOrder'
  BY DEF OrderKept
<1>0. pane # "torn" /\ InOrder
  BY TornStays DEF OrderKept
<1>1. QueueType /\ ControlType /\ EarlyOnlyBefore
  BY TypeParts DEF PtyShape
<1>2. ASSUME UNCHANGED written, OnTheWay' = OnTheWay PROVE InOrder'
  BY <1>0, <1>2 DEF InOrder
<1>3. ASSUME UNCHANGED <<screen, early, channel, buf, rx, tty, written>> PROVE InOrder'
  <2>1. OnTheWay' = OnTheWay
    BY <1>3 DEF OnTheWay
  <2> QED BY <1>2, <1>3, <2>1
<1> USE DEF uiVars, callVars, threadVars, childVars
<1>4. CASE MountSession
  BY <1>1, <1>2, <1>4, MountKeeps DEF MountSession
<1>5. CASE Deliver
  BY <1>1, <1>2, <1>5, DeliverKeeps DEF Deliver
<1>6. CASE \E n \in 1..MaxChunk : Read(n)
  BY <1>1, <1>2, <1>6, ReadKeeps DEF Read
<1>7. CASE Forward
  BY <1>0, <1>1, <1>2, <1>7, ForwardKeeps DEF Forward
<1>8. CASE ForwardTimeout \/ ForwardExit
  BY <1>0, <1>1, <1>2, <1>8, DrainKeeps DEF ForwardTimeout, ForwardExit
<1>9. CASE ChildWrites
  BY <1>0, <1>1, <1>9, WriteAppends
<1>10. CASE AskSpawn \/ UnmountShell \/ AskClose \/ UnmountSession \/ SpawnTold
  BY <1>3, <1>10 DEF AskSpawn, UnmountShell, AskClose, UnmountSession, SpawnTold
<1>11. CASE \E op \in {"input", "resize"} : Key(op)
  BY <1>3, <1>11 DEF Key
<1>12. CASE TakeCall \/ send_input \/ Write \/ pty_resize \/ pty_kill
  BY <1>3, <1>12 DEF TakeCall, send_input, Write, pty_resize, pty_kill
<1>13. CASE ShutdownFlag \/ ShutdownKill \/ ShutdownJoin
  BY <1>3, <1>13 DEF ShutdownFlag, ShutdownKill, ShutdownJoin
<1>14. CASE OpenPty \/ OpenFails \/ Register \/ close_session
  BY <1>3, <1>14 DEF OpenPty, OpenFails, Register, close_session
<1>15. CASE ReadTop \/ ReadEof \/ ReaderJoin
  BY <1>3, <1>15 DEF ReadTop, ReadEof, ReaderJoin
<1>16. CASE ChildReads \/ ChildStopsReading \/ ChildExits \/ ChildDetaches \/ DescendantEnds
  BY <1>3, <1>16 DEF ChildReads, ChildStopsReading, ChildExits, ChildDetaches, DescendantEnds
<1>17. CASE UNCHANGED vars
  BY <1>3, <1>17 DEF vars
<1>18. CASE WebviewGone \/ ForwardFails
  BY <1>0, <1>18 DEF WebviewGone, ForwardFails
<1>19. CASE \E n \in 1..MaxChunk : ReadUnsent(n)
  BY <1>0, <1>19 DEF ReadUnsent, PtyShape, ThreadFacts
<1> QED
  BY <1>4, <1>5, <1>6, <1>7, <1>8, <1>9, <1>10, <1>11, <1>12, <1>13, <1>14, <1>15, <1>16, <1>17,
     <1>18, <1>19
     DEF Next, UiStep, AppStep, ReaderStep, ForwarderStep

\* No byte of a PTY's output is lost, doubled or put out of order between the read
\* thread and xterm.js, wherever the chunks are cut, however late the terminal is
\* mounted and whatever kills the PTY, and pty_exit is emitted after the last of them,
\* as long as there is a webview to send them to.
THEOREM OutputIsKept == Spec => []NothingLost
<1>1. Init => PtyShape /\ OrderKept
  BY ShapeInit, OrderInit DEF OrderKept
<1>2. PtyShape /\ OrderKept /\ [Next]_vars => (PtyShape /\ OrderKept)'
  BY ShapeStep, OrderStep
<1>3. PtyShape /\ OrderKept => NothingLost
  <2> SUFFICES ASSUME PtyShape, OrderKept PROVE NothingLost
    OBVIOUS
  <2>1. pane # "torn" /\ exited =>
          rx = <<>> /\ buf = <<>> /\ (stop \/ (SlaveClosed /\ tty = <<>>))
    BY DEF PtyShape, ThreadFacts
  <2>2. PtyTypeOK
    BY DEF PtyShape
  <2> QED BY <2>1, <2>2 DEF NothingLost, OrderKept, InOrder, OnTheWay
<1> QED BY <1>1, <1>2, <1>3, PTL DEF Spec
-----------------------------------------------------------------------------
(* VibeLens.  The lock admits one push at a time; a push that is past its  *)
(* spawn has a transport, and a call has at most one answer under way.     *)

AllDiffs == Diffs \cup {NoDiff}
Jobs == [diff : AllDiffs, built : {build_explanation(d) : d \in AllDiffs},
         id : Ids, told : {"none", "ok", "degraded"}]

VibeTypes ==
  /\ at \in [Callers -> Places]
  /\ job \in [Callers -> Jobs]
  /\ explains \in Ids /\ next_id \in Nat \ {0}
  /\ conn \in [reader : {"none", "reading", "done"}, rx : Seq(Lines)]
  /\ expired \in BOOLEAN
  /\ proc \in [npx : BOOLEAN, server : {"up", "stuck", "dead"}, stdin : Seq(Ids), stdout : Seq(Lines),
              unheard : BOOLEAN]
  /\ outlives \in BOOLEAN /\ asked \in BOOLEAN
  /\ shown \subseteq Ids

\* The transport mutex.
OnePusher == \A c, o \in Callers : at[c] \in InPush /\ at[o] \in InPush => c = o

\* A transport is there from the spawn to the end of a drop, and a server only as long,
\* unless the reader gave it up and the kill of npx did not reach it.
TransportFacts ==
  /\ \A c \in Callers : /\ at[c] = "spawn" => ~Connected
                        /\ at[c] \in InPush \ {"spawn"} => Connected
  /\ ServerAlive => Connected \/ (outlives /\ proc.unheard)
  /\ ServerAlive /\ conn.reader = "done" => proc.unheard
  /\ \A c \in Callers : at[c] = "join" /\ ServerAlive => outlives

\* Every call takes one id, so ids stay within the calls: Unsent is yet to take one.
Unsent == {c \in Callers : at[c] # "idle" /\ job[c].id = 0}
IdFacts ==
  /\ \A c \in Callers : at[c] \in {"lock", "spawn", "init", "notify", "write"} => job[c].id = 0
  /\ IsFiniteSet(Unsent) /\ Cardinality(Unsent) + next_id <= explains + 1

ControlInv == VibeTypes /\ OnePusher /\ TransportFacts /\ IdFacts

\* Caller c alone moves, and its job alone changes.
Moves(c, from, to) ==
  /\ at' \in [Callers -> Places] /\ at[c] = from /\ at'[c] = to
  /\ \A o \in Callers \ {c} : at'[o] = at[o]
JobIs(c, id, told) ==
  /\ job' \in [Callers -> Jobs] /\ job'[c].id = id /\ job'[c].told = told
  /\ \A o \in Callers \ {c} : job'[o] = job[o]

LEMMA GotoIs ==
  ASSUME VibeTypes, NEW c \in Callers, NEW from, NEW to \in Places, Goto(c, from, to)
  PROVE  Moves(c, from, to)
BY DEF VibeTypes, Goto, Moves

LEMMA JobTyped ==
  ASSUME NEW d \in AllDiffs
  PROVE  Job(d) \in Jobs /\ Job(d).id = 0 /\ Job(d).told = "none"
BY VibeLensAssumption DEF Job, Jobs, Ids

LEMMA ReturnIs ==
  ASSUME VibeTypes, NEW c \in Callers, NEW told \in {"ok", "degraded"}, Return(c, told)
  PROVE  Moves(c, at[c], "idle") /\ JobIs(c, 0, told)
<1>1. Moves(c, at[c], "idle")
  BY DEF VibeTypes, Return, Moves, Places
<1>2. NoJob \in Jobs /\ NoJob.id = 0
  BY JobTyped DEF NoJob, AllDiffs
<1>3. [NoJob EXCEPT !.told = told] \in Jobs /\ [NoJob EXCEPT !.told = told].id = 0
      /\ [NoJob EXCEPT !.told = told].told = told
  BY <1>2 DEF Jobs
<1>4. JobIs(c, 0, told)
  BY <1>3 DEF VibeTypes, Return, JobIs
<1> QED
  BY <1>1, <1>4

LEMMA SendIs ==
  ASSUME VibeTypes, NEW c \in Callers, NEW id \in Ids, Send(c, id)
  PROVE  /\ \/ ServerAlive /\ Moves(c, at[c], "wait")
            \/ ~ServerAlive /\ Moves(c, at[c], "drop")
         /\ proc' = proc \/ proc' = [proc EXCEPT !.stdin = Append(@, id)]
BY DEF VibeTypes, Send, Moves, Places

LEMMA VibeInitInv == VibeInit => ControlInv
<1> SUFFICES ASSUME VibeInit PROVE ControlInv
  OBVIOUS
<1>1. NoJob \in Jobs /\ NoJob.id = 0
  BY JobTyped DEF NoJob, AllDiffs
<1>2. /\ at \in [Callers -> Places] /\ job \in [Callers -> Jobs]
      /\ explains \in Ids /\ next_id \in Nat \ {0} /\ shown \subseteq Ids
  BY <1>1, VibeLensAssumption DEF VibeInit, Places, Ids
<1>3. /\ conn \in [reader : {"none", "reading", "done"}, rx : Seq(Lines)]
      /\ proc \in [npx : BOOLEAN, server : {"up", "stuck", "dead"}, stdin : Seq(Ids), stdout : Seq(Lines),
              unheard : BOOLEAN]
  BY DEF VibeInit, NoConn, NoChild
<1>4. VibeTypes
  BY <1>2, <1>3, ZenonT(60) DEF VibeInit, VibeTypes
<1>5. OnePusher /\ TransportFacts
  BY DEF VibeInit, OnePusher, TransportFacts, InPush, NoConn, NoChild, ServerAlive
<1>6. Unsent = {}
  BY DEF VibeInit, Unsent
<1>7. IdFacts
  BY <1>6, FS_EmptySet DEF VibeInit, IdFacts
<1> QED
  BY <1>4, <1>5, <1>7 DEF ControlInv

LEMMA MoveKeepsOne ==
  ASSUME VibeTypes, OnePusher, NEW c \in Callers, NEW from, NEW to, Moves(c, from, to),
         from \in InPush \/ to \notin InPush \/ \A o \in Callers : at[o] \notin InPush
  PROVE  OnePusher'
BY DEF OnePusher, Moves

LEMMA MoveKeepsTransport ==
  ASSUME VibeTypes, TransportFacts, NEW c \in Callers, NEW from, NEW to, Moves(c, from, to),
         conn'.reader = conn.reader, ServerAlive' => ServerAlive,
         proc'.unheard = proc.unheard, outlives' = outlives,
         to = "join" /\ ServerAlive' => outlives,
         to = "spawn" => ~Connected, to \in InPush \ {"spawn"} => Connected
  PROVE  TransportFacts'
BY DEF TransportFacts, Moves, Connected

LEMMA FewerUnsent ==
  ASSUME VibeTypes, IdFacts, Unsent' \subseteq Unsent, next_id' = next_id, explains' = explains
  PROVE  IsFiniteSet(Unsent') /\ Cardinality(Unsent') + next_id' <= explains' + 1
<1>1. /\ IsFiniteSet(Unsent') /\ Cardinality(Unsent') <= Cardinality(Unsent)
      /\ Cardinality(Unsent') \in Nat /\ Cardinality(Unsent) \in Nat
  BY FS_Subset, FS_CardinalityType DEF IdFacts
<1> QED
  BY <1>1, VibeLensAssumption DEF IdFacts, VibeTypes, Ids

\* A move within a call, or back to idle.
LEMMA MoveKeepsIds ==
  ASSUME VibeTypes, IdFacts, NEW c \in Callers, NEW from, NEW to, Moves(c, from, to),
         from # "idle", next_id' = next_id, explains' = explains,
         \/ job' = job /\ (to \in {"lock", "spawn", "init", "notify", "write"} => job[c].id = 0)
         \/ to = "idle" /\ \A o \in Callers \ {c} : job'[o] = job[o]
  PROVE  IdFacts'
<1>1. Unsent' \subseteq Unsent
  BY DEF Unsent, Moves
<1>2. \A o \in Callers : at'[o] \in {"lock", "spawn", "init", "notify", "write"} => job'[o].id = 0
  BY DEF Moves, IdFacts
<1> QED
  BY <1>1, <1>2, FewerUnsent DEF IdFacts

\* A move that leaves the types of all but `at` alone.
LEMMA MoveKeepsTypes ==
  ASSUME VibeTypes, NEW c \in Callers, NEW from, NEW to, Moves(c, from, to),
         job' = job \/ \E id, told : JobIs(c, id, told),
         explains' \in Ids, next_id' \in Nat \ {0}, expired' \in BOOLEAN,
         conn' \in [reader : {"none", "reading", "done"}, rx : Seq(Lines)],
         proc' \in [npx : BOOLEAN, server : {"up", "stuck", "dead"}, stdin : Seq(Ids), stdout : Seq(Lines),
              unheard : BOOLEAN],
         outlives' = outlives, asked' \in BOOLEAN, shown' \subseteq Ids
  PROVE  VibeTypes'
<1>1. job' \in [Callers -> Jobs]
  BY DEF VibeTypes, JobIs
<1>2. outlives' \in BOOLEAN
  BY DEF VibeTypes
<1> QED
  BY <1>1, <1>2, ZenonT(60) DEF VibeTypes, Moves

LEMMA ExplainControl ==
  ASSUME ControlInv, NEW c \in Callers, NEW d \in Diffs, explain(c, d)
  PROVE  ControlInv'
<1> USE DEF ControlInv
<1>1. Moves(c, "idle", "lock")
  BY GotoIs DEF explain, Places
<1>2. JobIs(c, 0, "none")
  BY JobTyped DEF explain, JobIs, VibeTypes, AllDiffs
<1>3. /\ explains \in Nat /\ explains' = explains + 1 /\ explains' \in Ids /\ next_id' = next_id /\ next_id \in Nat
      /\ UNCHANGED <<conn, expired, proc, outlives, asked, shown>>
  BY VibeLensAssumption DEF explain, VibeTypes, Ids
<1>4. VibeTypes'
  <2>1. /\ next_id' \in Nat \ {0} /\ expired' \in BOOLEAN /\ asked' \in BOOLEAN /\ shown' \subseteq Ids
        /\ conn' \in [reader : {"none", "reading", "done"}, rx : Seq(Lines)]
        /\ proc' \in [npx : BOOLEAN, server : {"up", "stuck", "dead"}, stdin : Seq(Ids), stdout : Seq(Lines),
              unheard : BOOLEAN]
    BY <1>3, ZenonT(60) DEF VibeTypes
  <2> QED
    BY <1>1, <1>2, <1>3, <2>1, MoveKeepsTypes
<1>5. OnePusher'
  BY <1>1, MoveKeepsOne DEF InPush
<1>6. TransportFacts'
  BY <1>1, <1>3, MoveKeepsTransport DEF InPush, ServerAlive
<1>7. IdFacts'
  <2>1. Unsent' = Unsent \cup {c} /\ c \notin Unsent
    BY <1>1, <1>2 DEF Unsent, Moves, JobIs
  <2>2. /\ IsFiniteSet(Unsent') /\ Cardinality(Unsent') = Cardinality(Unsent) + 1
        /\ Cardinality(Unsent) \in Nat
    BY <2>1, FS_AddElement, FS_CardinalityType DEF IdFacts
  <2>3. \A o \in Callers : at'[o] \in {"lock", "spawn", "init", "notify", "write"} => job'[o].id = 0
    BY <1>1, <1>2 DEF Moves, JobIs, IdFacts
  <2> QED
    BY <1>3, <2>2, <2>3 DEF IdFacts
<1> QED
  BY <1>4, <1>5, <1>6, <1>7

\* The parts of the type that a step leaves alone.
ConnTyped == conn \in [reader : {"none", "reading", "done"}, rx : Seq(Lines)]
ChildTyped == proc \in [npx : BOOLEAN, server : {"up", "stuck", "dead"}, stdin : Seq(Ids), stdout : Seq(Lines),
              unheard : BOOLEAN]
CountersTyped == explains \in Ids /\ next_id \in Nat \ {0} /\ shown \subseteq Ids
FlagsTyped == expired \in BOOLEAN /\ asked \in BOOLEAN

LEMMA PartsTyped == VibeTypes => ConnTyped /\ ChildTyped /\ CountersTyped /\ FlagsTyped
BY ZenonT(60) DEF VibeTypes, ConnTyped, ChildTyped, CountersTyped, FlagsTyped

LEMMA TypesFromParts ==
  ASSUME VibeTypes, NEW c \in Callers, NEW from, NEW to, Moves(c, from, to),
         job' = job \/ \E id, told : JobIs(c, id, told),
         ConnTyped', ChildTyped', CountersTyped', FlagsTyped', outlives' = outlives
  PROVE  VibeTypes'
BY MoveKeepsTypes, ZenonT(60) DEF ConnTyped, ChildTyped, CountersTyped, FlagsTyped

\* The lock, the notification and the giving up: the caller moves and no more.
LEMMA StillControl ==
  ASSUME ControlInv, NEW c \in Callers, Lock(c) \/ NotifyInitialized(c) \/ GiveUp(c)
  PROVE  ControlInv'
<1> USE DEF ControlInv
<1>1. UNCHANGED <<job, explains, next_id, conn, expired, proc, outlives, asked, shown>>
  BY DEF Lock, NotifyInitialized, GiveUp
<1>2. \E from, to \in Places :
        /\ Moves(c, from, to)
        /\ from \in InPush \/ \A o \in Callers : at[o] \notin InPush
        /\ to = "spawn" => ~Connected
        /\ to \in InPush \ {"join"} /\ (to # "spawn" => Connected)
        /\ from # "idle"
        /\ to \in {"lock", "spawn", "init", "notify", "write"} => from \in {"lock", "notify"}
  <2>1. CASE Lock(c)
    <3>1. Moves(c, "lock", IF Connected THEN "write" ELSE "spawn")
      BY <2>1, GotoIs DEF Lock, Places
    <3> QED
      BY <2>1, <3>1 DEF Lock, Places, InPush
  <2>2. CASE NotifyInitialized(c)
    <3>1. Moves(c, "notify", IF ServerAlive THEN "write" ELSE "drop")
      BY <2>2, GotoIs DEF NotifyInitialized, Places
    <3>2. Connected
      BY <3>1 DEF TransportFacts, Moves, InPush, Places
    <3> QED
      BY <2>2, <3>1, <3>2 DEF Places, InPush
  <2>3. CASE GiveUp(c)
    <3>1. Moves(c, "wait", "drop")
      BY <2>3, GotoIs DEF GiveUp, Places
    <3>2. Connected
      BY <3>1 DEF TransportFacts, Moves, InPush, Places
    <3> QED
      BY <2>3, <3>1, <3>2 DEF Places, InPush
  <2> QED
    BY <2>1, <2>2, <2>3
<1>3. PICK from, to \in Places :
        /\ Moves(c, from, to)
        /\ from \in InPush \/ \A o \in Callers : at[o] \notin InPush
        /\ to = "spawn" => ~Connected
        /\ to \in InPush \ {"join"} /\ (to # "spawn" => Connected)
        /\ from # "idle"
        /\ to \in {"lock", "spawn", "init", "notify", "write"} => from \in {"lock", "notify"}
  BY <1>2
<1>4. VibeTypes'
  <2>1. ConnTyped' /\ ChildTyped' /\ CountersTyped' /\ FlagsTyped'
    BY <1>1, PartsTyped, ZenonT(60) DEF ConnTyped, ChildTyped, CountersTyped, FlagsTyped
  <2> QED
    BY <1>1, <1>3, <2>1, TypesFromParts
<1>5. OnePusher'
  BY <1>3, MoveKeepsOne
<1>6. TransportFacts'
  BY <1>1, <1>3, MoveKeepsTransport DEF ServerAlive
<1>7. IdFacts'
  <2>1. to \in {"lock", "spawn", "init", "notify", "write"} => job[c].id = 0
    BY <1>3 DEF IdFacts, Moves
  <2> QED
    BY <1>1, <1>3, <2>1, MoveKeepsIds
<1> QED
  BY <1>4, <1>5, <1>6, <1>7

LEMMA SpawnControl ==
  ASSUME ControlInv, NEW c \in Callers, Spawn(c)
  PROVE  ControlInv'
<1> USE DEF ControlInv
<1>1. at[c] = "spawn" /\ UNCHANGED <<explains, next_id, expired, outlives, shown>>
  BY DEF Spawn
<1>2. CASE Return(c, "degraded") /\ UNCHANGED <<conn, proc, asked>>
  <2>1. Moves(c, "spawn", "idle") /\ JobIs(c, 0, "degraded")
    BY <1>1, <1>2, ReturnIs
  <2>2. VibeTypes'
    <3>1. ConnTyped' /\ ChildTyped' /\ CountersTyped' /\ FlagsTyped'
      BY <1>1, <1>2, PartsTyped, ZenonT(60) DEF ConnTyped, ChildTyped, CountersTyped, FlagsTyped
    <3> QED
      BY <1>1, <2>1, <3>1, TypesFromParts
  <2>3. OnePusher' /\ TransportFacts'
    BY <1>1, <1>2, <2>1, MoveKeepsOne, MoveKeepsTransport DEF InPush, ServerAlive, Places
  <2>4. IdFacts'
    BY <1>1, <2>1, MoveKeepsIds DEF JobIs
  <2> QED
    BY <2>2, <2>3, <2>4
<1>3. CASE /\ Goto(c, "spawn", "init")
           /\ proc' = NewChild
           /\ conn' = [reader |-> "reading", rx |-> <<>>]
           /\ asked' = FALSE
           /\ UNCHANGED job
  <2>1. Moves(c, "spawn", "init")
    BY <1>3, GotoIs DEF Places
  <2>2. VibeTypes'
    <3>1. CountersTyped'
      BY <1>1, PartsTyped DEF CountersTyped
    <3>2. FlagsTyped'
      BY <1>1, <1>3, PartsTyped, ZenonT(60) DEF FlagsTyped
    <3>3. ConnTyped' /\ ChildTyped'
      BY <1>3 DEF ConnTyped, ChildTyped, NewChild
    <3> QED
      BY <1>1, <1>3, <2>1, <3>1, <3>2, <3>3, TypesFromParts
  <2>3. OnePusher'
    BY <2>1, MoveKeepsOne DEF InPush, Places
  <2>4. TransportFacts'
    <3>1. conn'.reader = "reading" /\ Connected'
      BY <1>3 DEF Connected
    <3>2. \A o \in Callers : at'[o] \notin {"spawn", "join"}
      BY <1>1, <2>1 DEF OnePusher, Moves, InPush, Places
    <3> QED
      BY <3>1, <3>2 DEF TransportFacts
  <2>5. IdFacts'
    BY <1>1, <1>3, <2>1, MoveKeepsIds DEF IdFacts
  <2> QED
    BY <2>2, <2>3, <2>4, <2>5
<1> QED
  BY <1>2, <1>3 DEF Spawn

LEMMA CallControl ==
  ASSUME ControlInv, NEW c \in Callers, CallInitialize(c) \/ CallShowDiff(c)
  PROVE  ControlInv'
<1> USE DEF ControlInv
<1>1. /\ at[c] \in {"init", "write"} /\ job[c].id = 0 /\ expired' = FALSE
      /\ UNCHANGED <<explains, conn, outlives, asked, shown>>
  BY DEF CallInitialize, CallShowDiff, IdFacts
<1>2. c \in Unsent /\ Connected
  BY <1>1 DEF Unsent, TransportFacts, InPush, Places
<1>3. next_id \in Ids /\ 0 \in Ids
  <2>1. Cardinality(Unsent) \in Nat /\ Cardinality(Unsent) # 0
    BY <1>2, FS_CardinalityType, FS_EmptySet DEF IdFacts
  <2> QED
    BY <2>1, VibeLensAssumption DEF IdFacts, VibeTypes, Ids
<1>4. PICK id \in Ids : /\ Send(c, id)
                        /\ \/ CallInitialize(c) /\ id = 0 /\ job' = job /\ next_id' = next_id
                           \/ /\ CallShowDiff(c) /\ id = next_id /\ next_id' = next_id + 1
                              /\ job' = [job EXCEPT ![c].id = next_id]
  BY <1>3 DEF CallInitialize, CallShowDiff
<1>5. \E to \in {"wait", "drop"} : Moves(c, at[c], to)
  BY <1>4, SendIs
<1>6. PICK to \in {"wait", "drop"} : Moves(c, at[c], to)
  BY <1>5
<1>7. proc' = proc \/ proc' = [proc EXCEPT !.stdin = Append(@, id)]
  BY <1>4, SendIs
<1>8. job' = job \/ \E told : JobIs(c, next_id, told)
  <2>1. CASE job' = [job EXCEPT ![c].id = next_id]
    <3>1. job[c] \in Jobs
      BY DEF VibeTypes
    <3>2. [job[c] EXCEPT !.id = next_id] \in Jobs /\ [job[c] EXCEPT !.id = next_id].id = next_id
      BY <1>3, <3>1 DEF Jobs
    <3>3. job' = [job EXCEPT ![c] = [job[c] EXCEPT !.id = next_id]]
      BY <2>1
    <3>4. JobIs(c, next_id, job'[c].told)
      BY <3>2, <3>3 DEF VibeTypes, JobIs
    <3> QED
      BY <3>4
  <2> QED
    BY <1>4, <2>1
<1>9. VibeTypes'
  <2>1. CountersTyped'
    BY <1>1, <1>4 DEF VibeTypes, CountersTyped
  <2>2. ConnTyped' /\ FlagsTyped'
    BY <1>1, PartsTyped, ZenonT(60) DEF ConnTyped, FlagsTyped
  <2>3. ChildTyped'
    <3>1. proc.stdin \in Seq(Ids) /\ Append(proc.stdin, id) \in Seq(Ids) /\ ChildTyped
      BY PartsTyped DEF ChildTyped
    <3> QED
      BY <1>7, <3>1 DEF ChildTyped
  <2> QED
    BY <1>1, <1>6, <1>8, <2>1, <2>2, <2>3, TypesFromParts
<1>10. OnePusher'
  BY <1>1, <1>6, MoveKeepsOne DEF InPush, Places
<1>11. TransportFacts'
  <2>1. ServerAlive' = ServerAlive /\ proc'.unheard = proc.unheard
    BY <1>7 DEF ServerAlive, VibeTypes
  <2> QED
    BY <1>1, <1>2, <1>6, <2>1, MoveKeepsTransport
<1>12. IdFacts'
  <2>1. CASE job' = job /\ next_id' = next_id
    BY <1>1, <1>6, <2>1, MoveKeepsIds
  <2>2. CASE next_id' = next_id + 1 /\ job' = [job EXCEPT ![c].id = next_id]
    <3>1. job'[c].id = next_id /\ \A o \in Callers \ {c} : job'[o] = job[o]
      BY <2>2 DEF VibeTypes, Jobs
    <3>2. Unsent' = Unsent \ {c}
      BY <1>1, <1>6, <3>1 DEF Unsent, Moves, VibeTypes
    <3>3. /\ IsFiniteSet(Unsent') /\ Cardinality(Unsent') = Cardinality(Unsent) - 1
          /\ Cardinality(Unsent) \in Nat
      BY <1>2, <3>2, FS_RemoveElement, FS_CardinalityType DEF IdFacts
    <3>4. Cardinality(Unsent') + next_id' <= explains' + 1
      BY <1>1, <2>2, <3>3, VibeLensAssumption DEF IdFacts, VibeTypes, Ids
    <3>5. \A o \in Callers : at'[o] \in {"lock", "spawn", "init", "notify", "write"} => job'[o].id = 0
      BY <1>6, <3>1 DEF Moves, IdFacts
    <3> QED
      BY <3>3, <3>4, <3>5 DEF IdFacts
  <2> QED
    BY <1>4, <2>1, <2>2
<1> QED
  BY <1>9, <1>10, <1>11, <1>12

LEMMA TakeControl ==
  ASSUME ControlInv, NEW c \in Callers, TakeAnswer(c) \/ SkipNote(c)
  PROVE  ControlInv'
<1> USE DEF ControlInv
<1>1. /\ at[c] = "wait" /\ conn.rx # <<>> /\ conn' = [conn EXCEPT !.rx = Tail(@)]
      /\ UNCHANGED <<explains, next_id, expired, proc, outlives, asked, shown>>
  BY DEF TakeAnswer, SkipNote
<1>2. ConnTyped' /\ conn'.reader = conn.reader /\ conn'.rx = Tail(conn.rx)
  <2>1. ConnTyped
    BY PartsTyped
  <2>2. Tail(conn.rx) \in Seq(Lines)
    BY <1>1, <2>1 DEF ConnTyped
  <2> QED
    BY <1>1, <2>1, <2>2 DEF ConnTyped
<1>3. Connected
  BY <1>1 DEF TransportFacts, InPush, Places
<1>4. \E to \in Places :
        /\ Moves(c, "wait", to)
        /\ \/ to \in {"wait", "drop"} /\ job' = job
           \/ to = "notify" /\ job' = job /\ job[c].id = 0
           \/ to = "idle" /\ \E told : JobIs(c, 0, told)
  <2>1. CASE TakeAnswer(c)
    <3>1. CASE job[c].id = 0 /\ Goto(c, "wait", "notify") /\ UNCHANGED job
      <4>1. Moves(c, "wait", "notify")
        BY <3>1, GotoIs DEF Places
      <4> QED
        BY <3>1, <4>1 DEF Places
    <3>2. CASE Return(c, parse_write_envelope(Head(conn.rx)))
      <4>1. parse_write_envelope(Head(conn.rx)) \in {"ok", "degraded"}
        BY DEF parse_write_envelope
      <4>2. Moves(c, "wait", "idle") /\ JobIs(c, 0, parse_write_envelope(Head(conn.rx)))
        BY <1>1, <3>2, <4>1, ReturnIs
      <4> QED
        BY <4>2 DEF Places
    <3> QED
      BY <2>1, <3>1, <3>2 DEF TakeAnswer
  <2>2. CASE SkipNote(c)
    <3>1. Moves(c, "wait", IF expired THEN "drop" ELSE "wait")
      BY <1>1, <2>2 DEF SkipNote, VibeTypes, Moves, Places
    <3> QED
      BY <2>2, <3>1 DEF SkipNote, Places
  <2> QED
    BY <2>1, <2>2
<1>5. PICK to \in Places :
        /\ Moves(c, "wait", to)
        /\ \/ to \in {"wait", "drop"} /\ job' = job
           \/ to = "notify" /\ job' = job /\ job[c].id = 0
           \/ to = "idle" /\ \E told : JobIs(c, 0, told)
  BY <1>4
<1>6. VibeTypes'
  <2>1. CountersTyped' /\ ChildTyped' /\ FlagsTyped'
    BY <1>1, PartsTyped, ZenonT(60) DEF CountersTyped, ChildTyped, FlagsTyped
  <2> QED
    BY <1>1, <1>2, <1>5, <2>1, TypesFromParts
<1>7. OnePusher'
  BY <1>5, MoveKeepsOne DEF InPush, Places
<1>8. TransportFacts'
  BY <1>1, <1>2, <1>3, <1>5, MoveKeepsTransport DEF ServerAlive
<1>9. IdFacts'
  BY <1>1, <1>5, MoveKeepsIds DEF JobIs
<1> QED
  BY <1>6, <1>7, <1>8, <1>9

LEMMA DropControl ==
  ASSUME ControlInv, NEW c \in Callers, DropKill(c) \/ DropJoin(c)
  PROVE  ControlInv'
<1> USE DEF ControlInv
<1>1. UNCHANGED <<explains, next_id, expired, outlives, asked, shown>>
  BY DEF DropKill, DropJoin
<1>2. CountersTyped' /\ FlagsTyped'
  BY <1>1, PartsTyped, ZenonT(60) DEF CountersTyped, FlagsTyped
<1>3. CASE DropKill(c)
  <2>1. Moves(c, "drop", "join") /\ job' = job /\ conn' = conn
    BY <1>3, GotoIs DEF DropKill, Places
  <2>2. ConnTyped'
    BY <2>1, PartsTyped DEF ConnTyped
  <2>3. ChildTyped' /\ (ServerAlive' => ServerAlive /\ outlives) /\ proc'.unheard = proc.unheard
    <3>1. ChildTyped /\ <<>> \in Seq(Ids)
      BY PartsTyped
    <3>2. CASE outlives
      <4>1. proc' = [proc EXCEPT !.npx = FALSE]
        BY <1>3, <3>1, <3>2 DEF DropKill, ChildTyped
      <4> QED
        BY <3>1, <3>2, <4>1 DEF ChildTyped, ServerAlive
    <3>3. CASE ~outlives
      <4>1. proc' = [proc EXCEPT !.npx = FALSE, !.server = "dead", !.stdin = <<>>]
        BY <1>3, <3>3 DEF DropKill
      <4> QED
        BY <3>1, <4>1 DEF ChildTyped, ServerAlive
    <3> QED
      BY <3>2, <3>3
  <2>4. VibeTypes'
    BY <1>1, <1>2, <2>1, <2>2, <2>3, TypesFromParts
  <2>5. Connected
    BY <2>1 DEF TransportFacts, Moves, InPush, Places
  <2>6. OnePusher' /\ TransportFacts'
    BY <1>1, <2>1, <2>3, <2>5, MoveKeepsOne, MoveKeepsTransport DEF InPush, Places
  <2>7. IdFacts'
    BY <1>1, <2>1, MoveKeepsIds
  <2> QED
    BY <2>4, <2>6, <2>7
<1>4. CASE DropJoin(c)
  <2>1. /\ Moves(c, "join", "idle") /\ JobIs(c, 0, "degraded")
        /\ conn.reader = "done" /\ conn' = NoConn /\ proc' = proc
    BY <1>4, ReturnIs DEF DropJoin
  <2>2. ConnTyped' /\ ChildTyped'
    BY <2>1, PartsTyped DEF ConnTyped, ChildTyped, NoConn
  <2>3. VibeTypes'
    BY <1>1, <1>2, <2>1, <2>2, TypesFromParts
  <2>4. OnePusher'
    BY <2>1, MoveKeepsOne DEF InPush, Places
  <2>5. TransportFacts'
    <3>1. \A o \in Callers : at'[o] \notin InPush
      BY <2>1 DEF OnePusher, Moves, InPush, Places
    <3>2. ServerAlive => outlives /\ proc.unheard
      BY <2>1 DEF TransportFacts, Moves
    <3> QED
      BY <1>1, <2>1, <3>1, <3>2 DEF TransportFacts, ServerAlive, NoConn, InPush, Places, Connected
  <2>6. IdFacts'
    BY <1>1, <2>1, MoveKeepsIds DEF JobIs
  <2> QED
    BY <2>3, <2>4, <2>5, <2>6
<1> QED
  BY <1>3, <1>4

\* What the deadline, the reader and the server leave alone, and what they may do.
LEMMA OtherControl ==
  ASSUME ControlInv, Deadline \/ ReadLine \/ ReadClosed \/ Server \/ UNCHANGED vibeVars
  PROVE  ControlInv'
<1> USE DEF ControlInv
<1>1. UNCHANGED <<at, job, explains, next_id, outlives>>
  BY DEF Deadline, ReadLine, ReadClosed, Server, ServerAnswer, ServerTalk, ServerBreaks, vibeVars
<1>2. ConnTyped /\ ChildTyped /\ CountersTyped /\ FlagsTyped
  BY PartsTyped
<1>3. FlagsTyped'
  BY <1>2, ZenonT(60)
  DEF FlagsTyped, Deadline, ReadLine, ReadClosed, Server, ServerAnswer, ServerTalk, ServerBreaks, vibeVars
<1>4. CountersTyped'
  <2>1. \A reply \in {"ok", "error", "never"} : ServerAnswer(reply) => shown' \subseteq Ids
    BY <1>2 DEF ServerAnswer, ChildTyped, CountersTyped
  <2> QED
    BY <1>1, <1>2, <2>1
    DEF CountersTyped, Deadline, ReadLine, ReadClosed, Server, ServerTalk, ServerBreaks, vibeVars
<1>5. ConnTyped' /\ ChildTyped'
      /\ (ServerAlive' => ServerAlive) /\ (Connected' = Connected)
      /\ \/ proc'.unheard = proc.unheard /\ conn'.reader = conn.reader
         \/ Connected /\ proc'.unheard = ServerAlive
  <2>1. CASE ReadLine
    <3>1. Head(proc.stdout) \in Lines /\ Tail(proc.stdout) \in Seq(Lines)
      BY <1>2, <2>1 DEF ReadLine, ChildTyped
    <3>2. Append(conn.rx, Head(proc.stdout)) \in Seq(Lines)
      BY <1>2, <3>1 DEF ConnTyped
    <3> QED
      BY <1>2, <2>1, <3>1, <3>2 DEF ReadLine, ConnTyped, ChildTyped, ServerAlive, Connected
  <2>2. CASE ReadClosed
    <3>1. [kind |-> "closed"] \in Lines
      BY DEF Lines
    <3>2. Append(conn.rx, [kind |-> "closed"]) \in Seq(Lines)
      BY <1>2, <3>1 DEF ConnTyped
    <3>3. ConnTyped' /\ Connected /\ Connected'
      BY <1>2, <2>2, <3>2 DEF ReadClosed, ConnTyped, Connected
    <3>4. ServerAlive \in BOOLEAN
      BY DEF ServerAlive
    <3>5. ChildTyped' /\ proc'.server = proc.server /\ proc'.unheard = ServerAlive
      BY <1>2, <2>2, <3>4 DEF ReadClosed, ChildTyped
    <3> QED
      BY <3>3, <3>5 DEF ServerAlive
  <2>3. CASE Server
    <3>1. conn' = conn
      BY <2>3 DEF Server, ServerAnswer, ServerTalk, ServerBreaks
    <3>2. ASSUME NEW line \in Lines, Says(line)
          PROVE  ChildTyped' /\ proc'.server = proc.server /\ proc'.unheard = proc.unheard
      <4>1. Append(proc.stdout, line) \in Seq(Lines)
        BY <1>2, <3>2 DEF ChildTyped
      <4> QED
        BY <1>2, <3>2, <4>1 DEF Says, ChildTyped
    <3>3. ASSUME NEW reply \in {"ok", "error", "never"}, ServerAnswer(reply)
          PROVE  ChildTyped' /\ proc'.server = proc.server /\ proc'.unheard = proc.unheard
      <4>1. Head(proc.stdin) \in Ids /\ Tail(proc.stdin) \in Seq(Ids)
        BY <1>2, <3>3 DEF ServerAnswer, ChildTyped
      <4>2. CASE reply = "never"
        <5>1. proc' = [proc EXCEPT !.stdin = Tail(proc.stdin)]
          BY <1>2, <3>3, <4>2 DEF ServerAnswer, ChildTyped
        <5> QED
          BY <1>2, <4>1, <5>1 DEF ChildTyped
      <4>3. CASE reply \in {"ok", "error"}
        <5>1. [kind |-> reply, id |-> Head(proc.stdin)] \in Lines
          BY <4>1, <4>3 DEF Lines
        <5>2. Append(proc.stdout, [kind |-> reply, id |-> Head(proc.stdin)]) \in Seq(Lines)
          BY <1>2, <5>1 DEF ChildTyped
        <5> QED
          BY <1>2, <3>3, <4>1, <4>3, <5>2 DEF ServerAnswer, ChildTyped
      <4> QED
        BY <4>2, <4>3
    <3>4. CASE ServerBreaks
      <4>1. <<>> \in Seq(Ids)
        OBVIOUS
      <4>2. ChildTyped'
        BY <1>2, <3>4, <4>1 DEF ServerBreaks, ChildTyped
      <4>3. ServerAlive /\ proc'.unheard = proc.unheard
        BY <1>2, <3>4 DEF ServerBreaks, ServerAlive, ChildTyped
      <4> QED
        BY <1>2, <3>1, <4>2, <4>3 DEF ConnTyped, Connected
    <3>5. [kind |-> "note"] \in Lines /\ [kind |-> "end"] \in Lines /\ [kind |-> "ask", id |-> 0] \in Lines
      BY VibeLensAssumption DEF Lines, Ids
    <3>6. (ChildTyped' /\ proc'.server = proc.server /\ proc'.unheard = proc.unheard) \/ ServerBreaks
      BY <2>3, <3>2, <3>3, <3>5 DEF Server, ServerTalk
    <3> QED
      BY <1>2, <3>1, <3>4, <3>6 DEF ConnTyped, Connected, ServerAlive
  <2>4. CASE Deadline \/ UNCHANGED vibeVars
    BY <1>2, <2>4 DEF Deadline, vibeVars, ConnTyped, ChildTyped, Connected, ServerAlive
  <2> QED
    BY <2>1, <2>2, <2>3, <2>4
<1>6. VibeTypes'
  <2>1. outlives' \in BOOLEAN /\ at' \in [Callers -> Places] /\ job' \in [Callers -> Jobs]
    BY <1>1, ZenonT(60) DEF VibeTypes
  <2> QED
    BY <1>3, <1>4, <1>5, <2>1, ZenonT(60) DEF VibeTypes, FlagsTyped, CountersTyped, ConnTyped, ChildTyped
<1>7. OnePusher' /\ TransportFacts'
  BY <1>1, <1>5 DEF OnePusher, TransportFacts
<1>8. IdFacts'
  BY <1>1 DEF IdFacts, Unsent
<1> QED
  BY <1>6, <1>7, <1>8

\* What holds of VibeLens's lock, transport and ids in every reachable state.
THEOREM VibeInvariance == VibeSpec => []ControlInv
<1>1. ControlInv /\ [VibeNext]_vibeVars => ControlInv'
  BY ExplainControl, StillControl, SpawnControl, CallControl, TakeControl, DropControl, OtherControl
  DEF VibeNext, Push
<1> QED
  BY <1>1, VibeInitInv, PTL DEF VibeSpec

\* Without a transport there is no server, however a call on it ended, as the drop of
\* the transport kills npx and waits until nobody holds its output; left is only one
\* that outlived npx and whose output the reader had given up on.
THEOREM NoServerIsLeft == VibeSpec => []NoServerLeft
<1>1. ControlInv => NoServerLeft
  <2> SUFFICES ASSUME ControlInv PROVE NoServerLeft
    OBVIOUS
  <2> USE DEF ControlInv
  <2>1. ServerAlive => Connected \/ (outlives /\ proc.unheard)
    BY DEF TransportFacts
  <2>2. (\E c \in Callers : at[c] \in {"write", "wait", "drop", "join"}) => Connected
    BY DEF TransportFacts, InPush, Places
  <2>3. \A c \in Callers : /\ job[c].diff \in Diffs \cup {NoDiff} /\ job[c].id \in Ids
                           /\ job[c].told \in {"none", "ok", "degraded"}
    BY DEF VibeTypes, Jobs, AllDiffs
  <2>4. next_id \in 1..(MaxExplains + 1)
    <3>1. Cardinality(Unsent) \in Nat
      BY FS_CardinalityType DEF IdFacts
    <3> QED
      BY <3>1, VibeLensAssumption DEF IdFacts, VibeTypes, Ids
  <2>5. /\ conn.reader \in {"none", "reading", "done"} /\ conn.rx \in Seq(Lines)
        /\ proc.npx \in BOOLEAN /\ proc.server \in {"up", "stuck", "dead"}
        /\ proc.stdin \in Seq(Ids) /\ proc.stdout \in Seq(Lines) /\ proc.unheard \in BOOLEAN
    BY PartsTyped DEF ConnTyped, ChildTyped
  <2>6. VibeLensTypeOK
    BY <2>2, <2>3, <2>4, <2>5, ZenonT(60) DEF VibeTypes, VibeLensTypeOK
  <2> QED
    BY <2>1, <2>6 DEF NoServerLeft
<1> QED
  BY <1>1, VibeInvariance, PTL
-----------------------------------------------------------------------------
(* Whose answer an answer is.  A call takes any line with an id; it is its *)
(* own because the transport is dropped whenever a call ends without one:  *)
(* nothing of an earlier request is under way when the next is written.    *)

IsAnswer(l) == l.kind \in {"ok", "error"}
NoAnswer(s) == \A n \in DOMAIN s : ~IsAnswer(s[n])
OneAnswer(s, k) ==
  /\ \A n \in DOMAIN s : IsAnswer(s[n]) => s[n].id = k
  /\ \A m, n \in DOMAIN s : IsAnswer(s[m]) /\ IsAnswer(s[n]) => m = n
OksIn(s, ids) == \A n \in DOMAIN s : s[n].kind = "ok" => s[n].id \in ids \cup {0}
NoAsk(s) == \A n \in DOMAIN s : s[n].kind # "ask"

\* Nothing is under way; or at most request k, in one of the three places it passes.
Quiet == proc.stdin = <<>> /\ NoAnswer(proc.stdout) /\ NoAnswer(conn.rx)
OneUnderWay(k) ==
  \/ proc.stdin \in {<<>>, <<k>>} /\ NoAnswer(proc.stdout) /\ NoAnswer(conn.rx)
  \/ proc.stdin = <<>> /\ OneAnswer(proc.stdout, k) /\ NoAnswer(conn.rx)
  \/ proc.stdin = <<>> /\ NoAnswer(proc.stdout) /\ OneAnswer(conn.rx, k)

AnswersFit ==
  /\ NoAsk(proc.stdout) /\ NoAsk(conn.rx)
  /\ \A c \in Callers : at[c] = "wait" => OneUnderWay(job[c].id)
  /\ (Connected /\ \A c \in Callers : at[c] \notin {"wait", "drop", "join"}) => Quiet

AnswerInv ==
  /\ OksIn(proc.stdout, shown) /\ OksIn(conn.rx, shown)
  /\ ~asked => AnswersFit

LEMMA LineAppended ==
  ASSUME NEW s \in Seq(Lines), NEW l \in Lines, NEW k, NEW ids
  PROVE  /\ NoAnswer(s) /\ ~IsAnswer(l) => NoAnswer(Append(s, l))
         /\ NoAnswer(s) /\ l.id = k => OneAnswer(Append(s, l), k)
         /\ OneAnswer(s, k) /\ ~IsAnswer(l) => OneAnswer(Append(s, l), k)
         /\ OksIn(s, ids) /\ (l.kind = "ok" => l.id \in ids \cup {0}) => OksIn(Append(s, l), ids)
         /\ NoAsk(s) /\ l.kind # "ask" => NoAsk(Append(s, l))
<1>1. \A n \in DOMAIN Append(s, l) : \/ n \in DOMAIN s /\ Append(s, l)[n] = s[n]
                                     \/ n = Len(s) + 1 /\ Append(s, l)[n] = l
  OBVIOUS
<1> QED
  BY <1>1 DEF NoAnswer, OneAnswer, OksIn, NoAsk

LEMMA LineTaken ==
  ASSUME NEW s \in Seq(Lines), s # <<>>, NEW k, NEW ids
  PROVE  /\ Head(s) \in Lines /\ Tail(s) \in Seq(Lines)
         /\ NoAnswer(s) => NoAnswer(Tail(s)) /\ ~IsAnswer(Head(s))
         /\ OneAnswer(s, k) => OneAnswer(Tail(s), k)
         /\ OneAnswer(s, k) /\ IsAnswer(Head(s)) => NoAnswer(Tail(s)) /\ Head(s).id = k
         /\ OksIn(s, ids) => OksIn(Tail(s), ids) /\ (Head(s).kind = "ok" => Head(s).id \in ids \cup {0})
         /\ NoAsk(s) => NoAsk(Tail(s)) /\ Head(s).kind # "ask"
<1>1. /\ 1 \in DOMAIN s /\ Head(s) = s[1] /\ Head(s) \in Lines /\ Tail(s) \in Seq(Lines)
      /\ \A n \in DOMAIN Tail(s) : n \in Nat /\ n # 0 /\ n + 1 \in DOMAIN s /\ Tail(s)[n] = s[n + 1]
  OBVIOUS
<1>2. \A m, n \in DOMAIN Tail(s) : m + 1 = n + 1 => m = n
  BY <1>1
<1>3. \A n \in DOMAIN Tail(s) : n + 1 # 1
  BY <1>1
<1>4. OneAnswer(s, k) => OneAnswer(Tail(s), k)
  BY <1>1, <1>2 DEF OneAnswer
<1>5. OneAnswer(s, k) /\ IsAnswer(Head(s)) => NoAnswer(Tail(s)) /\ Head(s).id = k
  BY <1>1, <1>3 DEF OneAnswer, NoAnswer
<1>6. /\ NoAnswer(s) => NoAnswer(Tail(s)) /\ ~IsAnswer(Head(s))
      /\ OksIn(s, ids) => OksIn(Tail(s), ids) /\ (Head(s).kind = "ok" => Head(s).id \in ids \cup {0})
      /\ NoAsk(s) => NoAsk(Tail(s)) /\ Head(s).kind # "ask"
  BY <1>1 DEF NoAnswer, OksIn, NoAsk
<1> QED
  BY <1>1, <1>4, <1>5, <1>6

LEMMA AnswerInit == VibeInit => AnswerInv
BY DEF VibeInit, NoConn, NoChild, AnswerInv, AnswersFit, OksIn, NoAsk, Connected, Quiet, NoAnswer

\* A caller's step that touches neither the answers nor who waits for which.
LEMMA AnswersKept ==
  ASSUME ControlInv, AnswerInv, NEW c \in Callers, NEW from, NEW to, Moves(c, from, to),
         UNCHANGED <<conn, proc, asked, shown>>,
         \A o \in Callers \ {c} : job'[o] = job[o], to # "wait",
         from \in {"wait", "drop", "join"} => to \in {"drop", "join"} \/ Quiet
  PROVE  AnswerInv'
<1>1. \A o \in Callers : at'[o] = "wait" => at[o] = "wait" /\ job'[o] = job[o]
  BY DEF Moves
<1>3. Quiet' = Quiet /\ Connected' = Connected
  BY DEF Quiet, Connected
<1>4. (\A o \in Callers : at'[o] \notin {"wait", "drop", "join"})
        => Quiet \/ \A o \in Callers : at[o] \notin {"wait", "drop", "join"}
  BY DEF Moves
<1>5. ~asked' => AnswersFit'
  BY <1>1, <1>3, <1>4 DEF AnswerInv, AnswersFit, OneUnderWay
<1> QED
  BY <1>5 DEF AnswerInv

LEMMA StepAnswers ==
  ASSUME ControlInv, AnswerInv, NEW c \in Callers,
         \/ \E d \in Diffs : explain(c, d)
         \/ Lock(c) \/ NotifyInitialized(c) \/ GiveUp(c)
  PROVE  AnswerInv'
<1>1. UNCHANGED <<conn, proc, asked, shown>> /\ \A o \in Callers \ {c} : job'[o] = job[o]
  BY DEF explain, Lock, NotifyInitialized, GiveUp, ControlInv, VibeTypes
<1>2. \E from, to \in Places : /\ Moves(c, from, to) /\ to # "wait"
                               /\ from \in {"wait", "drop", "join"} => to \in {"drop", "join"}
  <2>1. (\E d \in Diffs : explain(c, d)) => Moves(c, "idle", "lock")
    BY GotoIs DEF explain, Places, ControlInv
  <2>2. Lock(c) => Moves(c, "lock", IF Connected THEN "write" ELSE "spawn")
    BY GotoIs DEF Lock, Places, ControlInv
  <2>3. NotifyInitialized(c) => Moves(c, "notify", IF ServerAlive THEN "write" ELSE "drop")
    BY GotoIs DEF NotifyInitialized, Places, ControlInv
  <2>4. GiveUp(c) => Moves(c, "wait", "drop")
    BY GotoIs DEF GiveUp, Places, ControlInv
  <2> QED
    BY <2>1, <2>2, <2>3, <2>4 DEF Places
<1> QED
  BY <1>1, <1>2, AnswersKept

LEMMA SpawnAnswers ==
  ASSUME ControlInv, AnswerInv, NEW c \in Callers, Spawn(c)
  PROVE  AnswerInv'
<1>1. CASE Return(c, "degraded") /\ UNCHANGED <<conn, proc, asked>>
  <2>1. Moves(c, "spawn", "idle") /\ JobIs(c, 0, "degraded")
    BY <1>1, ReturnIs DEF Spawn, ControlInv
  <2> QED
    BY <1>1, <2>1, AnswersKept DEF Spawn, JobIs
<1>2. CASE /\ Goto(c, "spawn", "init")
           /\ proc' = NewChild
           /\ conn' = [reader |-> "reading", rx |-> <<>>]
           /\ asked' = FALSE
           /\ UNCHANGED job
  <2>1. Moves(c, "spawn", "init")
    BY <1>2, GotoIs DEF Places, ControlInv
  <2>2. \A o \in Callers : at'[o] # "wait"
    BY <2>1 DEF Moves, ControlInv, OnePusher, InPush, Places
  <2> QED
    BY <1>2, <2>2 DEF AnswerInv, AnswersFit, OksIn, NoAsk, Quiet, NoAnswer, NewChild
<1> QED
  BY <1>1, <1>2 DEF Spawn

LEMMA CallAnswers ==
  ASSUME ControlInv, AnswerInv, NEW c \in Callers, CallInitialize(c) \/ CallShowDiff(c)
  PROVE  AnswerInv'
<1>1. /\ at[c] \in {"init", "write"} /\ job[c].id = 0 /\ UNCHANGED <<conn, asked, shown>>
      /\ job \in [Callers -> Jobs] /\ next_id \in Nat
  BY DEF CallInitialize, CallShowDiff, IdFacts, ControlInv, VibeTypes
<1>2. \E id \in {0, next_id} : Send(c, id) /\ job'[c].id = id
  BY <1>1 DEF CallInitialize, CallShowDiff, Jobs
<1>3. PICK id \in {0, next_id} : Send(c, id) /\ job'[c].id = id
  BY <1>2
<1>4. \A o \in Callers \ {c} : job'[o] = job[o]
  BY <1>1 DEF CallInitialize, CallShowDiff
<1>5. at' \in [Callers -> Places] /\ at'[c] \in {"wait", "drop"} /\ \A o \in Callers \ {c} : at'[o] = at[o]
  BY <1>3 DEF Send, ControlInv, VibeTypes, Places
<1>6. proc'.stdout = proc.stdout
      /\ (proc'.stdin = proc.stdin \/ proc'.stdin = Append(proc.stdin, id))
  BY <1>3 DEF Send, ControlInv, VibeTypes
<1>7. ~asked => AnswersFit'
  <2> SUFFICES ASSUME ~asked PROVE AnswersFit'
    OBVIOUS
  <2>1. Connected /\ \A o \in Callers : at[o] \notin {"wait", "drop", "join"}
    BY <1>1 DEF ControlInv, OnePusher, TransportFacts, InPush, Places
  <2>2. Quiet
    BY <2>1 DEF AnswerInv, AnswersFit
  <2>3. proc'.stdin \in {<<>>, <<id>>}
    <3>1. proc.stdin = <<>> /\ Append(<<>>, id) = <<id>>
      BY <2>2 DEF Quiet
    <3> QED
      BY <1>6, <3>1
  <2>4. OneUnderWay(job[c].id)'
    BY <1>1, <1>3, <1>6, <2>2, <2>3 DEF OneUnderWay, Quiet
  <2>5. \A o \in Callers : at'[o] = "wait" => o = c
    BY <1>5, <2>1
  <2> QED
    BY <1>1, <1>5, <1>6, <2>4, <2>5 DEF AnswersFit, AnswerInv
<1> QED
  BY <1>1, <1>6, <1>7 DEF AnswerInv

\* A caller's own answer ends what is under way.
LEMMA AnswerIsOwn ==
  ASSUME ControlInv, AnswerInv, NEW c \in Callers, TakeAnswer(c)
  PROVE  /\ conn.rx # <<>> /\ conn.rx \in Seq(Lines) /\ conn'.rx = Tail(conn.rx) /\ conn'.reader = conn.reader
         /\ Head(conn.rx).kind = "ok" => Head(conn.rx).id \in shown \cup {0}
         /\ ~asked => Quiet' /\ Head(conn.rx).id = job[c].id
<1>1. conn.rx # <<>> /\ conn.rx \in Seq(Lines) /\ conn'.rx = Tail(conn.rx) /\ conn'.reader = conn.reader
  BY DEF TakeAnswer, ControlInv, VibeTypes
<1>2. Head(conn.rx).kind = "ok" => Head(conn.rx).id \in shown \cup {0}
  BY <1>1, LineTaken DEF AnswerInv
<1>3. ASSUME ~asked PROVE Quiet' /\ Head(conn.rx).id = job[c].id
  <2>1. OneUnderWay(job[c].id) /\ proc' = proc /\ Head(conn.rx).kind \in {"ok", "error", "ask"}
    BY <1>3 DEF TakeAnswer, AnswerInv, AnswersFit
  <2>2. IsAnswer(Head(conn.rx))
    BY <1>1, <1>3, <2>1, LineTaken DEF AnswerInv, AnswersFit, IsAnswer
  <2>3. ~NoAnswer(conn.rx)
    BY <1>1, <2>2, LineTaken
  <2>4. proc.stdin = <<>> /\ NoAnswer(proc.stdout) /\ OneAnswer(conn.rx, job[c].id)
    BY <2>1, <2>3 DEF OneUnderWay
  <2> QED
    BY <1>1, <2>1, <2>2, <2>4, LineTaken DEF Quiet
<1> QED
  BY <1>1, <1>2, <1>3

LEMMA TakeAnswers ==
  ASSUME ControlInv, AnswerInv, NEW c \in Callers, TakeAnswer(c)
  PROVE  AnswerInv'
<1>1. UNCHANGED <<proc, asked, shown>>
  BY DEF TakeAnswer
<1>2. OksIn(conn'.rx, shown) /\ (NoAsk(conn.rx) => NoAsk(conn'.rx))
  BY AnswerIsOwn, LineTaken DEF AnswerInv
<1>3. ASSUME ~asked PROVE AnswersFit'
  <2>1. Quiet'
    BY <1>3, AnswerIsOwn
  <2>2. \A o \in Callers : at'[o] # "wait"
    BY DEF TakeAnswer, Goto, Return, ControlInv, VibeTypes, OnePusher, InPush, Places
  <2> QED
    BY <1>1, <1>2, <1>3, <2>1, <2>2 DEF AnswersFit, AnswerInv
<1> QED
  BY <1>1, <1>2, <1>3 DEF AnswerInv

LEMMA SkipAnswers ==
  ASSUME ControlInv, AnswerInv, NEW c \in Callers, SkipNote(c)
  PROVE  AnswerInv'
<1>1. /\ UNCHANGED <<proc, asked, shown, job>> /\ at[c] = "wait"
      /\ conn.rx # <<>> /\ conn.rx \in Seq(Lines) /\ conn'.rx = Tail(conn.rx)
  BY DEF SkipNote, ControlInv, VibeTypes
<1>2. /\ OksIn(conn'.rx, shown) /\ (NoAsk(conn.rx) => NoAsk(conn'.rx))
      /\ (NoAnswer(conn.rx) => NoAnswer(conn'.rx))
      /\ \A k : OneAnswer(conn.rx, k) => OneAnswer(conn'.rx, k)
  BY <1>1, LineTaken DEF AnswerInv
<1>3. /\ at'[c] \in {"wait", "drop"}
      /\ \A o \in Callers : at'[o] = "wait" => at[o] = "wait"
  BY <1>1 DEF SkipNote, ControlInv, VibeTypes
<1>4. \A k : OneUnderWay(k) => OneUnderWay(k)'
  BY <1>1, <1>2 DEF OneUnderWay
<1>5. ~asked => AnswersFit'
  BY <1>1, <1>2, <1>3, <1>4 DEF AnswersFit, AnswerInv
<1> QED
  BY <1>1, <1>2, <1>5 DEF AnswerInv

LEMMA DropAnswers ==
  ASSUME ControlInv, AnswerInv, NEW c \in Callers, DropKill(c) \/ DropJoin(c)
  PROVE  AnswerInv'
<1>1. UNCHANGED <<asked, shown>> /\ proc'.stdout = proc.stdout
      /\ (conn' = conn \/ conn'.rx = <<>>)
  <2>1. DropKill(c) => proc'.stdout = proc.stdout /\ conn' = conn
    BY DEF DropKill, ControlInv, VibeTypes
  <2>2. DropJoin(c) => proc' = proc /\ conn'.rx = <<>>
    BY DEF DropJoin, NoConn
  <2> QED
    BY <2>1, <2>2 DEF DropKill, DropJoin
<1>2. at[c] \in {"drop", "join"} /\ \A o \in Callers : at'[o] # "wait"
  BY DEF DropKill, DropJoin, Goto, Return, ControlInv, VibeTypes, OnePusher, InPush, Places
<1>3. (Connected /\ \A o \in Callers : at[o] \notin {"wait", "drop", "join"})' => FALSE
  BY <1>2 DEF DropKill, DropJoin, Goto, ControlInv, VibeTypes, Connected, NoConn
<1>4. ~asked => AnswersFit'
  BY <1>1, <1>2, <1>3 DEF AnswersFit, AnswerInv, NoAsk
<1> QED
  BY <1>1, <1>4 DEF AnswerInv, OksIn

LEMMA ReadAnswers ==
  ASSUME ControlInv, AnswerInv, Deadline \/ ReadLine \/ ReadClosed \/ UNCHANGED vibeVars
  PROVE  AnswerInv'
<1>1. UNCHANGED <<at, job, asked, shown>> /\ Connected' = Connected /\ proc'.stdin = proc.stdin
  BY DEF Deadline, ReadLine, ReadClosed, vibeVars, Connected, ControlInv, VibeTypes
<1>2. conn.rx \in Seq(Lines) /\ proc.stdout \in Seq(Lines)
  BY DEF ControlInv, VibeTypes
<1>3. /\ OksIn(proc'.stdout, shown) /\ OksIn(conn'.rx, shown)
      /\ NoAsk(proc.stdout) /\ NoAsk(conn.rx) => NoAsk(proc'.stdout) /\ NoAsk(conn'.rx)
      /\ Quiet => Quiet'
      /\ \A k : OneUnderWay(k) => OneUnderWay(k)'
  <2>1. CASE ReadLine
    <3>1. /\ proc.stdout # <<>> /\ proc'.stdout = Tail(proc.stdout)
          /\ conn'.rx = Append(conn.rx, Head(proc.stdout)) /\ Head(proc.stdout) \in Lines
      BY <1>2, <2>1 DEF ReadLine, ControlInv, VibeTypes
    <3> DEFINE l == Head(proc.stdout)
    <3>2. \A k : LET t == Tail(proc.stdout) IN
            /\ NoAnswer(proc.stdout) => NoAnswer(t) /\ ~IsAnswer(l)
            /\ OneAnswer(proc.stdout, k) => OneAnswer(t, k)
            /\ OneAnswer(proc.stdout, k) /\ IsAnswer(l) => NoAnswer(t) /\ l.id = k
            /\ OksIn(proc.stdout, shown) => OksIn(t, shown) /\ (l.kind = "ok" => l.id \in shown \cup {0})
            /\ NoAsk(proc.stdout) => NoAsk(t) /\ l.kind # "ask"
      BY <1>2, <3>1, LineTaken
    <3>3. \A k : LET t == Append(conn.rx, l) IN
            /\ NoAnswer(conn.rx) /\ ~IsAnswer(l) => NoAnswer(t)
            /\ NoAnswer(conn.rx) /\ l.id = k => OneAnswer(t, k)
            /\ OneAnswer(conn.rx, k) /\ ~IsAnswer(l) => OneAnswer(t, k)
            /\ OksIn(conn.rx, shown) /\ (l.kind = "ok" => l.id \in shown \cup {0}) => OksIn(t, shown)
            /\ NoAsk(conn.rx) /\ l.kind # "ask" => NoAsk(t)
      BY <1>2, <3>1, LineAppended
    <3>4. proc'.stdout = Tail(proc.stdout) /\ conn'.rx = Append(conn.rx, l)
      BY <3>1
    <3> HIDE DEF l
    <3>5. /\ OksIn(proc'.stdout, shown) /\ OksIn(conn'.rx, shown)
          /\ NoAsk(proc.stdout) /\ NoAsk(conn.rx) => NoAsk(proc'.stdout) /\ NoAsk(conn'.rx)
          /\ NoAnswer(proc.stdout) /\ NoAnswer(conn.rx) => NoAnswer(proc'.stdout) /\ NoAnswer(conn'.rx)
      BY <3>2, <3>3, <3>4 DEF AnswerInv
    <3>6. ASSUME NEW k, OneAnswer(proc.stdout, k), NoAnswer(conn.rx)
          PROVE  \/ OneAnswer(proc'.stdout, k) /\ NoAnswer(conn'.rx)
                 \/ NoAnswer(proc'.stdout) /\ OneAnswer(conn'.rx, k)
      BY <3>2, <3>3, <3>4, <3>6
    <3>7. ASSUME NEW k, NoAnswer(proc.stdout), OneAnswer(conn.rx, k)
          PROVE  NoAnswer(proc'.stdout) /\ OneAnswer(conn'.rx, k)
      BY <3>2, <3>3, <3>4, <3>7
    <3> QED
      BY <1>1, <3>5, <3>6, <3>7 DEF Quiet, OneUnderWay
  <2>2. CASE ReadClosed
    <3>1. [kind |-> "closed"] \in Lines /\ [kind |-> "closed"].kind = "closed"
      BY DEF Lines
    <3>2. /\ proc'.stdin = proc.stdin /\ proc'.stdout = proc.stdout
          /\ conn'.rx = Append(conn.rx, [kind |-> "closed"]) /\ ~IsAnswer([kind |-> "closed"])
      BY <2>2 DEF ReadClosed, IsAnswer, ControlInv, VibeTypes
    <3>3. OksIn(conn'.rx, shown) /\ (NoAsk(conn.rx) => NoAsk(conn'.rx))
          /\ (NoAnswer(conn.rx) => NoAnswer(conn'.rx))
          /\ \A k : OneAnswer(conn.rx, k) => OneAnswer(conn'.rx, k)
      BY <1>2, <3>1, <3>2, LineAppended DEF AnswerInv
    <3> QED
      BY <3>2, <3>3 DEF AnswerInv, Quiet, OneUnderWay
  <2>3. CASE Deadline \/ UNCHANGED vibeVars
    BY <2>3 DEF Deadline, vibeVars, AnswerInv, Quiet, OneUnderWay
  <2> QED
    BY <2>1, <2>2, <2>3
<1>4. ~asked => AnswersFit'
  BY <1>1, <1>3 DEF AnswersFit, AnswerInv
<1> QED
  BY <1>1, <1>3, <1>4 DEF AnswerInv

LEMMA ServerAnswers ==
  ASSUME ControlInv, AnswerInv, NEW reply \in {"ok", "error", "never"}, ServerAnswer(reply)
  PROVE  AnswerInv'
<1>1. /\ UNCHANGED <<at, job, conn, asked>> /\ Connected' = Connected
      /\ proc.stdin # <<>> /\ proc.stdin \in Seq(Ids) /\ proc.stdout \in Seq(Lines)
      /\ shown \subseteq shown' /\ proc'.stdin = Tail(proc.stdin)
  BY DEF ServerAnswer, Connected, ControlInv, VibeTypes
<1> DEFINE k == Head(proc.stdin)
<1>2. k \in Ids
  BY <1>1
<1>3. \/ proc'.stdout = proc.stdout
      \/ \E l \in Lines : proc'.stdout = Append(proc.stdout, l) /\ l.id = k /\ l.kind \in {"ok", "error"}
                          /\ (l.kind = "ok" => k \in shown' \cup {0})
  <2>1. CASE reply = "never"
    BY <2>1 DEF ServerAnswer, ControlInv, VibeTypes
  <2>2. CASE reply \in {"ok", "error"}
    <3> DEFINE l == [kind |-> reply, id |-> k]
    <3>1. l \in Lines /\ l.id = k /\ l.kind = reply
      BY <1>2, <2>2 DEF Lines
    <3>2. proc'.stdout = Append(proc.stdout, l)
      BY <2>2 DEF ServerAnswer, ControlInv, VibeTypes
    <3>3. reply = "ok" => k \in shown' \cup {0}
      BY <2>2 DEF ServerAnswer
    <3> HIDE DEF l
    <3> QED
      BY <2>2, <3>1, <3>2, <3>3
  <2> QED
    BY <2>1, <2>2
<1> HIDE DEF k
<1>4. OksIn(proc.stdout, shown') /\ OksIn(conn.rx, shown')
  BY <1>1 DEF AnswerInv, OksIn
<1>5. OksIn(proc'.stdout, shown') /\ OksIn(conn'.rx, shown')
  BY <1>1, <1>3, <1>4, LineAppended
<1>6. NoAsk(proc.stdout) => NoAsk(proc'.stdout)
  BY <1>1, <1>3, LineAppended
<1>7. NoAnswer(proc.stdout) => OneAnswer(proc'.stdout, k)
  BY <1>1, <1>3, LineAppended DEF NoAnswer, OneAnswer
<1>8. ASSUME NEW i, OneUnderWay(i) PROVE OneUnderWay(i)'
  <2>1. proc.stdin = <<i>> /\ NoAnswer(proc.stdout) /\ NoAnswer(conn.rx)
    BY <1>1, <1>8 DEF OneUnderWay
  <2>2. k = i /\ proc'.stdin = <<>>
    BY <1>1, <2>1 DEF k
  <2> QED
    BY <1>1, <1>7, <2>1, <2>2 DEF OneUnderWay
<1>9. ~Quiet
  BY <1>1 DEF Quiet
<1>10. ~asked => AnswersFit'
  BY <1>1, <1>6, <1>8, <1>9 DEF AnswersFit, AnswerInv
<1> QED
  BY <1>1, <1>5, <1>10 DEF AnswerInv

LEMMA ServerOtherAnswers ==
  ASSUME ControlInv, AnswerInv, ServerTalk \/ ServerBreaks
  PROVE  AnswerInv'
<1>1. UNCHANGED <<at, job, conn, shown>> /\ Connected' = Connected /\ proc.stdout \in Seq(Lines)
  BY DEF ServerTalk, ServerBreaks, Connected, ControlInv, VibeTypes
<1>2. [kind |-> "note"] \in Lines /\ [kind |-> "end"] \in Lines /\ [kind |-> "ask", id |-> 0] \in Lines
  BY VibeLensAssumption DEF Lines, Ids
<1>3. CASE Says([kind |-> "ask", id |-> 0]) /\ asked' = TRUE
  <2>1. proc'.stdout = Append(proc.stdout, [kind |-> "ask", id |-> 0])
    BY <1>3 DEF Says, ControlInv, VibeTypes
  <2>2. OksIn(proc'.stdout, shown)
    BY <1>1, <1>2, <2>1, LineAppended DEF AnswerInv
  <2> QED
    BY <1>1, <1>3, <2>2 DEF AnswerInv
<1>4. ASSUME NEW l \in {[kind |-> "note"], [kind |-> "end"]}, Says(l), UNCHANGED asked
      PROVE  AnswerInv'
  <2>1. proc'.stdout = Append(proc.stdout, l) /\ proc'.stdin = proc.stdin
    BY <1>4 DEF Says, ControlInv, VibeTypes
  <2>2. l \in Lines /\ ~IsAnswer(l) /\ l.kind \in {"note", "end"}
    BY <1>2 DEF IsAnswer
  <2>3. /\ OksIn(proc'.stdout, shown)
        /\ NoAsk(proc.stdout) => NoAsk(proc'.stdout)
        /\ NoAnswer(proc.stdout) => NoAnswer(proc'.stdout)
        /\ \A k : OneAnswer(proc.stdout, k) => OneAnswer(proc'.stdout, k)
    BY <1>1, <2>1, <2>2, LineAppended DEF AnswerInv
  <2> QED
    BY <1>1, <1>4, <2>1, <2>3 DEF AnswerInv, AnswersFit, Quiet, OneUnderWay
<1>5. CASE ServerBreaks
  <2>1. proc'.stdin = <<>> /\ proc'.stdout = proc.stdout /\ asked' = asked
    BY <1>5 DEF ServerBreaks, ControlInv, VibeTypes
  <2> QED
    BY <1>1, <2>1 DEF AnswerInv, AnswersFit, Quiet, OneUnderWay
<1> QED
  BY <1>3, <1>4, <1>5 DEF ServerTalk

LEMMA AnswerStep ==
  ASSUME ControlInv, AnswerInv, [VibeNext]_vibeVars
  PROVE  AnswerInv'
BY StepAnswers, SpawnAnswers, CallAnswers, TakeAnswers, SkipAnswers, DropAnswers, ReadAnswers,
   ServerAnswers, ServerOtherAnswers
DEF VibeNext, Push, Server

\* A push that ends ok was shown, as long as the server sends no request of its own: the
\* line that call takes answers its own request, though it looks at no id.
THEOREM OkIsShown == VibeSpec => OkMeansShown
<1>1. ASSUME ControlInv, AnswerInv, VibeNext, NEW c \in Callers, job[c].told # "ok", job'[c].told = "ok"
      PROVE  job[c].id \in shown \/ asked
  <2>1. CASE TakeAnswer(c)
    <3>1. job[c].id # 0 /\ Head(conn.rx).kind = "ok"
      <4>1. job[c].id # 0 /\ Return(c, parse_write_envelope(Head(conn.rx)))
        BY <1>1, <2>1 DEF TakeAnswer
      <4>2. JobIs(c, 0, parse_write_envelope(Head(conn.rx)))
        BY <1>1, <4>1, ReturnIs DEF parse_write_envelope, ControlInv
      <4> QED
        BY <1>1, <4>1, <4>2 DEF JobIs, parse_write_envelope
    <3> QED
      BY <1>1, <2>1, <3>1, AnswerIsOwn
  <2>2. ASSUME NEW o \in Callers, Return(o, "degraded") PROVE FALSE
    <3>1. JobIs(o, 0, "degraded")
      BY <1>1, <2>2, ReturnIs DEF ControlInv
    <3> QED
      BY <1>1, <3>1 DEF JobIs
  <2>3. ASSUME NEW o \in Callers, NEW d \in Diffs, explain(o, d) PROVE FALSE
    <3>1. Job(d).told = "none"
      BY JobTyped DEF AllDiffs
    <3> QED
      BY <1>1, <2>3, <3>1 DEF explain, ControlInv, VibeTypes
  <2>4. ASSUME NEW o \in Callers, CallShowDiff(o) PROVE FALSE
    BY <1>1, <2>4 DEF CallShowDiff, ControlInv, VibeTypes, Jobs
  <2>5. ASSUME NEW o \in Callers \ {c}, TakeAnswer(o) PROVE FALSE
    BY <1>1, <2>5 DEF TakeAnswer, Return, ControlInv, VibeTypes
  <2>6. job' # job
    BY <1>1
  <2> QED
    BY <1>1, <2>1, <2>2, <2>3, <2>4, <2>5, <2>6
    DEF VibeNext, Push, Lock, Spawn, CallInitialize, NotifyInitialized, SkipNote, GiveUp, DropKill, DropJoin,
        Deadline, ReadLine, ReadClosed, Server, ServerAnswer, ServerTalk, ServerBreaks
<1>2. ControlInv /\ AnswerInv /\ [VibeNext]_vibeVars
        => [\A c \in Callers : job[c].told # "ok" /\ job'[c].told = "ok" => job[c].id \in shown \/ asked]_vibeVars
  BY <1>1
<1> QED
  BY <1>2, AnswerInit, AnswerStep, VibeInvariance, PTL DEF VibeSpec, OkMeansShown
-----------------------------------------------------------------------------
(* The explanation.  changed_files is a fold: it is defined by a function  *)
(* on the sets of positions, which is followed here along the prefixes.    *)

LEMMA MaxIs ==
  ASSUME NEW s, NEW n \in Nat, s \subseteq 1..n, n \in s
  PROVE  Max(s) = n
<1>1. n \in s /\ \A y \in s : n >= y
  OBVIOUS
<1>2. \A x \in s : (\A y \in s : x >= y) => x = n
  OBVIOUS
<1> QED BY <1>1, <1>2 DEF Max

\* f[s] is what push_path makes of the lines of text at the positions s, within 1..n.
Folds(f, text, n) ==
  f = [s \in SUBSET (1..n) |->
         IF s = {} THEN <<>> ELSE push_path(f[s \ {Max(s)}], text[Max(s)])]

LEMMA FoldsAt ==
  ASSUME NEW f, NEW text, NEW n \in Nat, Folds(f, text, n), NEW s \in SUBSET (1..n)
  PROVE  f[s] = IF s = {} THEN <<>> ELSE push_path(f[s \ {Max(s)}], text[Max(s)])
<1>1. f = [t \in SUBSET (1..n) |->
             IF t = {} THEN <<>> ELSE push_path(f[t \ {Max(t)}], text[Max(t)])]
  BY DEF Folds
<1> QED BY <1>1, Zenon

LEMMA FoldsNext ==
  ASSUME NEW f, NEW text, NEW n \in Nat, Folds(f, text, n), NEW i \in Nat, i < n
  PROVE  f[1..(i + 1)] = push_path(f[1..i], text[i + 1])
<1> DEFINE s == 1..(i + 1)
<1>1. s \in SUBSET (1..n) /\ s # {} /\ s \subseteq 1..(i + 1) /\ i + 1 \in s /\ i + 1 \in Nat
  OBVIOUS
<1>2. s \ {i + 1} = 1..i
  OBVIOUS
<1> HIDE DEF s
<1>3. Max(s) = i + 1
  BY <1>1, MaxIs
<1>4. f[s] = push_path(f[s \ {i + 1}], text[i + 1])
  BY <1>1, <1>3, FoldsAt
<1> QED BY <1>2, <1>4 DEF s

LEMMA FoldsNothing ==
  ASSUME NEW f, NEW text, NEW n \in Nat, Folds(f, text, n)
  PROVE  f[1..0] = <<>>
<1>1. 1..0 \in SUBSET (1..n) /\ 1..0 = {}
  OBVIOUS
<1> QED BY <1>1, FoldsAt

LEMMA FoldingExists ==
  ASSUME NEW text, NEW m \in Nat
  PROVE  \E f : Folds(f, text, m)
<1> DEFINE P == {n \in Nat : \E f : Folds(f, text, n)}
<1>1. 0 \in P
  <2> DEFINE f == [s \in SUBSET (1..0) |-> <<>>]
  <2>1. \A s \in SUBSET (1..0) : s = {}
    OBVIOUS
  <2>2. f = [s \in SUBSET (1..0) |->
               IF s = {} THEN <<>> ELSE push_path(f[s \ {Max(s)}], text[Max(s)])]
    BY <2>1
  <2> QED BY <2>2 DEF Folds
<1>2. ASSUME NEW n \in Nat, n \in P PROVE n + 1 \in P
  <2>1. PICK f : Folds(f, text, n)
    BY <1>2
  <2> DEFINE g == [s \in SUBSET (1..(n + 1)) |->
                     IF n + 1 \in s THEN push_path(f[s \ {n + 1}], text[n + 1]) ELSE f[s]]
  <2>2. ASSUME NEW s \in SUBSET (1..(n + 1))
        PROVE  g[s] = IF s = {} THEN <<>> ELSE push_path(g[s \ {Max(s)}], text[Max(s)])
    <3>1. CASE n + 1 \in s
      <4>1. n + 1 \in Nat /\ s \subseteq 1..(n + 1) /\ s # {}
        BY <3>1
      <4>2. Max(s) = n + 1
        BY <3>1, <4>1, MaxIs
      <4>3. s \ {n + 1} \in SUBSET (1..(n + 1)) /\ n + 1 \notin s \ {n + 1}
        OBVIOUS
      <4>4. g[s \ {n + 1}] = f[s \ {n + 1}]
        BY <4>3
      <4>5. g[s] = push_path(f[s \ {n + 1}], text[n + 1])
        BY <3>1
      <4> HIDE DEF g
      <4> QED BY <4>1, <4>2, <4>4, <4>5
    <3>2. CASE n + 1 \notin s
      <4>1. s \in SUBSET (1..n)
        BY <3>2
      <4>2. g[s] = f[s]
        BY <3>2
      <4>3. n + 1 \notin s \ {Max(s)} /\ s \ {Max(s)} \in SUBSET (1..(n + 1))
        BY <3>2
      <4>4. g[s \ {Max(s)}] = f[s \ {Max(s)}]
        BY <4>3
      <4> HIDE DEF g
      <4>5. f[s] = IF s = {} THEN <<>> ELSE push_path(f[s \ {Max(s)}], text[Max(s)])
        BY <2>1, <4>1, FoldsAt
      <4> QED BY <4>2, <4>4, <4>5
    <3> QED BY <3>1, <3>2
  <2>3. Folds(g, text, n + 1)
    <3>1. g = [s \in SUBSET (1..(n + 1)) |-> g[s]]
      OBVIOUS
    <3> HIDE DEF g
    <3> QED BY <2>2, <3>1 DEF Folds
  <2> QED BY <2>3
<1> HIDE DEF P
<1>3. \A n \in Nat : n \in P
  BY <1>1, <1>2, InductiveSet
<1> QED BY <1>3 DEF P

\* On the prefixes of texts that begin alike, two such functions agree.
LEMMA FoldingUnique ==
  ASSUME NEW text, NEW more, NEW m \in Nat, NEW n \in Nat, m <= n,
         \A i \in 1..m : text[i] = more[i],
         NEW f, NEW g, Folds(f, text, m), Folds(g, more, n)
  PROVE  f[1..m] = g[1..m]
<1> DEFINE P == {i \in Nat : i <= m => f[1..i] = g[1..i]}
<1>1. 0 \in P
  BY FoldsNothing
<1>2. ASSUME NEW i \in Nat, i \in P PROVE i + 1 \in P
  <2> SUFFICES ASSUME i + 1 <= m PROVE f[1..(i + 1)] = g[1..(i + 1)]
    OBVIOUS
  <2>1. i < m /\ i < n /\ i + 1 \in 1..m
    OBVIOUS
  <2>2. f[1..(i + 1)] = push_path(f[1..i], text[i + 1])
    BY <2>1, FoldsNext
  <2>3. g[1..(i + 1)] = push_path(g[1..i], more[i + 1])
    BY <2>1, FoldsNext
  <2>4. f[1..i] = g[1..i] /\ text[i + 1] = more[i + 1]
    BY <1>2, <2>1
  <2> QED BY <2>2, <2>3, <2>4
<1> HIDE DEF P
<1>3. m \in P
  BY <1>1, <1>2, InductiveSet
<1> QED BY <1>3 DEF P

LEMMA ChangedIs ==
  ASSUME NEW text \in Seq(TextLine), NEW f, Folds(f, text, Len(text))
  PROVE  changed_files(text) = f[1..Len(text)]
<1> DEFINE n == Len(text)
           g == CHOOSE h : Folds(h, text, n)
<1>1. n \in Nat /\ DOMAIN text = 1..n
  OBVIOUS
<1>2. Folds(g, text, n)
  OBVIOUS
<1>3. changed_files(text) = g[1..n]
  BY <1>1 DEF changed_files, FoldLeft, MapThenFoldSet, Folds
<1> HIDE DEF g, n
<1>4. f[1..n] = g[1..n]
  <2>1. Folds(f, text, n) /\ n <= n
    BY <1>1 DEF n
  <2> QED BY <1>1, <1>2, <2>1, FoldingUnique
<1> QED BY <1>3, <1>4 DEF n

\* The files of no line, and of one line more.
LEMMA ChangedEmpty == changed_files(<<>>) = <<>>
<1>1. <<>> \in Seq(TextLine) /\ Len(<<>>) = 0 /\ 0 \in Nat
  OBVIOUS
<1>2. PICK f : Folds(f, <<>>, 0)
  BY <1>1, FoldingExists
<1>3. changed_files(<<>>) = f[1..0]
  BY <1>1, <1>2, ChangedIs
<1> QED BY <1>1, <1>2, <1>3, FoldsNothing

LEMMA ChangedAppend ==
  ASSUME NEW text \in Seq(TextLine), NEW l \in TextLine
  PROVE  changed_files(Append(text, l)) = push_path(changed_files(text), l)
<1> DEFINE n == Len(text)
           more == Append(text, l)
<1>1. /\ n \in Nat /\ n + 1 \in Nat /\ n <= n + 1 /\ n < n + 1
      /\ more \in Seq(TextLine) /\ Len(more) = n + 1 /\ more[n + 1] = l
      /\ \A i \in 1..n : text[i] = more[i]
  OBVIOUS
<1>2. text \in Seq(TextLine) /\ Len(text) = n
  OBVIOUS
<1> HIDE DEF n, more
<1>3. PICK f : Folds(f, text, n)
  BY <1>1, FoldingExists
<1>4. PICK g : Folds(g, more, n + 1)
  BY <1>1, FoldingExists
<1>5. changed_files(text) = f[1..n] /\ changed_files(more) = g[1..(n + 1)]
  BY <1>1, <1>2, <1>3, <1>4, ChangedIs
<1>6. f[1..n] = g[1..n]
  BY <1>1, <1>3, <1>4, FoldingUnique
<1>7. g[1..(n + 1)] = push_path(g[1..n], more[n + 1])
  BY <1>1, <1>4, FoldsNext
<1> QED BY <1>1, <1>5, <1>6, <1>7 DEF more

\* A sequence that is not empty is one with another element at its end.
LEMMA LastOff ==
  ASSUME NEW S, NEW n \in Nat, NEW s \in Seq(S), Len(s) = n + 1
  PROVE  \E front \in Seq(S), x \in S : s = Append(front, x) /\ Len(front) = n
<1> DEFINE front == SubSeq(s, 1, n)
<1>1. front \in Seq(S) /\ Len(front) = n /\ s[n + 1] \in S
  OBVIOUS
<1>2. \A i \in 1..n : front[i] = s[i]
  OBVIOUS
<1> HIDE DEF front
<1>3. Append(front, s[n + 1]) = s
  BY <1>1, <1>2
<1> QED BY <1>1, <1>3

LEMMA AppendThree ==
  ASSUME NEW S, NEW s \in Seq(S), NEW x \in S, NEW y \in S, NEW z \in S
  PROVE  /\ <<x, y, z>> \in Seq(S) /\ s \o <<x, y, z>> = Append(Append(Append(s, x), y), z)
         /\ Append(s, x) \in Seq(S) /\ Append(Append(s, x), y) \in Seq(S)
         /\ Append(Append(Append(s, x), y), z) \in Seq(S)
OBVIOUS

\* What a line names is a sequence of pieces.
Piece == Parts \cup {Mark}
LEMMA NameTyped ==
  ASSUME NEW l \in TextLine
  PROVE  NameIn(l) \in Seq(Piece)
<1>1. CASE l \in HunkLine
  <2>1. l.look # "git" /\ l.path \in Path \cup {NoPath}
    BY <1>1 DEF HunkLine
  <2>2. l.path.parts \in Seq(Parts) /\ <<>> \in Seq(Piece)
    <3>1. <<>> \in Seq(Parts) /\ <<>> \in Seq(Piece)
      OBVIOUS
    <3>2. l.path \in Path => l.path.parts \in Seq(Parts)
      BY DEF Path
    <3>3. NoPath.parts = <<>>
      BY DEF NoPath
    <3> QED BY <2>1, <3>1, <3>2, <3>3
  <2>3. l.path.parts \in Seq(Piece)
    BY <2>2 DEF Piece
  <2> QED BY <2>1, <2>2, <2>3 DEF NameIn
<1>2. CASE l \in [look : {"git"}, old : Path, new : Path]
  <2>1. l.look = "git" /\ l.old \in Path /\ l.new \in Path
    BY <1>2
  <2>2. ASSUME NEW p \in Path, NEW n \in DOMAIN p.parts
        PROVE  /\ <<p.parts[n]>> \in Seq(Piece)
               /\ <<p.parts[n]>> \o <<Mark>> \in Seq(Piece)
               /\ <<p.parts[n]>> \o <<>> \in Seq(Piece)
    <3>1. p.parts \in Seq(Parts)
      BY DEF Path
    <3>2. p.parts[n] \in Piece /\ Mark \in Piece
      BY <3>1 DEF Piece
    <3> QED BY <3>2
  <2>3. l.old.parts \in Seq(Parts) /\ l.new.parts \in Seq(Parts) \ {<<>>}
    BY <2>1 DEF Path
  <2>4. /\ Len(l.old.parts) > 2 => 2 \in DOMAIN l.old.parts
        /\ Len(l.old.parts) = 2 => 2 \in DOMAIN l.old.parts
        /\ 1 \in DOMAIN l.new.parts
        /\ Len(l.new.parts) > 1 => 2 \in DOMAIN l.new.parts
    BY <2>3
  <2> DEFINE marked(p, n) == <<p.parts[n]>> \o IF p.quoted /\ n = Len(p.parts) THEN <<Mark>> ELSE <<>>
  <2>5. \A p \in Path : \A n \in DOMAIN p.parts : marked(p, n) \in Seq(Piece)
    BY <2>2
  <2>6. /\ Len(l.old.parts) = 2 => marked(l.old, 2) \in Seq(Piece)
        /\ marked(l.new, 1) \in Seq(Piece)
        /\ Len(l.new.parts) > 1 => marked(l.new, 2) \in Seq(Piece)
    BY <2>1, <2>4, <2>5
  <2>7. /\ Len(l.old.parts) > 2 => <<l.old.parts[2]>> \in Seq(Piece)
        /\ <<l.new.parts[1]>> \in Seq(Piece)
    BY <2>1, <2>2, <2>4
  <2>8. split_nth_1(l.old, l.new) =
          CASE Len(l.old.parts) > 2 -> <<l.old.parts[2]>>
            [] Len(l.old.parts) = 2 ->
                 marked(l.old, 2) \o IF l.new.quoted THEN <<Mark>> \o marked(l.new, 1) ELSE <<>>
            [] Len(l.old.parts) = 1 /\ ~l.new.quoted -> <<l.new.parts[1]>>
            [] Len(l.old.parts) = 1 /\ l.new.quoted /\ Len(l.new.parts) > 1 -> marked(l.new, 2)
            [] OTHER -> <<>>
    BY DEF split_nth_1
  <2>9. <<Mark>> \in Seq(Piece) /\ <<>> \in Seq(Piece)
    BY DEF Piece
  <2> HIDE DEF marked
  <2>10. Len(l.old.parts) = 2 => marked(l.old, 2) \o (IF l.new.quoted THEN <<Mark>> \o marked(l.new, 1) ELSE <<>>)
                                  \in Seq(Piece)
    BY <2>6, <2>9
  <2>11. split_nth_1(l.old, l.new) \in Seq(Piece)
    <3>1. Len(l.old.parts) \in Nat
      BY <2>3
    <3> QED BY <2>6, <2>7, <2>8, <2>9, <2>10, <3>1, Zenon
  <2> QED BY <2>1, <2>11 DEF NameIn
<1> QED BY <1>1, <1>2 DEF TextLine

\* What the lines of a text name.
NamedIn(text) == {NameIn(text[n]) : n \in DOMAIN text} \ {<<>>}
Distinct(names) == \A m, n \in DOMAIN names : m < n => names[m] # names[n]

\* A name is taken in unless there is none or it has been.
LEMMA PushIs ==
  ASSUME NEW names \in Seq(Seq(Piece)), NEW l \in TextLine, Distinct(names)
  PROVE  /\ push_path(names, l) \in Seq(Seq(Piece)) /\ Distinct(push_path(names, l))
         /\ ToSet(push_path(names, l)) = ToSet(names) \cup ({NameIn(l)} \ {<<>>})
<1>1. NameIn(l) \in Seq(Piece)
  BY NameTyped
<1> DEFINE x == NameIn(l)
<1>2. CASE x \in ToSet(names) \cup {<<>>}
  BY <1>2 DEF push_path
<1>3. CASE x \notin ToSet(names) \cup {<<>>}
  <2> HIDE DEF x
  <2>1. /\ Append(names, x) \in Seq(Seq(Piece)) /\ DOMAIN Append(names, x) = 1..(Len(names) + 1)
        /\ DOMAIN names = 1..Len(names) /\ Len(names) \in Nat
        /\ Append(names, x)[Len(names) + 1] = x
        /\ \A n \in 1..Len(names) : Append(names, x)[n] = names[n] /\ names[n] # x
    BY <1>1, <1>3 DEF x, ToSet
  <2>2. ToSet(Append(names, x)) = ToSet(names) \cup {x}
    BY <2>1 DEF ToSet
  <2> DEFINE named == Append(names, x)
             k == Len(names)
  <2>3. Distinct(named)
    <3> HIDE DEF named, k
    <3> SUFFICES ASSUME NEW m \in DOMAIN named, NEW n \in DOMAIN named, m < n
                 PROVE  named[m] # named[n]
      BY DEF Distinct
    <3>1. k \in Nat /\ DOMAIN named = 1..(k + 1) /\ DOMAIN names = 1..k
      BY <2>1 DEF named, k
    <3>2. m \in 1..k /\ (n \in 1..k \/ n = k + 1)
      BY <3>1
    <3>3. named[m] = names[m] /\ names[m] # x
      BY <2>1, <3>2 DEF named, k
    <3>4. n \in 1..k => named[n] = names[n] /\ names[m] # names[n]
      BY <2>1, <3>1, <3>2 DEF named, k, Distinct
    <3>5. n = k + 1 => named[n] = x
      BY <2>1 DEF named, k
    <3> QED BY <3>2, <3>3, <3>4, <3>5
  <2>4. push_path(names, l) = named
    BY <1>3 DEF push_path, x
  <2> QED BY <1>3, <2>1, <2>2, <2>3, <2>4 DEF x
<1> QED BY <1>2, <1>3

\* The files of a text are what its lines name, each once.
LEMMA ChangedNames ==
  ASSUME NEW text \in Seq(TextLine)
  PROVE  /\ changed_files(text) \in Seq(Seq(Piece)) /\ Distinct(changed_files(text))
         /\ ToSet(changed_files(text)) = NamedIn(text)
<1> DEFINE Right(t) == /\ changed_files(t) \in Seq(Seq(Piece)) /\ Distinct(changed_files(t))
                       /\ ToSet(changed_files(t)) = NamedIn(t)
           P == {n \in Nat : \A t \in Seq(TextLine) : Len(t) = n => Right(t)}
<1>1. 0 \in P
  <2> SUFFICES ASSUME NEW t \in Seq(TextLine), Len(t) = 0 PROVE Right(t)
    OBVIOUS
  <2>1. t = <<>> /\ <<>> \in Seq(Seq(Piece))
    OBVIOUS
  <2>2. changed_files(t) = <<>>
    BY <2>1, ChangedEmpty
  <2>3. Distinct(<<>>) /\ ToSet(<<>>) = {} /\ NamedIn(<<>>) = {}
    BY DEF Distinct, ToSet, NamedIn
  <2> QED BY <2>1, <2>2, <2>3
<1>2. ASSUME NEW n \in Nat, n \in P PROVE n + 1 \in P
  <2> SUFFICES ASSUME NEW t \in Seq(TextLine), Len(t) = n + 1 PROVE Right(t)
    OBVIOUS
  <2>1. PICK front \in Seq(TextLine), l \in TextLine : t = Append(front, l) /\ Len(front) = n
    BY LastOff
  <2>2. Right(front)
    BY <1>2, <2>1
  <2>3. changed_files(t) = push_path(changed_files(front), l)
    BY <2>1, ChangedAppend
  <2>4. NamedIn(t) = NamedIn(front) \cup ({NameIn(l)} \ {<<>>})
    <3>1. /\ DOMAIN t = 1..(n + 1) /\ DOMAIN front = 1..n /\ t[n + 1] = l
          /\ \A i \in 1..n : t[i] = front[i]
          /\ \A i : i \in 1..(n + 1) <=> i \in 1..n \/ i = n + 1
      BY <2>1
    <3> QED BY <3>1 DEF NamedIn
  <2> QED BY <2>2, <2>3, <2>4, PushIs
<1> HIDE DEF P, Right
<1>3. Len(text) \in P
  <2>1. Len(text) \in Nat
    OBVIOUS
  <2> QED BY <1>1, <1>2, <2>1, InductiveSet
<1>4. Right(text)
  BY <1>3 DEF P
<1> QED BY <1>4 DEF Right

LEMMA NamedConcat ==
  ASSUME NEW text \in Seq(TextLine), NEW more \in Seq(TextLine)
  PROVE  NamedIn(text \o more) = NamedIn(text) \cup NamedIn(more)
<1> DEFINE m == Len(text)
           n == Len(more)
           all == text \o more
<1>1. /\ m \in Nat /\ n \in Nat /\ DOMAIN text = 1..m /\ DOMAIN more = 1..n
      /\ DOMAIN all = 1..(m + n)
      /\ \A i \in 1..m : all[i] = text[i]
      /\ \A i \in 1..n : all[m + i] = more[i]
  OBVIOUS
<1> HIDE DEF m, n, all
<1>2. \A i : i \in 1..(m + n) <=> i \in 1..m \/ \E k \in 1..n : i = m + k
  <2>1. \A k \in 1..n : m + k \in 1..(m + n)
    BY <1>1
  <2>2. \A i \in 1..(m + n) : i \notin 1..m => i - m \in 1..n /\ i = m + (i - m)
    BY <1>1
  <2>3. \A i \in 1..m : i \in 1..(m + n)
    BY <1>1
  <2> QED BY <2>1, <2>2, <2>3
<1>3. NamedIn(all) = {NameIn(all[i]) : i \in 1..(m + n)} \ {<<>>}
  BY <1>1 DEF NamedIn
<1>4. {NameIn(all[i]) : i \in 1..(m + n)} = {NameIn(text[i]) : i \in 1..m} \cup {NameIn(more[i]) : i \in 1..n}
  BY <1>1, <1>2
<1> QED BY <1>1, <1>3, <1>4 DEF NamedIn, all

\* A hunk's lines name no file, unless one looks like a header.
LEMMA ChangedSame ==
  ASSUME NEW text \in Seq(TextLine), NEW lines \in Seq(HunkLine), LinesWith("new", lines) = {}
  PROVE  changed_files(text \o lines) = changed_files(text)
<1> DEFINE Plain(s) == \A i \in DOMAIN s : NameIn(s[i]) = <<>>
           P == {n \in Nat : \A s \in Seq(TextLine) :
                   Len(s) = n /\ Plain(s) => changed_files(text \o s) = changed_files(text)}
<1>1. 0 \in P
  <2> SUFFICES ASSUME NEW s \in Seq(TextLine), Len(s) = 0
               PROVE  changed_files(text \o s) = changed_files(text)
    OBVIOUS
  <2>1. text \o s = text
    OBVIOUS
  <2> QED BY <2>1
<1>2. ASSUME NEW n \in Nat, n \in P PROVE n + 1 \in P
  <2> SUFFICES ASSUME NEW s \in Seq(TextLine), Len(s) = n + 1, Plain(s)
               PROVE  changed_files(text \o s) = changed_files(text)
    OBVIOUS
  <2>1. PICK front \in Seq(TextLine), l \in TextLine : s = Append(front, l) /\ Len(front) = n
    BY ONLY n \in Nat, s \in Seq(TextLine), Len(s) = n + 1, LastOff
  <2>2. Plain(front) /\ NameIn(l) = <<>>
    <3>1. /\ DOMAIN s = 1..(n + 1) /\ DOMAIN front = 1..n /\ s[n + 1] = l
          /\ \A i \in 1..n : s[i] = front[i] /\ i \in 1..(n + 1)
      BY <2>1
    <3>2. n + 1 \in 1..(n + 1)
      OBVIOUS
    <3> QED BY <3>1, <3>2
  <2>3. text \o s = Append(text \o front, l) /\ text \o front \in Seq(TextLine)
    BY <2>1
  <2>4. changed_files(text \o front) = changed_files(text)
    BY <1>2, <2>1, <2>2
  <2>5. changed_files(text \o s) = push_path(changed_files(text \o front), l)
    BY <2>3, ChangedAppend
  <2> QED BY <2>2, <2>4, <2>5 DEF push_path
<1>3. Plain(lines) /\ lines \in Seq(TextLine)
  <2>1. \A l \in HunkLine : l.look # "git" /\ l \in TextLine
    BY DEF HunkLine, TextLine
  <2>2. \A i \in DOMAIN lines : lines[i] \in HunkLine /\ lines[i].look # "new"
    BY DEF LinesWith
  <2>3. Plain(lines)
    BY <2>1, <2>2 DEF NameIn
  <2>4. lines \in Seq(TextLine)
    BY <2>1
  <2> QED BY <2>3, <2>4
<1> HIDE DEF P, Plain
<1>4. Len(lines) \in P
  <2>1. Len(lines) \in Nat
    OBVIOUS
  <2> QED BY <1>1, <1>2, <2>1, InductiveSet
<1> QED BY <1>3, <1>4 DEF P

LEMMA SectionTyped ==
  ASSUME NEW f \in File
  PROVE  /\ f.lines \in Seq(HunkLine) /\ f.lines \in Seq(TextLine)
         /\ HeaderOf(f) \in Seq(TextLine) /\ SectionOf(f) = HeaderOf(f) \o f.lines
         /\ SectionOf(f) \in Seq(TextLine)
<1>1. f.old \in Path /\ f.new \in Path /\ f.lines \in Seq(HunkLine) /\ f.plus \in BOOLEAN
  BY DEF File
<1>2. f.lines \in Seq(TextLine)
  <2>1. \A l \in HunkLine : l \in TextLine
    BY DEF TextLine
  <2> QED BY <1>1, <2>1
<1>3. HeaderOf(f) \in Seq(TextLine)
  <2>1. [look |-> "git", old |-> f.old, new |-> f.new] \in TextLine
    BY <1>1 DEF TextLine
  <2>2. \A p \in Path \cup {NoPath} :
          [look |-> "old", path |-> p] \in TextLine /\ [look |-> "new", path |-> p] \in TextLine
    BY DEF TextLine, HunkLine
  <2>3. /\ [look |-> "old", path |-> NoPath] \in TextLine
        /\ [look |-> "new", path |-> IF f.plus THEN f.new ELSE NoPath] \in TextLine
    BY <1>1, <2>2
  <2> QED BY <2>1, <2>3 DEF HeaderOf
<1>4. SectionOf(f) = HeaderOf(f) \o f.lines
  BY DEF SectionOf
<1>5. SectionOf(f) \in Seq(TextLine)
  BY <1>2, <1>3, <1>4
<1> QED BY <1>1, <1>2, <1>3, <1>4, <1>5

LEMMA PathTyped ==
  ASSUME NEW f \in File
  PROVE  f.new.parts \in Seq(Piece)
<1>1. f.new.parts \in Seq(Parts)
  BY DEF File, Path
<1>2. Parts \subseteq Piece
  BY DEF Piece
<1> QED BY <1>1, <1>2

\* The three names of a header.
LEMMA HeaderNames ==
  ASSUME NEW f \in File
  PROVE  /\ f.new.parts # <<>> /\ NameIn(HeaderOf(f)[2]) = <<>>
         /\ NameIn(HeaderOf(f)[3]) \in {<<>>, f.new.parts}
         /\ f.plus /\ ~f.new.quoted => NameIn(HeaderOf(f)[3]) = f.new.parts
         /\ CutRight(f) => NameIn(HeaderOf(f)[1]) = f.new.parts
<1>1. /\ HeaderOf(f)[1] = [look |-> "git", old |-> f.old, new |-> f.new]
      /\ HeaderOf(f)[2] = [look |-> "old", path |-> NoPath]
      /\ HeaderOf(f)[3] = [look |-> "new", path |-> IF f.plus THEN f.new ELSE NoPath]
  BY DEF HeaderOf
<1>2. f.old \in Path /\ f.new \in Path /\ f.plus \in BOOLEAN
  BY DEF File
<1>3. f.new.parts \in Seq(Parts) /\ f.new.parts # <<>> /\ NoPath.parts = <<>>
  BY <1>2 DEF Path, NoPath
<1>4. NameIn(HeaderOf(f)[2]) = <<>>
  BY <1>1 DEF NameIn
<1>5. /\ NameIn(HeaderOf(f)[3]) \in {<<>>, f.new.parts}
      /\ f.plus /\ ~f.new.quoted => NameIn(HeaderOf(f)[3]) = f.new.parts
  BY <1>1, <1>2, <1>3 DEF NameIn
<1>6. ASSUME CutRight(f) PROVE NameIn(HeaderOf(f)[1]) = f.new.parts
  <2>1. NameIn(HeaderOf(f)[1]) = split_nth_1(f.old, f.new)
    BY <1>1 DEF NameIn
  <2>2. Len(f.old.parts) = 1 /\ ~f.new.quoted /\ Len(f.new.parts) = 1
    BY <1>6 DEF CutRight
  <2>3. split_nth_1(f.old, f.new) = <<f.new.parts[1]>>
    BY <2>2 DEF split_nth_1
  <2>4. f.new.parts = <<f.new.parts[1]>>
    BY <1>3, <2>2
  <2> QED BY <2>1, <2>3, <2>4
<1> QED BY <1>3, <1>4, <1>5, <1>6

\* A section names its file, if what it prints of the path can be read.
LEMMA SectionNames ==
  ASSUME NEW f \in File, ReadWhole(f)
  PROVE  f.new.parts \in NamedIn(SectionOf(f))
<1>1. HeaderOf(f) \in Seq(TextLine) /\ f.lines \in Seq(TextLine) /\ SectionOf(f) = HeaderOf(f) \o f.lines
  BY SectionTyped
<1>2. NamedIn(SectionOf(f)) = NamedIn(HeaderOf(f)) \cup NamedIn(f.lines)
  BY <1>1, NamedConcat
<1>3. \E n \in {1, 3} : NameIn(HeaderOf(f)[n]) = f.new.parts
  BY HeaderNames DEF ReadWhole
<1>4. 1 \in DOMAIN HeaderOf(f) /\ 3 \in DOMAIN HeaderOf(f)
  BY DEF HeaderOf
<1>5. f.new.parts \in NamedIn(HeaderOf(f))
  BY <1>3, <1>4, HeaderNames DEF NamedIn
<1> QED BY <1>2, <1>5

\* A section whose header is cut right adds its path, unless that has been named.
LEMMA ChangedSection ==
  ASSUME NEW text \in Seq(TextLine), NEW f \in File, CutRight(f), LinesWith("new", f.lines) = {}
  PROVE  changed_files(text \o SectionOf(f)) =
           IF f.new.parts \in ToSet(changed_files(text)) THEN changed_files(text)
           ELSE Append(changed_files(text), f.new.parts)
<1> DEFINE a == HeaderOf(f)[1]
           b == HeaderOf(f)[2]
           c == HeaderOf(f)[3]
           x == f.new.parts
           lines == f.lines
           ta == Append(text, a)
           tb == Append(ta, b)
           tc == Append(tb, c)
           names == changed_files(text)
<1>1. /\ HeaderOf(f) = <<a, b, c>> /\ HeaderOf(f) \in Seq(TextLine)
      /\ SectionOf(f) = HeaderOf(f) \o lines
      /\ lines \in Seq(TextLine) /\ lines \in Seq(HunkLine) /\ LinesWith("new", lines) = {}
  BY SectionTyped DEF HeaderOf
<1>2. a \in TextLine /\ b \in TextLine /\ c \in TextLine
  <2>1. \A s \in Seq(TextLine) : \A i \in DOMAIN s : s[i] \in TextLine
    OBVIOUS
  <2>2. 1 \in DOMAIN HeaderOf(f) /\ 2 \in DOMAIN HeaderOf(f) /\ 3 \in DOMAIN HeaderOf(f)
    BY DEF HeaderOf
  <2> QED BY <1>1, <2>1, <2>2
<1>3. x # <<>> /\ NameIn(a) = x /\ NameIn(b) = <<>> /\ NameIn(c) \in {<<>>, x}
  BY HeaderNames
<1> HIDE DEF a, b, c, x, lines
<1>4. /\ ta \in Seq(TextLine) /\ tb \in Seq(TextLine) /\ tc \in Seq(TextLine)
      /\ text \o SectionOf(f) = tc \o lines
  <2> DEFINE abc == <<a, b, c>>
  <2>1. /\ abc \in Seq(TextLine) /\ text \o abc = tc
        /\ ta \in Seq(TextLine) /\ tb \in Seq(TextLine) /\ tc \in Seq(TextLine)
    BY <1>2, AppendThree
  <2>2. SectionOf(f) = abc \o lines
    BY <1>1
  <2> HIDE DEF abc, tc
  <2>3. (text \o abc) \o lines = text \o (abc \o lines)
    <3>1. abc \in Seq(TextLine) /\ lines \in Seq(TextLine)
      BY <1>1, <2>1
    <3> QED BY ONLY <3>1, text \in Seq(TextLine), ConcatAssociative
  <2> QED BY <2>1, <2>2, <2>3
<1>5. changed_files(text \o SectionOf(f)) = changed_files(tc)
  <2> HIDE DEF tc
  <2> QED BY <1>1, <1>4, ChangedSame
<1>6. /\ changed_files(ta) = push_path(names, a)
      /\ changed_files(tb) = push_path(changed_files(ta), b)
      /\ changed_files(tc) = push_path(changed_files(tb), c)
  <2>1. /\ changed_files(Append(text, a)) = push_path(names, a)
        /\ changed_files(Append(ta, b)) = push_path(changed_files(ta), b)
        /\ changed_files(Append(tb, c)) = push_path(changed_files(tb), c)
    <3> HIDE DEF ta, tb, tc
    <3> QED BY <1>2, <1>4, ChangedAppend
  <2> QED BY <2>1
<1>7. names \in Seq(Seq(Piece))
  BY ChangedNames
<1> HIDE DEF names, ta, tb, tc
<1>8. changed_files(ta) = IF x \in ToSet(names) THEN names ELSE Append(names, x)
  BY <1>3, <1>6 DEF push_path
<1>9. changed_files(tb) = changed_files(ta)
  BY <1>3, <1>6 DEF push_path
<1>10. x \in ToSet(changed_files(ta))
  <2>1. ASSUME x \notin ToSet(names) PROVE x \in ToSet(Append(names, x))
    <3>1. Len(names) + 1 \in DOMAIN Append(names, x) /\ Append(names, x)[Len(names) + 1] = x
      BY <1>7
    <3> QED BY <3>1 DEF ToSet
  <2> QED BY <1>8, <2>1
<1>11. changed_files(tc) = changed_files(tb)
  BY <1>3, <1>6, <1>9, <1>10 DEF push_path
<1> QED BY <1>5, <1>8, <1>9, <1>11 DEF names, x

\* One more file is one more section at the end of the text.
LEMMA TextEmpty == TextOf(<<>>) = <<>>
<1>1. [i \in DOMAIN <<>> |-> SectionOf(<<>>[i])] = <<>>
  OBVIOUS
<1> QED BY <1>1, FlattenEmpty DEF TextOf

LEMMA ListIsSeq ==
  ASSUME NEW S, NEW k \in Nat, NEW s \in [1..k -> S]
  PROVE  s \in Seq(S) /\ Len(s) = k
OBVIOUS

LEMMA TextAppend ==
  ASSUME NEW files \in Seq(File), NEW f \in File
  PROVE  /\ TextOf(files) \in Seq(TextLine)
         /\ TextOf(Append(files, f)) = TextOf(files) \o SectionOf(f)
<1> DEFINE sections(s) == [i \in DOMAIN s |-> SectionOf(s[i])]
           seqs == sections(files)
           more == Append(files, f)
           last == SectionOf(f)
           n == Len(files)
<1>1. \A g \in File : SectionOf(g) \in Seq(TextLine)
  BY SectionTyped
<1>2. /\ n \in Nat /\ DOMAIN files = 1..n /\ \A i \in 1..n : files[i] \in File
      /\ DOMAIN more = 1..(n + 1) /\ more[n + 1] = f
      /\ \A i \in 1..n : more[i] = files[i]
  OBVIOUS
<1>3. seqs \in Seq(Seq(TextLine)) /\ Len(seqs) = n /\ last \in Seq(TextLine)
  <2> HIDE DEF n
  <2>1. seqs = [i \in 1..n |-> SectionOf(files[i])]
    BY <1>2
  <2>2. \A i \in 1..n : SectionOf(files[i]) \in Seq(TextLine)
    BY <1>1, <1>2
  <2> HIDE DEF seqs
  <2>3. seqs \in Seq(Seq(TextLine)) /\ Len(seqs) = n
    BY ONLY <1>2, <2>1, <2>2
  <2>4. last \in Seq(TextLine)
    BY <1>1
  <2> QED BY <2>3, <2>4
<1>4. sections(more) = Append(seqs, last)
  <2> HIDE DEF n, more
  <2>1. \A i \in 1..(n + 1) : more[i] \in File
    BY <1>2
  <2> DEFINE all == sections(more)
             longer == Append(seqs, last)
  <2>2. all \in Seq(Seq(TextLine)) /\ Len(all) = n + 1 /\ all[n + 1] = last
        /\ \A i \in 1..n : all[i] = SectionOf(files[i])
    <3>1. all = [i \in 1..(n + 1) |-> SectionOf(more[i])]
      BY <1>2
    <3>2. n + 1 \in Nat /\ \A i \in 1..(n + 1) : SectionOf(more[i]) \in Seq(TextLine)
      BY <1>1, <1>2, <2>1
    <3>3. \A i \in 1..n : i \in 1..(n + 1)
      BY <1>2
    <3>4. n + 1 \in 1..(n + 1)
      BY <1>2
    <3> HIDE DEF all
    <3>5. all \in [1..(n + 1) -> Seq(TextLine)]
      BY ONLY <3>1, <3>2
    <3>6. all \in Seq(Seq(TextLine)) /\ Len(all) = n + 1
      BY ONLY <3>2, <3>5, ListIsSeq
    <3> QED BY <1>2, <3>1, <3>3, <3>4, <3>5, <3>6
  <2>3. \A i \in 1..n : seqs[i] = SectionOf(files[i])
    BY <1>2
  <2> HIDE DEF seqs, last, all
  <2>4. longer \in Seq(Seq(TextLine)) /\ Len(longer) = n + 1 /\ longer[n + 1] = last
        /\ \A i \in 1..n : longer[i] = seqs[i]
    BY <1>2, <1>3
  <2> HIDE DEF longer
  <2>5. \A i \in 1..Len(all) : all[i] = longer[i]
    <3>1. \A i \in 1..(n + 1) : i \in 1..n \/ i = n + 1
      BY <1>2
    <3>2. \A i \in 1..(n + 1) : all[i] = longer[i]
      BY <2>2, <2>3, <2>4, <3>1, Zenon
    <3> QED BY <2>2, <3>2
  <2>6. all = longer
    BY <2>2, <2>4, <2>5, SeqEqual
  <2> QED BY <2>6 DEF all, longer
<1>5. TextOf(files) = FlattenSeq(seqs) /\ TextOf(more) = FlattenSeq(sections(more))
  BY DEF TextOf
<1> HIDE DEF seqs, sections, last, more
<1>6. FlattenSeq(Append(seqs, last)) = FlattenSeq(seqs) \o last
  BY <1>3, FlattenAppend
<1>7. FlattenSeq(seqs) \in Seq(TextLine)
  BY <1>3, FlattenType
<1> QED BY <1>4, <1>5, <1>6, <1>7 DEF more, last

LEMMA TextTyped ==
  ASSUME NEW files \in Seq(File)
  PROVE  TextOf(files) \in Seq(TextLine)
<1>1. CASE files = <<>>
  <2>1. <<>> \in Seq(TextLine)
    OBVIOUS
  <2> QED BY <1>1, <2>1, TextEmpty
<1>2. CASE files # <<>>
  <2>1. files[1] \in File
    BY <1>2
  <2> QED BY <2>1, TextAppend
<1> QED BY <1>1, <1>2

\* A file that has been named before adds no name, another one its own.
LEMMA NamesStep ==
  ASSUME NEW files \in Seq(File), NEW f \in File, NEW S, NEW names \in Seq(S), f.new.parts \in S,
         NamesOf(names, files)
  PROVE  NamesOf(IF f.new.parts \in ToSet(names) THEN names ELSE Append(names, f.new.parts), Append(files, f))
<1> DEFINE n == Len(files)
           k == Len(names)
           more == Append(files, f)
           paths == {files[i].new.parts : i \in DOMAIN files}
<1>1. /\ n \in Nat /\ DOMAIN files = 1..n
      /\ DOMAIN more = 1..(n + 1) /\ more[n + 1] = f
      /\ \A i \in 1..n : more[i] = files[i] /\ i \in 1..(n + 1)
      /\ n + 1 \in 1..(n + 1) /\ \A i \in 1..(n + 1) : i \in 1..n \/ i = n + 1
  OBVIOUS
<1>2. k \in Nat /\ DOMAIN names = 1..k
  OBVIOUS
<1>3. /\ ToSet(names) = paths
      /\ \A a, b \in 1..k : a < b =>
           \E i \in 1..n : files[i].new.parts = names[a] /\ \A j \in 1..i : files[j].new.parts # names[b]
  BY <1>1, <1>2 DEF NamesOf
<1> HIDE DEF n, k, more
<1>4. {more[i].new.parts : i \in DOMAIN more} = paths \cup {f.new.parts}
  BY <1>1
<1>5. \A a, b \in 1..k : a < b =>
        \E i \in DOMAIN more : more[i].new.parts = names[a] /\ \A j \in 1..i : more[j].new.parts # names[b]
  <2> SUFFICES ASSUME NEW a \in 1..k, NEW b \in 1..k, a < b
               PROVE  \E i \in DOMAIN more : more[i].new.parts = names[a] /\ \A j \in 1..i : more[j].new.parts # names[b]
    OBVIOUS
  <2>1. PICK i \in 1..n : files[i].new.parts = names[a] /\ \A j \in 1..i : files[j].new.parts # names[b]
    BY <1>3
  <2>2. \A j \in 1..i : j \in 1..n
    BY <1>1
  <2> QED BY <1>1, <2>1, <2>2
<1>6. CASE f.new.parts \in ToSet(names)
  <2>1. ToSet(names) = {more[i].new.parts : i \in DOMAIN more}
    BY <1>3, <1>4, <1>6
  <2>2. NamesOf(names, more)
    <3>1. \A a, b \in DOMAIN names : a < b =>
            \E i \in DOMAIN more : more[i].new.parts = names[a] /\ \A j \in 1..i : more[j].new.parts # names[b]
      BY <1>2, <1>5
    <3> QED BY ONLY <2>1, <3>1 DEF NamesOf
  <2> QED BY <1>6, <2>2 DEF more
<1>7. CASE f.new.parts \notin ToSet(names)
  <2> DEFINE named == Append(names, f.new.parts)
  <2>1. /\ DOMAIN named = 1..(k + 1) /\ named[k + 1] = f.new.parts
        /\ \A a \in 1..k : named[a] = names[a] /\ names[a] \in ToSet(names)
    BY <1>2 DEF k, ToSet
  <2>2. ToSet(named) = ToSet(names) \cup {f.new.parts}
    <3>1. k \in Nat /\ DOMAIN names = 1..k /\ \A a : a \in 1..(k + 1) <=> a \in 1..k \/ a = k + 1
      BY <1>2
    <3> HIDE DEF named
    <3> QED BY <2>1, <3>1 DEF ToSet
  <2> HIDE DEF named
  <2>3. ASSUME NEW a \in 1..(k + 1), NEW b \in 1..(k + 1), a < b
        PROVE  \E i \in DOMAIN more : more[i].new.parts = named[a] /\ \A j \in 1..i : more[j].new.parts # named[b]
    <3>1. CASE b \in 1..k
      <4>1. a \in 1..k
        BY <1>2, <2>3, <3>1
      <4> QED BY <1>5, <2>1, <2>3, <3>1, <4>1
    <3>2. CASE b = k + 1
      <4>1. a \in 1..k
        BY <1>2, <2>3, <3>2
      <4>2. PICK i \in 1..n : files[i].new.parts = names[a]
        BY <1>1, <1>3, <2>1, <4>1
      <4>3. \A j \in 1..i : j \in 1..n
        BY <1>1
      <4>4. \A j \in 1..i : files[j].new.parts # f.new.parts
        BY <1>1, <1>3, <1>7, <4>3
      <4> QED BY <1>1, <2>1, <3>2, <4>1, <4>2, <4>3, <4>4
    <3> QED BY <1>2, <3>1, <3>2
  <2>4. NamesOf(named, more)
    <3>1. ToSet(named) = {more[i].new.parts : i \in DOMAIN more}
      BY <1>3, <1>4, <2>2
    <3> QED BY <2>1, <2>3, <3>1 DEF NamesOf
  <2> QED BY <1>7, <2>4 DEF named, more
<1> QED BY <1>6, <1>7

AllCutRight(files) ==
  \A i \in DOMAIN files : CutRight(files[i]) /\ LinesWith("new", files[i].lines) = {}

\* The names of an explanation are those of the diff's files.
LEMMA NamesFit ==
  ASSUME NEW files \in Seq(File), AllCutRight(files)
  PROVE  NamesOf(changed_files(TextOf(files)), files)
<1> DEFINE P == {n \in Nat : \A s \in Seq(File) :
                   Len(s) = n /\ AllCutRight(s) => NamesOf(changed_files(TextOf(s)), s)}
<1>1. 0 \in P
  <2> SUFFICES ASSUME NEW s \in Seq(File), Len(s) = 0
               PROVE  NamesOf(changed_files(TextOf(s)), s)
    OBVIOUS
  <2>1. s = <<>>
    OBVIOUS
  <2>2. changed_files(TextOf(s)) = <<>>
    BY <2>1, TextEmpty, ChangedEmpty
  <2>3. NamesOf(<<>>, <<>>)
    BY DEF NamesOf, ToSet
  <2> QED BY <2>1, <2>2, <2>3
<1>2. ASSUME NEW n \in Nat, n \in P PROVE n + 1 \in P
  <2> SUFFICES ASSUME NEW s \in Seq(File), Len(s) = n + 1, AllCutRight(s)
               PROVE  NamesOf(changed_files(TextOf(s)), s)
    OBVIOUS
  <2>1. PICK front \in Seq(File), f \in File : s = Append(front, f) /\ Len(front) = n
    BY ONLY n \in Nat, s \in Seq(File), Len(s) = n + 1, LastOff
  <2>2. AllCutRight(front) /\ CutRight(f) /\ LinesWith("new", f.lines) = {}
    <3>1. /\ DOMAIN s = 1..(n + 1) /\ DOMAIN front = 1..n /\ s[n + 1] = f
          /\ \A i \in 1..n : s[i] = front[i] /\ i \in 1..(n + 1)
          /\ n + 1 \in 1..(n + 1)
      BY <2>1
    <3> QED BY <3>1 DEF AllCutRight
  <2> DEFINE text == TextOf(front)
             names == changed_files(text)
  <2>3. NamesOf(names, front)
    BY <1>2, <2>1, <2>2
  <2>4. text \in Seq(TextLine) /\ TextOf(s) = text \o SectionOf(f)
    BY <2>1, TextAppend
  <2> HIDE DEF text
  <2>5. names \in Seq(Seq(Piece))
    BY <2>4, ChangedNames
  <2>6. changed_files(TextOf(s)) = IF f.new.parts \in ToSet(names) THEN names ELSE Append(names, f.new.parts)
    BY <2>2, <2>4, ChangedSection
  <2> HIDE DEF names
  <2>7. NamesOf(IF f.new.parts \in ToSet(names) THEN names ELSE Append(names, f.new.parts), s)
    BY <2>1, <2>3, <2>5, PathTyped, NamesStep
  <2> QED BY <2>6, <2>7
<1> HIDE DEF P
<1>3. Len(files) \in P
  <2>1. Len(files) \in Nat
    OBVIOUS
  <2> QED BY <1>1, <1>2, <2>1, InductiveSet
<1> QED BY <1>3 DEF P

\* Every file whose path can be read is among the names.
LEMMA FileNamed ==
  ASSUME NEW files \in Seq(File), NEW i \in DOMAIN files, ReadWhole(files[i])
  PROVE  files[i].new.parts \in NamedIn(TextOf(files))
<1> DEFINE Named(s) == \A k \in DOMAIN s : ReadWhole(s[k]) => s[k].new.parts \in NamedIn(TextOf(s))
           P == {n \in Nat : \A s \in Seq(File) : Len(s) = n => Named(s)}
<1>1. 0 \in P
  OBVIOUS
<1>2. ASSUME NEW n \in Nat, n \in P PROVE n + 1 \in P
  <2> SUFFICES ASSUME NEW s \in Seq(File), Len(s) = n + 1 PROVE Named(s)
    OBVIOUS
  <2>1. PICK front \in Seq(File), f \in File : s = Append(front, f) /\ Len(front) = n
    BY ONLY n \in Nat, s \in Seq(File), Len(s) = n + 1, LastOff
  <2>2. Named(front)
    BY <1>2, <2>1
  <2>3. NamedIn(TextOf(s)) = NamedIn(TextOf(front)) \cup NamedIn(SectionOf(f))
    <3>1. /\ TextOf(front) \in Seq(TextLine) /\ TextOf(s) = TextOf(front) \o SectionOf(f)
          /\ SectionOf(f) \in Seq(TextLine)
      BY <2>1, TextAppend, SectionTyped
    <3> QED BY <3>1, NamedConcat
  <2>4. /\ DOMAIN s = 1..(n + 1) /\ DOMAIN front = 1..n /\ s[n + 1] = f
        /\ \A k \in 1..n : s[k] = front[k]
        /\ \A k \in 1..(n + 1) : k \in 1..n \/ k = n + 1
    BY <2>1
  <2> QED BY <2>2, <2>3, <2>4, SectionNames
<1> HIDE DEF P, Named
<1>3. Len(files) \in P
  <2>1. Len(files) \in Nat
    OBVIOUS
  <2> QED BY <1>1, <1>2, <2>1, InductiveSet
<1>4. Named(files)
  BY <1>3 DEF P
<1> QED BY <1>4 DEF Named

\* The counts.  What look has in two texts is what it has in each of them.
LEMMA LinesFinite ==
  ASSUME NEW look, NEW text \in Seq(TextLine)
  PROVE  IsFiniteSet(LinesWith(look, text)) /\ Cardinality(LinesWith(look, text)) \in Nat
<1>1. LinesWith(look, text) \in SUBSET (1..Len(text)) /\ Len(text) \in Nat
  BY DEF LinesWith
<1>2. IsFiniteSet(1..Len(text))
  BY <1>1, FS_Interval
<1> QED BY <1>1, <1>2, FS_Subset, FS_CardinalityType

LEMMA DisjointUnion ==
  ASSUME NEW A, NEW B, IsFiniteSet(A), IsFiniteSet(B), A \cap B = {}
  PROVE  IsFiniteSet(A \cup B) /\ Cardinality(A \cup B) = Cardinality(A) + Cardinality(B)
<1>1. IsFiniteSet(A \cup B) /\ Cardinality(A \cup B) = Cardinality(A) + Cardinality(B) - Cardinality({})
  BY FS_Union
<1>2. Cardinality({}) = 0 /\ Cardinality(A) \in Nat /\ Cardinality(B) \in Nat
  BY FS_EmptySet, FS_CardinalityType
<1> QED BY <1>1, <1>2

LEMMA LinesConcat ==
  ASSUME NEW look, NEW text \in Seq(TextLine), NEW more \in Seq(TextLine)
  PROVE  Cardinality(LinesWith(look, text \o more)) =
           Cardinality(LinesWith(look, text)) + Cardinality(LinesWith(look, more))
<1> DEFINE m == Len(text)
           n == Len(more)
           A == LinesWith(look, text)
           B == LinesWith(look, more)
           shifted == {i \in (m + 1)..(m + n) : i - m \in B}
           f == [i \in B |-> i + m]
<1>1. /\ m \in Nat /\ n \in Nat /\ A \subseteq 1..m /\ B \subseteq 1..n
      /\ DOMAIN (text \o more) = 1..(m + n)
      /\ \A i \in 1..m : (text \o more)[i] = text[i]
      /\ \A i \in (m + 1)..(m + n) : (text \o more)[i] = more[i - m]
  BY DEF LinesWith
<1>2. LinesWith(look, text \o more) = A \cup shifted
  <2>1. /\ \A i : i \in A <=> i \in 1..m /\ text[i].look = look
        /\ \A i : i \in B <=> i \in 1..n /\ more[i].look = look
        /\ \A i : i \in LinesWith(look, text \o more) <=>
                    i \in 1..(m + n) /\ (text \o more)[i].look = look
    BY <1>1 DEF LinesWith
  <2> HIDE DEF A, B, m, n
  <2>2. \A i \in 1..(m + n) : i \in 1..m \/ (i \in (m + 1)..(m + n) /\ i - m \in 1..n)
    BY <1>1
  <2>3. (\A i \in 1..m : i \in 1..(m + n)) /\ (\A i \in (m + 1)..(m + n) : i \in 1..(m + n))
    BY <1>1
  <2>4. ASSUME NEW i PROVE i \in LinesWith(look, text \o more) <=> i \in A \cup shifted
    <3>1. CASE i \in 1..m
      <4>1. i \notin (m + 1)..(m + n) /\ i \in 1..(m + n)
        BY <1>1, <3>1
      <4> QED BY <1>1, <2>1, <3>1, <4>1
    <3>2. CASE i \in (m + 1)..(m + n)
      <4>1. i \notin 1..m /\ i \in 1..(m + n) /\ i - m \in 1..n
        BY <1>1, <3>2
      <4>2. i - m \in B <=> more[i - m].look = look
        BY <2>1, <4>1
      <4>3. (i \in shifted <=> i - m \in B) /\ i \notin A /\ (text \o more)[i] = more[i - m]
        BY <1>1, <2>1, <3>2, <4>1
      <4>4. i \in LinesWith(look, text \o more) <=> (text \o more)[i].look = look
        BY <2>1, <4>1
      <4> HIDE DEF shifted
      <4> QED BY <4>2, <4>3, <4>4
    <3>3. CASE i \notin 1..m /\ i \notin (m + 1)..(m + n)
      BY <2>1, <2>2, <3>3
    <3> QED BY <3>1, <3>2, <3>3
  <2> QED BY <2>4
<1>3. IsFiniteSet(A) /\ IsFiniteSet(B)
  BY LinesFinite
<1> HIDE DEF A, B, m, n
<1>4. f \in Bijection(B, shifted)
  <2>1. \A i \in B : i + m \in (m + 1)..(m + n) /\ (i + m) - m = i /\ i \in Nat
    BY <1>1
  <2>2. f \in [B -> shifted] /\ \A i, j \in B : f[i] = f[j] => i = j
    BY <1>1, <2>1
  <2>3. ASSUME NEW k \in shifted PROVE \E i \in B : f[i] = k
    <3>1. k - m \in B /\ (k - m) + m = k
      BY <1>1
    <3> QED BY <3>1
  <2> HIDE DEF f, shifted
  <2> QED BY <2>2, <2>3 DEF Bijection, Injection, Surjection, IsInjective
<1>5. ExistsBijection(B, shifted)
  BY <1>4 DEF ExistsBijection
<1>6. A \cap shifted = {}
  BY <1>1
<1> HIDE DEF shifted
<1>7. IsFiniteSet(shifted) /\ Cardinality(shifted) = Cardinality(B)
  BY <1>3, <1>5, FS_Bijection
<1>8. Cardinality(A \cup shifted) = Cardinality(A) + Cardinality(shifted)
  BY <1>3, <1>6, <1>7, DisjointUnion
<1> QED BY <1>2, <1>7, <1>8 DEF A, B

\* A header has no line of the looks that are counted.
LEMMA SectionCount ==
  ASSUME NEW f \in File, NEW look \in {"add", "del"}
  PROVE  Cardinality(LinesWith(look, SectionOf(f))) = Cardinality(LinesWith(look, f.lines))
<1>1. LinesWith(look, HeaderOf(f)) = {}
  <2>1. /\ DOMAIN HeaderOf(f) = 1..3
        /\ HeaderOf(f)[1].look = "git" /\ HeaderOf(f)[2].look = "old" /\ HeaderOf(f)[3].look = "new"
    BY DEF HeaderOf
  <2>2. \A i \in 1..3 : i = 1 \/ i = 2 \/ i = 3
    OBVIOUS
  <2> QED BY <2>1, <2>2 DEF LinesWith
<1>2. Cardinality(LinesWith(look, SectionOf(f))) =
        Cardinality(LinesWith(look, HeaderOf(f))) + Cardinality(LinesWith(look, f.lines))
  <2>1. /\ HeaderOf(f) \in Seq(TextLine) /\ f.lines \in Seq(TextLine)
        /\ SectionOf(f) = HeaderOf(f) \o f.lines
    BY SectionTyped
  <2> QED BY <2>1, LinesConcat
<1>3. Cardinality(LinesWith(look, f.lines)) \in Nat /\ Cardinality({}) = 0
  <2>1. f.lines \in Seq(TextLine)
    BY SectionTyped
  <2> QED BY <2>1, LinesFinite, FS_EmptySet
<1> QED BY <1>1, <1>2, <1>3

LEMMA ChangedLinesAppend ==
  ASSUME NEW look, NEW files \in Seq(File), NEW f \in File, IsFiniteSet(ChangedLines(look, files))
  PROVE  /\ IsFiniteSet(ChangedLines(look, Append(files, f)))
         /\ Cardinality(ChangedLines(look, Append(files, f))) =
              Cardinality(ChangedLines(look, files)) + Cardinality(LinesWith(look, f.lines))
<1> DEFINE n == Len(files)
           more == Append(files, f)
           A == ChangedLines(look, files)
           B == LinesWith(look, f.lines)
           its == {n + 1} \X B
<1>1. /\ n \in Nat /\ DOMAIN files = 1..n /\ DOMAIN more = 1..(n + 1) /\ more[n + 1] = f
      /\ \A i \in 1..n : more[i] = files[i] /\ i # n + 1
      /\ \A i : i \in 1..(n + 1) <=> i \in 1..n \/ i = n + 1
  OBVIOUS
<1> HIDE DEF n, more
<1>2. ChangedLines(look, more) = A \cup its
  <2>1. \A p : p \in ChangedLines(look, more) <=>
                 \E i \in 1..(n + 1) : p \in {i} \X LinesWith(look, more[i].lines)
    BY <1>1 DEF ChangedLines
  <2>2. \A p : p \in A <=> \E i \in 1..n : p \in {i} \X LinesWith(look, files[i].lines)
    BY <1>1 DEF ChangedLines
  <2> HIDE DEF A
  <2> QED BY <1>1, <2>1, <2>2
<1>3. IsFiniteSet(B)
  <2>1. f.lines \in Seq(TextLine)
    BY SectionTyped
  <2> QED BY <2>1, LinesFinite
<1>4. A \cap its = {}
  BY <1>1 DEF ChangedLines
<1> HIDE DEF B
<1>5. IsFiniteSet(its) /\ Cardinality(its) = Cardinality(B)
  <2>1. IsFiniteSet({n + 1}) /\ Cardinality({n + 1}) = 1
    BY FS_Singleton
  <2>2. IsFiniteSet(its) /\ Cardinality(its) = 1 * Cardinality(B)
    BY <1>3, <2>1, FS_Product
  <2>3. Cardinality(B) \in Nat
    BY <1>3, FS_CardinalityType
  <2> QED BY <2>2, <2>3
<1> HIDE DEF its, A
<1>6. IsFiniteSet(A)
  BY DEF A
<1>7. IsFiniteSet(A \cup its) /\ Cardinality(A \cup its) = Cardinality(A) + Cardinality(its)
  BY <1>4, <1>5, <1>6, DisjointUnion
<1> QED BY <1>2, <1>5, <1>7 DEF A, B, more

\* The counts of an explanation are those of the diff's changed lines.
LEMMA CountsFit ==
  ASSUME NEW files \in Seq(File), NEW look \in {"add", "del"}
  PROVE  Cardinality(LinesWith(look, TextOf(files))) = Cardinality(ChangedLines(look, files))
<1> DEFINE Fit(s) == /\ IsFiniteSet(ChangedLines(look, s))
                     /\ Cardinality(LinesWith(look, TextOf(s))) = Cardinality(ChangedLines(look, s))
           P == {n \in Nat : \A s \in Seq(File) : Len(s) = n => Fit(s)}
<1>1. 0 \in P
  <2> SUFFICES ASSUME NEW s \in Seq(File), Len(s) = 0 PROVE Fit(s)
    OBVIOUS
  <2>1. s = <<>>
    OBVIOUS
  <2>2. LinesWith(look, TextOf(s)) = {}
    BY <2>1, TextEmpty DEF LinesWith
  <2>3. ChangedLines(look, s) = {}
    BY <2>1 DEF ChangedLines
  <2> QED BY <2>2, <2>3, FS_EmptySet
<1>2. ASSUME NEW n \in Nat, n \in P PROVE n + 1 \in P
  <2> SUFFICES ASSUME NEW s \in Seq(File), Len(s) = n + 1 PROVE Fit(s)
    OBVIOUS
  <2>1. PICK front \in Seq(File), f \in File : s = Append(front, f) /\ Len(front) = n
    BY ONLY n \in Nat, s \in Seq(File), Len(s) = n + 1, LastOff
  <2>2. Fit(front)
    BY <1>2, <2>1
  <2> DEFINE text == TextOf(front)
             section == SectionOf(f)
  <2>3. text \in Seq(TextLine) /\ TextOf(s) = text \o section /\ section \in Seq(TextLine)
    BY <2>1, TextAppend, SectionTyped
  <2>4. Cardinality(LinesWith(look, section)) = Cardinality(LinesWith(look, f.lines))
    BY SectionCount
  <2> HIDE DEF text, section
  <2>5. Cardinality(LinesWith(look, TextOf(s))) =
          Cardinality(LinesWith(look, text)) + Cardinality(LinesWith(look, section))
    BY <2>3, LinesConcat
  <2>6. /\ IsFiniteSet(ChangedLines(look, s))
        /\ Cardinality(ChangedLines(look, s)) =
             Cardinality(ChangedLines(look, front)) + Cardinality(LinesWith(look, f.lines))
    BY <2>1, <2>2, ChangedLinesAppend
  <2> QED BY <2>2, <2>4, <2>5, <2>6 DEF text
<1> HIDE DEF P, Fit
<1>3. Len(files) \in P
  <2>1. Len(files) \in Nat
    OBVIOUS
  <2> QED BY <1>1, <1>2, <2>1, InductiveSet
<1>4. Fit(files)
  BY <1>3 DEF P
<1> QED BY <1>4 DEF Fit

\* The explanation of a diff fits it, whatever its files, their paths and their lines.
LEMMA ExplanationFits ==
  ASSUME NEW d \in AllDiffs
  PROVE  /\ build_explanation(d).counts =
              [look \in {"add", "del"} |-> Cardinality(ChangedLines(look, d.files))]
         /\ Distinct(build_explanation(d).files)
         /\ \A i \in DOMAIN d.files :
              ReadWhole(d.files[i]) => d.files[i].new.parts \in ToSet(build_explanation(d).files)
         /\ AllCutRight(d.files) => NamesOf(build_explanation(d).files, d.files)
<1> DEFINE files == d.files
           built == build_explanation(d)
<1>1. files \in Seq(File)
  <2>1. CASE d \in Diffs
    <3>1. d \in [big : BOOLEAN, files : Seq(File)]
      BY <2>1, DiffsAssumption
    <3> HIDE DEF files
    <3> QED BY <3>1 DEF files
  <2>2. CASE d = NoDiff
    <3>1. d.files = <<>> /\ <<>> \in Seq(File)
      BY <2>2 DEF NoDiff
    <3> QED BY <3>1
  <2> QED BY <2>1, <2>2 DEF AllDiffs
<1>2. /\ built.files = changed_files(TextOf(files))
      /\ built.counts = [look \in {"add", "del"} |-> Cardinality(LinesWith(look, TextOf(files)))]
  BY DEF build_explanation, count_changes
<1> HIDE DEF files, built
<1>3. \A look \in {"add", "del"} :
        Cardinality(LinesWith(look, TextOf(files))) = Cardinality(ChangedLines(look, files))
  BY <1>1, CountsFit
<1>4. built.counts = [look \in {"add", "del"} |-> Cardinality(ChangedLines(look, files))]
  BY <1>2, <1>3
<1>5. AllCutRight(files) => NamesOf(built.files, files)
  BY <1>1, <1>2, NamesFit
<1>6. TextOf(files) \in Seq(TextLine)
  BY <1>1, TextTyped
<1>7. Distinct(built.files) /\ ToSet(built.files) = NamedIn(TextOf(files))
  BY <1>2, <1>6, ChangedNames
<1>8. \A i \in DOMAIN files : ReadWhole(files[i]) => files[i].new.parts \in ToSet(built.files)
  BY <1>1, <1>7, FileNamed
<1> QED BY <1>4, <1>5, <1>7, <1>8 DEF files, built

\* A caller's explanation is that of the diff it asked about, though the adapter, its
\* lock and its child are shared and a push may end in any way.
BuiltFromOwn ==
  \A c \in Callers : job[c].diff \in AllDiffs /\ job[c].built = build_explanation(job[c].diff)

LEMMA OwnKept ==
  ASSUME VibeTypes, BuiltFromOwn, NEW c \in Callers, NEW j, job' = [job EXCEPT ![c] = j],
         j.diff \in AllDiffs, j.built = build_explanation(j.diff)
  PROVE  BuiltFromOwn'
<1>1. \A o \in Callers : job'[o] = IF o = c THEN j ELSE job[o]
  BY DEF VibeTypes
<1> QED BY <1>1 DEF BuiltFromOwn

LEMMA JobIsOwn ==
  ASSUME NEW d \in AllDiffs
  PROVE  Job(d).diff = d /\ Job(d).built = build_explanation(d)
BY DEF Job

LEMMA ReturnOwn ==
  ASSUME VibeTypes, BuiltFromOwn, NEW c \in Callers, NEW told, Return(c, told)
  PROVE  BuiltFromOwn'
<1> DEFINE j == [NoJob EXCEPT !.told = told]
<1>1. job' = [job EXCEPT ![c] = j]
  BY DEF Return
<1>2. j.diff = NoDiff /\ j.built = build_explanation(NoDiff) /\ NoDiff \in AllDiffs
  BY DEF NoJob, Job, AllDiffs
<1> HIDE DEF j
<1> QED BY <1>1, <1>2, OwnKept

LEMMA OwnStep == VibeTypes /\ BuiltFromOwn /\ [VibeNext]_vibeVars => BuiltFromOwn'
<1> SUFFICES ASSUME VibeTypes, BuiltFromOwn, [VibeNext]_vibeVars PROVE BuiltFromOwn'
  OBVIOUS
<1>1. ASSUME NEW c \in Callers, NEW d \in Diffs, explain(c, d) PROVE BuiltFromOwn'
  <2>1. job' = [job EXCEPT ![c] = Job(d)] /\ d \in AllDiffs
    BY <1>1 DEF explain, AllDiffs
  <2>2. Job(d).diff \in AllDiffs /\ Job(d).built = build_explanation(Job(d).diff)
    BY <2>1, JobIsOwn
  <2> QED BY <2>1, <2>2, OwnKept
<1>2. ASSUME NEW c \in Callers, CallShowDiff(c) PROVE BuiltFromOwn'
  <2> DEFINE j == [job[c] EXCEPT !.id = next_id]
  <2>1. job[c] \in Jobs /\ job' = [job EXCEPT ![c] = j]
    BY <1>2 DEF CallShowDiff, VibeTypes
  <2>2. j.diff = job[c].diff /\ j.built = job[c].built
    BY <2>1 DEF Jobs
  <2>3. job[c].diff \in AllDiffs /\ job[c].built = build_explanation(job[c].diff)
    BY DEF BuiltFromOwn
  <2> HIDE DEF j
  <2> QED BY <2>1, <2>2, <2>3, OwnKept
<1>3. ASSUME NEW c \in Callers, Spawn(c) \/ TakeAnswer(c) \/ DropJoin(c) PROVE BuiltFromOwn'
  <2>1. (\E told \in {"ok", "degraded"} : Return(c, told)) \/ job' = job
    BY <1>3, Zenon DEF Spawn, TakeAnswer, DropJoin, parse_write_envelope
  <2>2. job' = job => BuiltFromOwn'
    BY DEF BuiltFromOwn
  <2> QED BY <2>1, <2>2, ReturnOwn
<1>4. CASE \/ UNCHANGED job
           \/ \E c \in Callers : \/ Lock(c) \/ CallInitialize(c) \/ NotifyInitialized(c)
                                 \/ SkipNote(c) \/ GiveUp(c) \/ DropKill(c)
           \/ Deadline \/ ReadLine \/ ReadClosed \/ Server
  <2>1. UNCHANGED job
    BY <1>4, Zenon
    DEF Lock, CallInitialize, NotifyInitialized, SkipNote, GiveUp, DropKill, Deadline,
        ReadLine, ReadClosed, Server, ServerAnswer, ServerTalk, ServerBreaks
  <2> QED BY <2>1 DEF BuiltFromOwn
<1>5. CASE UNCHANGED vibeVars
  BY <1>4, <1>5 DEF vibeVars
<1> QED
  BY <1>1, <1>2, <1>3, <1>4, <1>5 DEF VibeNext, Push

\* Whatever the server does and whoever shares it, and whatever the diff: the explanation
\* counts the changed lines of all files, repeats no name, names every file whose path
\* git prints in a form that the code reads, and no others if all paths are plain and
\* without a " b/" and no changed line looks like a +++ header.
THEOREM ExplanationIsOwn == VibeSpec => []ExplanationFitsDiff
<1>1. VibeInit => BuiltFromOwn
  BY JobIsOwn DEF VibeInit, NoJob, AllDiffs, BuiltFromOwn
<1>2. ControlInv /\ BuiltFromOwn /\ [VibeNext]_vibeVars => BuiltFromOwn'
  BY OwnStep DEF ControlInv
<1>3. BuiltFromOwn => ExplanationFitsDiff
  <2> SUFFICES ASSUME BuiltFromOwn, NEW c \in Callers
               PROVE  LET files == job[c].diff.files
                          names == job[c].built.files
                      IN  /\ job[c].built.counts =
                               [look \in {"add", "del"} |-> Cardinality(ChangedLines(look, files))]
                          /\ Distinct(names)
                          /\ \A i \in DOMAIN files : ReadWhole(files[i]) => files[i].new.parts \in ToSet(names)
                          /\ AllCutRight(files) => NamesOf(names, files)
    BY DEF ExplanationFitsDiff, Distinct, AllCutRight
  <2>1. job[c].diff \in AllDiffs /\ job[c].built = build_explanation(job[c].diff)
    BY DEF BuiltFromOwn
  <2> QED BY <2>1, ExplanationFits
<1> QED
  BY <1>1, <1>2, <1>3, VibeInvariance, PTL DEF VibeSpec
=============================================================================
