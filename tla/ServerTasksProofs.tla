-------------------------- MODULE ServerTasksProofs --------------------------
(***************************************************************************)
(* Proofs about the server's tasks: the invariants of ServerTasks hold for *)
(* every number of requests, tasks and slots, and for every surroundings.  *)
(*                                                                         *)
(* The inductive invariant counts.  A task has five places (the queue, the *)
(* deferred ones, the loop's hand, a slot that has yet to answer it, the   *)
(* results), and each count is the number of elements of a sequence or a   *)
(* set that carry the task.  The first lemmas say how many elements of a   *)
(* sequence are in a set after each of the changes the code makes: an      *)
(* element appended, taken off, taken out, put in front, some left out.    *)
(* A step of the loop is then summed up in one formula, Moves: it adds no  *)
(* place to a task, answers only a task that is pending, and takes a task  *)
(* out of its places only when it answers it or nobody waits for it.  The  *)
(* invariant follows from Moves once, and not once for each of the loop's  *)
(* steps; a request's steps, which touch its own tasks only, are done one  *)
(* by one.                                                                 *)
(***************************************************************************)
EXTENDS ServerTasks, Integers, SequenceTheorems, FiniteSetTheorems, WellFoundedInduction, TLAPS

(* How many elements of q are in X. *)
At(q, X) == {i \in DOMAIN q : q[i] \in X}
Count(q, X) == Cardinality(At(q, X))

-----------------------------------------------------------------------------
(* Numbers and sets.                                                       *)

(* A set of numbers has a least one.  This is what the inductions below     *)
(* use: the library's induction theorems have an operator for a parameter.  *)
LEMMA Least ==
  ASSUME NEW S \in SUBSET Nat, S # {}
  PROVE  \E n \in S : \A m \in S : n <= m
<1>1. PICK n \in S : \A m \in S : <<m, n>> \notin OpToRel(<, Nat)
  BY NatLessThanWellFounded, WFMin
<1>2. \A m \in S : <<m, n>> \notin {ss \in Nat \X Nat : ss[1] < ss[2]}
  BY <1>1, Zenon DEF OpToRel
<1>3. ASSUME NEW m \in S PROVE n <= m
  <2>1. <<m, n>> \in Nat \X Nat /\ <<m, n>>[1] = m /\ <<m, n>>[2] = n
    OBVIOUS
  <2>2. ~(m < n)
    BY <1>2, <2>1
  <2>. QED BY <2>2
<1>. QED BY <1>3

(* Induction, with a set of numbers in the place of a predicate. *)
LEMMA Induction ==
  ASSUME NEW N \in Nat, NEW S, 0 \in S, \A n \in 1..N : n - 1 \in S => n \in S
  PROVE  0..N \subseteq S
<1>. SUFFICES ASSUME ~(0..N \subseteq S) PROVE FALSE
  OBVIOUS
<1>. DEFINE B == {n \in 0..N : n \notin S}
<1>1. B \in SUBSET Nat /\ B # {}
  OBVIOUS
<1>2. PICK n \in B : \A m \in B : n <= m
  BY <1>1, Least
<1>3. n \in 1..N
  BY <1>2
<1>4. n - 1 \in 0..N /\ n - 1 \notin B
  BY <1>2, <1>3
<1>. QED BY <1>3, <1>4

(* The size of an empty set, of a set with one element, of a set with at    *)
(* most one element.                                                        *)
LEMMA SmallSets ==
  ASSUME NEW S, IsFiniteSet(S)
  PROVE  /\ Cardinality(S) \in Nat
         /\ Cardinality(S) = 0 <=> S = {}
         /\ \A x : S = {x} => Cardinality(S) = 1
         /\ Cardinality(S) <= 1 <=> \A x, y \in S : x = y
<1>1. Cardinality(S) \in Nat /\ (Cardinality(S) = 0 <=> S = {})
  BY FS_CardinalityType, FS_EmptySet
<1>2. \A x : Cardinality({x}) = 1 /\ IsFiniteSet({x})
  BY FS_Singleton
<1>3. ASSUME Cardinality(S) <= 1, NEW x \in S, NEW y \in S PROVE x = y
  <2>1. Cardinality(S) = 1
    BY <1>1, <1>3
  <2>2. PICK z : S = {z}
    BY <2>1, FS_Singleton
  <2>. QED BY <2>2
<1>4. ASSUME \A x, y \in S : x = y PROVE Cardinality(S) <= 1
  <2>1. CASE S = {}
    BY <2>1, <1>1
  <2>2. CASE S # {}
    <3>1. PICK x \in S : TRUE
      BY <2>2
    <3>2. S = {x}
      BY <3>1, <1>4
    <3>. QED BY <3>2, <1>2
  <2>. QED BY <2>1, <2>2
<1>. QED BY <1>1, <1>2, <1>3, <1>4

-----------------------------------------------------------------------------
(* Counting the elements of sequences.                                     *)

(* The elements of q in X: finitely many, none, at most one. *)
LEMMA CountFacts ==
  ASSUME NEW S, NEW q \in Seq(S), NEW X
  PROVE  /\ IsFiniteSet(At(q, X)) /\ At(q, X) \subseteq 1..Len(q)
         /\ Count(q, X) \in Nat
         /\ Count(q, X) = 0 <=> \A i \in DOMAIN q : q[i] \notin X
         /\ Count(q, X) <= 1 <=> \A i, j \in DOMAIN q : q[i] \in X /\ q[j] \in X => i = j
<1>1. DOMAIN q = 1..Len(q) /\ Len(q) \in Nat
  OBVIOUS
<1>2. IsFiniteSet(1..Len(q))
  BY <1>1, FS_Interval
<1>3. IsFiniteSet(At(q, X)) /\ At(q, X) \subseteq 1..Len(q)
  BY <1>1, <1>2, FS_Subset DEF At
<1>4. Count(q, X) \in Nat /\ (Count(q, X) = 0 <=> At(q, X) = {})
      /\ (Count(q, X) <= 1 <=> \A i, j \in At(q, X) : i = j)
  BY <1>3, SmallSets DEF Count
<1>. QED BY <1>3, <1>4 DEF At

(* An element appended. *)
LEMMA CountAppend ==
  ASSUME NEW S, NEW q \in Seq(S), NEW x \in S, NEW X
  PROVE  Count(Append(q, x), X) = Count(q, X) + (IF x \in X THEN 1 ELSE 0)
<1>. DEFINE n == Len(q) + 1
<1>1. /\ Append(q, x) \in Seq(S) /\ DOMAIN Append(q, x) = 1..n
      /\ \A i \in 1..Len(q) : Append(q, x)[i] = q[i]
      /\ Append(q, x)[n] = x
  OBVIOUS
<1>2. Len(q) \in Nat /\ DOMAIN q = 1..Len(q) /\ n \notin 1..Len(q) /\ 1..n = 1..Len(q) \cup {n}
  OBVIOUS
<1>3. At(Append(q, x), X) = IF x \in X THEN At(q, X) \cup {n} ELSE At(q, X)
  BY <1>1, <1>2 DEF At
<1>4. IsFiniteSet(At(q, X)) /\ n \notin At(q, X) /\ Count(q, X) \in Nat
  BY <1>2, CountFacts
<1>5. Cardinality(At(q, X) \cup {n}) = Count(q, X) + 1
  BY <1>4, FS_AddElement DEF Count
<1>. QED BY <1>3, <1>4, <1>5 DEF Count

(* The sequence of no element, and of one. *)
LEMMA CountSmall ==
  ASSUME NEW X
  PROVE  /\ Count(<<>>, X) = 0
         /\ \A x : Count(<<x>>, X) = IF x \in X THEN 1 ELSE 0
<1>1. Count(<<>>, X) = 0
  <2>1. At(<<>>, X) = {}
    BY DEF At
  <2>. QED BY <2>1, FS_EmptySet DEF Count
<1>2. ASSUME NEW x PROVE Count(<<x>>, X) = IF x \in X THEN 1 ELSE 0
  <2>1. At(<<x>>, X) = IF x \in X THEN {1} ELSE {}
    BY DEF At
  <2>. QED BY <2>1, FS_EmptySet, FS_Singleton DEF Count
<1>. QED BY <1>1, <1>2

(* Two sequences put together. *)
LEMMA CountConcat ==
  ASSUME NEW S, NEW q \in Seq(S), NEW u \in Seq(S), NEW X
  PROVE  Count(q \o u, X) = Count(q, X) + Count(u, X)
<1>. DEFINE m == Len(q)
            A == At(q, X)
            B == {i \in m + 1 .. m + Len(u) : u[i - m] \in X}
            f == [i \in At(u, X) |-> i + m]
<1>1. /\ m \in Nat /\ Len(u) \in Nat /\ DOMAIN q = 1..m /\ DOMAIN u = 1..Len(u)
      /\ DOMAIN (q \o u) = 1 .. m + Len(u)
      /\ \A i \in 1 .. m + Len(u) : (q \o u)[i] = IF i <= m THEN q[i] ELSE u[i - m]
  OBVIOUS
<1>2. At(q \o u, X) = A \cup B
  BY <1>1 DEF At
<1>3. A \cap B = {}
  BY <1>1 DEF At
<1>4. f \in Bijection(At(u, X), B)
  <2>1. f \in [At(u, X) -> B] /\ \A i, j \in At(u, X) : f[i] = f[j] => i = j
    BY <1>1 DEF At
  <2>2. \A b \in B : \E i \in At(u, X) : f[i] = b
    <3>1. ASSUME NEW b \in B PROVE \E i \in At(u, X) : f[i] = b
      <4>1. b - m \in At(u, X) /\ f[b - m] = b
        BY <1>1 DEF At
      <4>. QED BY <4>1
    <3>. QED BY <3>1
  <2>. QED BY <2>1, <2>2 DEF Bijection, Injection, Surjection, IsInjective
<1>5. IsFiniteSet(A) /\ IsFiniteSet(At(u, X))
  BY CountFacts
<1>6. IsFiniteSet(B) /\ Cardinality(B) = Count(u, X)
  BY <1>4, <1>5, FS_Bijection DEF ExistsBijection, Count
<1>7. Cardinality(A \cup B) = Cardinality(A) + Cardinality(B) - Cardinality(A \cap B)
  BY <1>5, <1>6, FS_Union
<1>8. Cardinality(A \cap B) = 0
  BY <1>3, FS_EmptySet
<1>9. Count(q, X) \in Nat /\ Count(u, X) \in Nat
  BY CountFacts
<1>. QED BY <1>2, <1>6, <1>7, <1>8, <1>9 DEF Count

(* The first element taken off. *)
LEMMA CountTail ==
  ASSUME NEW S, NEW q \in Seq(S), q # <<>>, NEW X
  PROVE  /\ Head(q) \in S /\ Tail(q) \in Seq(S)
         /\ Count(q, X) = (IF Head(q) \in X THEN 1 ELSE 0) + Count(Tail(q), X)
<1>1. /\ Head(q) \in S /\ Tail(q) \in Seq(S) /\ <<Head(q)>> \in Seq(S)
      /\ q = <<Head(q)>> \o Tail(q)
  <2>1. Head(q) \in S /\ Tail(q) \in Seq(S) /\ Len(q) \in Nat \ {0} /\ Head(q) = q[1]
        /\ Len(Tail(q)) = Len(q) - 1 /\ \A i \in 1..Len(Tail(q)) : Tail(q)[i] = q[i + 1]
    BY EmptySeq, HeadTailProperties
  <2>2. <<Head(q)>> \in Seq(S) /\ <<Head(q)>> \o Tail(q) \in Seq(S)
        /\ Len(<<Head(q)>> \o Tail(q)) = Len(q)
        /\ \A i \in 1..Len(q) : (<<Head(q)>> \o Tail(q))[i] = q[i]
    BY <2>1
  <2>. QED BY <2>1, <2>2, SeqEqual
<1>2. Count(<<Head(q)>>, X) = IF Head(q) \in X THEN 1 ELSE 0
  BY CountSmall
<1>3. Count(<<Head(q)>> \o Tail(q), X) = Count(<<Head(q)>>, X) + Count(Tail(q), X)
  BY <1>1, CountConcat
<1>. QED BY <1>1, <1>2, <1>3

(* An element taken out of the middle; the others stay in their order. *)
LEMMA CountRemoveAt ==
  ASSUME NEW S, NEW q \in Seq(S), NEW i \in 1..Len(q), NEW X
  PROVE  /\ RemoveAt(q, i) \in Seq(S) /\ Len(RemoveAt(q, i)) = Len(q) - 1
         /\ \A j \in 1 .. Len(q) - 1 : RemoveAt(q, i)[j] = IF j < i THEN q[j] ELSE q[j + 1]
         /\ Count(q, X) = (IF q[i] \in X THEN 1 ELSE 0) + Count(RemoveAt(q, i), X)
<1>. DEFINE a == SubSeq(q, 1, i - 1)
            b == SubSeq(q, i + 1, Len(q))
            ab == a \o b
            e == <<q[i]>>
            ae == a \o e
<1>0. Len(q) \in Nat /\ \A j \in 1..Len(q) : q[j] \in S
  OBVIOUS
<1>1. /\ a \in Seq(S) /\ Len(a) = i - 1 /\ \A j \in 1 .. i - 1 : a[j] = q[j]
  BY <1>0, SubSeqProperties
<1>2. /\ b \in Seq(S) /\ Len(b) = Len(q) - i /\ \A j \in 1 .. Len(q) - i : b[j] = q[i + j]
  BY <1>0, SubSeqProperties
<1>3. e \in Seq(S) /\ Len(e) = 1 /\ e[1] = q[i]
  BY <1>0
<1>. HIDE DEF a, b, e
<1>4. ae \in Seq(S) /\ Len(ae) = i /\ \A j \in 1..i : ae[j] = q[j]
  <2>1. /\ ae \in Seq(S) /\ Len(ae) = Len(a) + Len(e)
        /\ \A j \in 1 .. Len(a) + Len(e) : ae[j] = IF j <= Len(a) THEN a[j] ELSE e[j - Len(a)]
    BY <1>1, <1>3, ConcatProperties, Zenon
  <2>2. \A j \in 1..i : j <= i - 1 \/ (j = i /\ j - (i - 1) = 1)
    BY <1>0
  <2>. QED BY <1>0, <1>1, <1>3, <2>1, <2>2
<1>5. ab \in Seq(S) /\ Len(ab) = Len(q) - 1
      /\ \A j \in 1 .. Len(q) - 1 : ab[j] = IF j < i THEN q[j] ELSE q[j + 1]
  <2>1. ab \in Seq(S) /\ Len(ab) = Len(q) - 1
    BY <1>0, <1>1, <1>2, ConcatProperties
  <2>2. ASSUME NEW j \in 1 .. Len(q) - 1 PROVE ab[j] = IF j < i THEN q[j] ELSE q[j + 1]
    <3>1. CASE j < i
      BY <1>0, <1>1, <1>2, <3>1
    <3>2. CASE ~(j < i)
      <4>1. ab[j] = b[j - (i - 1)]
        BY <1>0, <1>1, <1>2, <3>2
      <4>2. j - (i - 1) \in 1 .. Len(q) - i /\ i + (j - (i - 1)) = j + 1
        BY <1>0, <3>2
      <4>. QED BY <4>1, <4>2, <1>2, <3>2
    <3>. QED BY <3>1, <3>2
  <2>. QED BY <2>1, <2>2
<1>. HIDE DEF ae
<1>6. ae \o b = q
  <2>1. ae \o b \in Seq(S) /\ Len(ae \o b) = Len(q)
    <3>1. ae \o b \in Seq(S) /\ Len(ae \o b) = Len(ae) + Len(b)
      BY <1>2, <1>4, ConcatProperties, Zenon
    <3>. QED BY <1>0, <1>2, <1>4, <3>1
  <2>2. ASSUME NEW j \in 1..Len(q) PROVE (ae \o b)[j] = q[j]
    <3>1. CASE j <= i
      BY <1>2, <1>4, <3>1
    <3>2. CASE ~(j <= i)
      <4>1. (ae \o b)[j] = b[j - i]
        BY <1>2, <1>4, <3>2
      <4>2. j - i \in 1 .. Len(q) - i /\ i + (j - i) = j
        BY <1>0, <3>2
      <4>. QED BY <4>1, <4>2, <1>2
    <3>. QED BY <3>1, <3>2
  <2>. QED BY <2>1, <2>2, SeqEqual
<1>7. /\ Count(q, X) = Count(ae, X) + Count(b, X)
      /\ Count(ae, X) = Count(a, X) + Count(e, X)
      /\ Count(ab, X) = Count(a, X) + Count(b, X)
  <2>1. Count(ae \o b, X) = Count(ae, X) + Count(b, X)
    BY <1>2, <1>4, CountConcat
  <2>2. Count(ae, X) = Count(a, X) + Count(e, X)
    BY <1>1, <1>3, CountConcat DEF ae
  <2>. QED BY <1>1, <1>2, <1>6, <2>1, <2>2, CountConcat
<1>8. Count(e, X) = IF q[i] \in X THEN 1 ELSE 0
  BY CountSmall DEF e
<1>9. Count(a, X) \in Nat /\ Count(b, X) \in Nat
  BY <1>1, <1>2, CountFacts
<1>10. RemoveAt(q, i) = ab
  BY DEF RemoveAt, a, b
<1>. QED BY <1>5, <1>7, <1>8, <1>9, <1>10

-----------------------------------------------------------------------------
(* Sequences with elements left out (Less), sets turned into sequences     *)
(* (SetToSeq).                                                             *)

(* The recursive function in the definition of Less exists. *)
Step(q, X, prev, n) == IF q[n] \in X THEN prev ELSE Append(prev, q[n])
IsLess(f, q, X, N) ==
  f = [n \in 0..N |-> IF n = 0 THEN <<>> ELSE Step(q, X, f[n - 1], n)]

(* It is the one Less takes the last value of. *)
LEMMA LessDefined ==
  ASSUME NEW S, NEW q \in Seq(S), NEW X
  PROVE  \E f : IsLess(f, q, X, Len(q)) /\ Less(q, X) = f[Len(q)]
<1>. DEFINE T == {m \in Nat : \E f : IsLess(f, q, X, m)}
<1>1. 0 \in T
  <2>. DEFINE f == [n \in 0..0 |-> <<>>]
  <2>1. f = [n \in 0..0 |-> IF n = 0 THEN <<>> ELSE Step(q, X, f[n - 1], n)]
    OBVIOUS
  <2>. QED BY <2>1 DEF IsLess
<1>2. ASSUME NEW m \in 1..Len(q), m - 1 \in T PROVE m \in T
  <2>1. PICK f : f = [n \in 0 .. m - 1 |-> IF n = 0 THEN <<>> ELSE Step(q, X, f[n - 1], n)]
    BY <1>2 DEF IsLess
  <2>. DEFINE g == [n \in 0..m |-> IF n = m THEN Step(q, X, f[m - 1], m) ELSE f[n]]
              h == [n \in 0..m |-> IF n = 0 THEN <<>> ELSE Step(q, X, g[n - 1], n)]
  <2>2. ASSUME NEW n \in 0..m PROVE g[n] = h[n]
    <3>1. CASE n = m
      <4>1. g[n - 1] = f[m - 1] /\ n # 0
        BY <3>1
      <4>. QED BY <3>1, <4>1
    <3>2. CASE n = 0
      <4>1. 0 \in 0 .. m - 1 /\ n # m
        BY <3>2
      <4>2. f[0] = <<>>
        BY <2>1, <4>1
      <4>. QED BY <3>2, <4>1, <4>2
    <3>3. CASE n # 0 /\ n # m
      <4>1. n \in 0 .. m - 1 /\ n - 1 \in 0..m /\ n - 1 # m
        BY <3>3
      <4>2. g[n] = f[n] /\ g[n - 1] = f[n - 1]
        BY <3>3, <4>1
      <4>3. f[n] = Step(q, X, f[n - 1], n)
        BY <2>1, <3>3, <4>1
      <4>. QED BY <3>3, <4>2, <4>3
    <3>. QED BY <3>1, <3>2, <3>3
  <2>3. g = h
    BY <2>2
  <2>4. IsLess(g, q, X, m)
    BY <2>3 DEF IsLess
  <2>. QED BY <2>4
<1>3. Len(q) \in Nat
  OBVIOUS
<1>4. Len(q) \in T
  <2>. HIDE DEF T
  <2>1. 0..Len(q) \subseteq T
    BY <1>1, <1>2, <1>3, Induction
  <2>. QED BY <1>3, <2>1
<1>5. PICK f : IsLess(f, q, X, Len(q))
  BY <1>4
<1>. DEFINE c == CHOOSE h : IsLess(h, q, X, Len(q))
<1>6. IsLess(c, q, X, Len(q))
  BY <1>5
<1>7. Less(q, X) = c[Len(q)]
  BY DEF Less, IsLess, Step
<1>. QED BY <1>6, <1>7

(* What is left are the elements not in X, as often as before. *)
LEMMA LessCount ==
  ASSUME NEW S, NEW q \in Seq(S), NEW X, NEW Y
  PROVE  Less(q, X) \in Seq(S) /\ Count(Less(q, X), Y) = Count(q, Y \ X)
<1>. DEFINE N == Len(q)
            D(n) == {i \in 1..n : q[i] \in Y \ X}
<1>1. PICK f : IsLess(f, q, X, N) /\ Less(q, X) = f[N]
  BY LessDefined
<1>2. N \in Nat /\ DOMAIN q = 1..N /\ \A n \in 1..N : q[n] \in S
  OBVIOUS
<1>. DEFINE T == {n \in 0..N : f[n] \in Seq(S) /\ Count(f[n], Y) = Cardinality(D(n))}
<1>3. 0 \in T
  <2>1. f[0] = <<>>
    BY <1>1, <1>2 DEF IsLess
  <2>2. D(0) = {}
    OBVIOUS
  <2>3. Count(<<>>, Y) = 0 /\ Cardinality({}) = 0
    BY CountSmall, FS_EmptySet
  <2>4. <<>> \in Seq(S)
    OBVIOUS
  <2>. HIDE DEF D
  <2>5. f[0] \in Seq(S) /\ Count(f[0], Y) = Cardinality(D(0))
    BY <2>1, <2>2, <2>3, <2>4
  <2>. QED BY <1>2, <2>5
<1>4. ASSUME NEW n \in 1..N, n - 1 \in T PROVE n \in T
  <2>1. f[n] = Step(q, X, f[n - 1], n)
    BY <1>1, <1>2 DEF IsLess
  <2>2. f[n - 1] \in Seq(S) /\ Count(f[n - 1], Y) = Cardinality(D(n - 1)) /\ q[n] \in S
    BY <1>2, <1>4
  <2>3. D(n) = IF q[n] \in Y \ X THEN D(n - 1) \cup {n} ELSE D(n - 1)
    <3>1. 1..n = (1 .. n - 1) \cup {n}
      OBVIOUS
    <3>. QED BY <3>1
  <2>4. IsFiniteSet(D(n - 1)) /\ n \notin D(n - 1)
    <3>1. IsFiniteSet(1 .. n - 1)
      BY FS_Interval
    <3>. QED BY <3>1, FS_Subset
  <2>5. Cardinality(D(n - 1) \cup {n}) = Cardinality(D(n - 1)) + 1 /\ Cardinality(D(n - 1)) \in Nat
    BY <2>4, FS_AddElement, FS_CardinalityType
  <2>. HIDE DEF D
  <2>6. CASE q[n] \in X
    BY <2>1, <2>2, <2>3, <2>6 DEF Step
  <2>7. CASE q[n] \notin X
    <3>1. f[n] = Append(f[n - 1], q[n])
      BY <2>1, <2>7 DEF Step
    <3>2. Count(f[n], Y) = Count(f[n - 1], Y) + (IF q[n] \in Y THEN 1 ELSE 0)
      BY <2>2, <3>1, CountAppend
    <3>3. f[n] \in Seq(S)
      BY <2>2, <3>1
    <3>4. Count(f[n], Y) = Cardinality(D(n))
      BY <2>2, <2>3, <2>5, <2>7, <3>2
    <3>. QED BY <1>2, <3>3, <3>4
  <2>. QED BY <2>6, <2>7
<1>5. N \in T
  <2>. HIDE DEF T
  <2>1. 0..N \subseteq T
    BY <1>2, <1>3, <1>4, Induction
  <2>. QED BY <1>2, <2>1
<1>6. D(N) = At(q, Y \ X)
  BY <1>2 DEF At
<1>. QED BY <1>1, <1>5, <1>6 DEF Count

(* What is left comes in the order it had. *)
InOrder(u, q) ==
  \E e \in [1..Len(u) -> 1..Len(q)] :
    /\ \A i \in 1..Len(u) : u[i] = q[e[i]]
    /\ \A i, j \in 1..Len(u) : i < j => e[i] < e[j]

(* Leaving elements out does not reorder the others. *)
LEMMA LessInOrder ==
  ASSUME NEW S, NEW q \in Seq(S), NEW X
  PROVE  InOrder(Less(q, X), q)
<1>. DEFINE N == Len(q)
            Good(u, n, e) == /\ e \in [1..Len(u) -> 1..n]
                             /\ \A i \in 1..Len(u) : u[i] = q[e[i]]
                             /\ \A i, j \in 1..Len(u) : i < j => e[i] < e[j]
<1>1. PICK f : IsLess(f, q, X, N) /\ Less(q, X) = f[N]
  BY LessDefined
<1>2. N \in Nat /\ DOMAIN q = 1..N /\ \A n \in 1..N : q[n] \in S
  OBVIOUS
<1>. DEFINE T == {n \in 0..N : f[n] \in Seq(S) /\ \E e : Good(f[n], n, e)}
<1>3. 0 \in T
  <2>1. f[0] = <<>>
    BY <1>1, <1>2 DEF IsLess
  <2>. DEFINE e == [i \in 1..0 |-> 0]
  <2>2. Good(<<>>, 0, e) /\ <<>> \in Seq(S)
    OBVIOUS
  <2>3. Good(f[0], 0, e) /\ f[0] \in Seq(S)
    BY <2>1, <2>2
  <2>. HIDE DEF e, Good
  <2>. QED BY <1>2, <2>3
<1>4. ASSUME NEW n \in 1..N, n - 1 \in T PROVE n \in T
  <2>1. f[n] = Step(q, X, f[n - 1], n)
    BY <1>1, <1>2 DEF IsLess
  <2>2. f[n - 1] \in Seq(S) /\ q[n] \in S /\ \E e : Good(f[n - 1], n - 1, e)
    BY <1>2, <1>4
  <2>3. PICK e : Good(f[n - 1], n - 1, e)
    BY <2>2
  <2>4. CASE q[n] \in X
    <3>1. f[n] = f[n - 1]
      BY <2>1, <2>4 DEF Step
    <3>2. Good(f[n], n, e) /\ f[n] \in Seq(S)
      BY <2>2, <2>3, <3>1
    <3>. HIDE DEF Good
    <3>. QED BY <1>2, <3>2
  <2>5. CASE q[n] \notin X
    <3>. DEFINE u == f[n - 1]
                v == f[n]
                d == [i \in 1 .. Len(u) + 1 |-> IF i <= Len(u) THEN e[i] ELSE n]
    <3>1. v = Append(u, q[n])
      BY <2>1, <2>5 DEF Step
    <3>. HIDE DEF u, v
    <3>2. u \in Seq(S) /\ Good(u, n - 1, e) /\ Len(u) \in Nat
      BY <2>2, <2>3 DEF u
    <3>3. /\ v \in Seq(S) /\ Len(v) = Len(u) + 1
          /\ \A i \in 1..Len(u) : v[i] = u[i]
          /\ v[Len(u) + 1] = q[n]
      BY <2>2, <3>1, <3>2
    <3>4. d \in [1..Len(v) -> 1..n]
      BY <3>2, <3>3
    <3>5. \A i \in 1..Len(v) : v[i] = q[d[i]]
      BY <3>2, <3>3
    <3>6. ASSUME NEW i \in 1..Len(v), NEW j \in 1..Len(v), i < j PROVE d[i] < d[j]
      <4>1. /\ i \in 1..Len(u) /\ d[i] = e[i] /\ e[i] \in 1..n - 1
            /\ j \in Nat /\ j <= Len(u) + 1
        BY <1>2, <3>2, <3>3, <3>6
      <4>2. CASE j <= Len(u)
        BY <3>2, <3>6, <4>1, <4>2
      <4>3. CASE j = Len(u) + 1
        BY <3>2, <3>3, <4>1, <4>3
      <4>. QED BY <3>2, <4>1, <4>2, <4>3
    <3>7. Good(v, n, d)
      BY <3>4, <3>5, <3>6
    <3>. HIDE DEF d, Good
    <3>. QED BY <1>2, <3>3, <3>7 DEF v
  <2>. QED BY <2>4, <2>5
<1>5. N \in T
  <2>. HIDE DEF T
  <2>1. 0..N \subseteq T
    BY <1>2, <1>3, <1>4, Induction
  <2>. QED BY <1>2, <2>1
<1>. QED BY <1>1, <1>5 DEF InOrder

(* A finite set as a sequence: every element once. *)
LEMMA SetAsSeq ==
  ASSUME NEW S, IsFiniteSet(S)
  PROVE  /\ Cardinality(S) \in Nat
         /\ SetToSeq(S) \in [1..Cardinality(S) -> S]
         /\ \A x \in S : \E i \in 1..Cardinality(S) : SetToSeq(S)[i] = x
         /\ \A i, j \in 1..Cardinality(S) : SetToSeq(S)[i] = SetToSeq(S)[j] => i = j
<1>. DEFINE n == Cardinality(S)
<1>1. n \in Nat /\ ExistsBijection(1..n, S)
  BY FS_CardinalityType
<1>2. \E f \in [1..n -> S] : IsInjective(f)
  BY <1>1 DEF ExistsBijection, Bijection, Injection
<1>3. SetToSeq(S) \in [1..n -> S] /\ IsInjective(SetToSeq(S))
  BY <1>2 DEF SetToSeq
<1>4. \A i, j \in 1..n : SetToSeq(S)[i] = SetToSeq(S)[j] => i = j
  BY <1>3 DEF IsInjective
<1>5. SetToSeq(S) \in Injection(1..n, S)
  BY <1>3 DEF Injection, IsInjective
<1>6. SetToSeq(S) \in Surjection(1..n, S)
  <2>1. IsFiniteSet(1..n) /\ Cardinality(1..n) = n
    BY <1>1, FS_Interval
  <2>. QED BY <1>5, <2>1, FS_Injection
<1>. QED BY <1>1, <1>3, <1>4, <1>6 DEF Surjection

-----------------------------------------------------------------------------
(* The inductive invariant.                                                *)

(* The tasks that carry t, and the entries of the queue that do. *)
Bearers(t) == {u \in Tasks : t \in {u} \cup env.kids[u]}
Carriers(t) == {Run(u) : u \in Bearers(t)}
Final(t) == [id |-> t, kind |-> "final"]
Failure(t) == [id |-> t, kind |-> "error"]
Has(q, x) == \E i \in DOMAIN q : q[i] = x

(* The five places of a task, counted. *)
InQueue(t) == Count(queue, Carriers(t))
InDeferred(t) == Count(deferred, Bearers(t))
InHand(t) == IF t \in Carried(hand) THEN 1 ELSE 0
Held(t) == {s \in Slots : task[s] = t /\ ~(pc = "release" /\ s = Now)}
InSlots(t) == Cardinality(Held(t))
InResults(t) == Count(results, {Final(t)})

Unslotted(t) == InQueue(t) + InDeferred(t) + InHand(t)
Pending(t) == Unslotted(t) + InSlots(t)

(* Where the request of a task is. *)
Where(t) == reader[ReaderOf[t]]
Early == {"start", "parked", "begun", "added"}
Stages == Early \cup {"recv", "stop", "cancel", "gone"}

(* A task is pending or has its final result among the results, once; it    *)
(* is nowhere before it is posted and after its final result was received.  *)
PlaceOf(t) ==
  /\ Pending(t) + InResults(t) <= 1
  /\ Where(t) \in Early => t \notin got /\ Pending(t) = 0 /\ \A s \in Slots : task[s] # t
  /\ (Where(t) = "recv" /\ ~HasError(ReaderOf[t]) /\ t \notin got) => Pending(t) + InResults(t) = 1
  /\ t \in got => Pending(t) = 0
PlaceInv == \A t \in Tasks : PlaceOf(t)

(* Results are there only for requests that are being answered; the last    *)
(* result of a task comes after its others, and then the task is nowhere.   *)
ResultInv ==
  /\ waiting = {t \in Tasks : Where(t) \in {"added", "recv", "stop"}}
  /\ \A i \in DOMAIN results :
       Where(results[i].id) \in {"recv", "stop", "cancel"} /\ results[i].id \notin got
  /\ \A i, j \in DOMAIN results :
       i < j /\ results[i].id = results[j].id => results[i].kind = "partial"
  /\ \A i \in DOMAIN results, t \in Tasks : results[i] = Failure(t) => Pending(t) = 0

(* The loop: slots at work have a task on the queue that keeps the loop     *)
(* from going to sleep.                                                     *)
LoopInv ==
  /\ pc # "hand" => hand = Nothing
  /\ pc \in {"step", "release"} => Has(queue, NextResponse) /\ \A s \in todo : task[s] # None
  /\ pc = "release" => todo # {}
  /\ pc = "idle" /\ Idle # Slots => Has(queue, NextResponse)
  /\ pc = "asleep" => Idle = Slots

(* Only tasks of requests that are gone are cancelled, and such a task is   *)
(* in none of the queues unless it was missed.                              *)
CancelInv ==
  /\ \A t \in Tasks : Has(queue, CancelOf(t)) \/ hand = CancelOf(t) => Where(t) = "gone"
  /\ \A t \in Tasks : Where(t) = "gone" /\ t \notin missed => Unslotted(t) = 0
  /\ WorksForSomeone

IInv == TypeOK /\ PlaceInv /\ ResultInv /\ LoopInv /\ CancelInv

-----------------------------------------------------------------------------
(* The operators of the model.                                             *)

USE TasksAssumption, SlotsAssumption, EnvsAssumption, NoneAssumption

(* The surroundings: a task's child is a task of the same request, and no    *)
(* task has two parents.                                                    *)
LEMMA EnvFacts ==
  ASSUME TypeOK
  PROVE  /\ env.want \in [Tasks -> 0..NSlots] /\ env.kids \in [Tasks -> SUBSET Tasks]
         /\ env.fails \subseteq Tasks /\ env.steps \in Nat
         /\ \A t \in Tasks : /\ IsFiniteSet(env.kids[t]) /\ Cardinality(env.kids[t]) \in {0, 1}
                             /\ t \notin env.kids[t]
         /\ \A t \in Tasks, k \in Tasks : k \in env.kids[t] => ReaderOf[k] = ReaderOf[t]
         /\ \A t, u \in Tasks : t # u => env.kids[t] \cap env.kids[u] = {}
<1>1. EnvOk(env)
  BY DEF TypeOK
<1>2. ASSUME NEW t \in Tasks PROVE IsFiniteSet(env.kids[t])
  <2>1. env.kids[t] \subseteq TasksOf(ReaderOf[t])
    BY <1>1 DEF EnvOk, TasksOf
  <2>2. IsFiniteSet(TasksOf(ReaderOf[t]))
    OBVIOUS
  <2>. QED BY <2>1, <2>2, FS_Subset
<1>. QED BY <1>1, <1>2 DEF EnvOk

(* The entries of the queue are what they seem. *)
LEMMA EntryFacts ==
  /\ \A t : Run(t).type = "run" /\ Run(t).id = t /\ CancelOf(t).type = "cancel" /\ CancelOf(t).id = t
  /\ NextResponse.type = "next" /\ Nothing.type = "none"
  /\ \A t, u : (Run(t) = Run(u) <=> t = u) /\ (CancelOf(t) = CancelOf(u) <=> t = u)
  /\ \A t, u : Run(t) # CancelOf(u)
  /\ \A t : Run(t) # NextResponse /\ CancelOf(t) # NextResponse
  /\ \A t : Nothing # Run(t) /\ Nothing # CancelOf(t)
  /\ Nothing # NextResponse
BY DEF Run, CancelOf, NextResponse, Nothing

(* An entry carries a task when it is one of the task's carriers. *)
LEMMA CarrierFacts ==
  ASSUME TypeOK, NEW t \in Tasks, NEW x \in Entries \cup {Nothing}
  PROVE  /\ t \in Carried(x) <=> x \in Carriers(t)
         /\ Carried(x) \subseteq Tasks
         /\ x \in Carriers(t) => \E u \in Tasks : x = Run(u) /\ ReaderOf[u] = ReaderOf[t]
<1>1. CASE x.type = "run"
  <2>1. PICK u \in Tasks : x = Run(u)
    BY <1>1, EntryFacts DEF Entries
  <2>2. Carried(x) = {u} \cup env.kids[u]
    BY <2>1, EntryFacts DEF Carried
  <2>3. x \in Carriers(t) <=> u \in Bearers(t)
    BY <2>1, EntryFacts DEF Carriers
  <2>. QED BY <2>1, <2>2, <2>3, EnvFacts DEF Bearers
<1>2. CASE x.type # "run"
  <2>1. x \notin Carriers(t)
    BY <1>2, EntryFacts DEF Carriers
  <2>. QED BY <1>2, <2>1 DEF Carried
<1>. QED BY <1>1, <1>2

(* Has and Count. *)
LEMMA HasCount ==
  ASSUME NEW S, NEW q \in Seq(S), NEW x
  PROVE  Count(q, {x}) \in Nat /\ (Has(q, x) <=> Count(q, {x}) > 0)
<1>1. Count(q, {x}) \in Nat /\ (Count(q, {x}) = 0 <=> \A i \in DOMAIN q : q[i] \notin {x})
  BY CountFacts
<1>. QED BY <1>1 DEF Has

(* What is in a sequence is its first element or in the rest; what is in an *)
(* extended sequence is the new element or was there.                       *)
LEMMA HasTail ==
  ASSUME NEW S, NEW q \in Seq(S), q # <<>>, NEW x
  PROVE  Has(q, x) <=> Head(q) = x \/ Has(Tail(q), x)
<1>1. Count(q, {x}) = (IF Head(q) \in {x} THEN 1 ELSE 0) + Count(Tail(q), {x}) /\ Tail(q) \in Seq(S)
  BY CountTail
<1>2. Count(Tail(q), {x}) \in Nat /\ (Has(Tail(q), x) <=> Count(Tail(q), {x}) > 0)
  BY <1>1, HasCount
<1>3. Has(q, x) <=> Count(q, {x}) > 0
  BY HasCount
<1>. QED BY <1>1, <1>2, <1>3

(* What is in two sequences put together. *)
LEMMA HasConcat ==
  ASSUME NEW S, NEW q \in Seq(S), NEW u \in Seq(S), NEW x
  PROVE  Has(q \o u, x) <=> Has(q, x) \/ Has(u, x)
<1>1. Count(q \o u, {x}) = Count(q, {x}) + Count(u, {x}) /\ q \o u \in Seq(S)
  BY CountConcat
<1>2. /\ Count(q, {x}) \in Nat /\ (Has(q, x) <=> Count(q, {x}) > 0)
      /\ Count(u, {x}) \in Nat /\ (Has(u, x) <=> Count(u, {x}) > 0)
  BY HasCount
<1>3. Has(q \o u, x) <=> Count(q \o u, {x}) > 0
  BY <1>1, HasCount
<1>. QED BY <1>1, <1>2, <1>3

(* What is in a sequence with one element more. *)
LEMMA HasAppend ==
  ASSUME NEW S, NEW q \in Seq(S), NEW e \in S, NEW x
  PROVE  Has(Append(q, e), x) <=> Has(q, x) \/ e = x
<1>1. Count(Append(q, e), {x}) = Count(q, {x}) + (IF e \in {x} THEN 1 ELSE 0)
  BY CountAppend
<1>2. Count(q, {x}) \in Nat /\ (Has(q, x) <=> Count(q, {x}) > 0)
  BY HasCount
<1>3. Append(q, e) \in Seq(S)
  OBVIOUS
<1>4. Has(Append(q, e), x) <=> Count(Append(q, e), {x}) > 0
  BY <1>3, HasCount
<1>. QED BY <1>1, <1>2, <1>4

(* What is in a sequence with elements left out. *)
LEMMA HasLess ==
  ASSUME NEW S, NEW q \in Seq(S), NEW X, NEW x
  PROVE  Has(Less(q, X), x) <=> Has(q, x) /\ x \notin X
<1>1. Less(q, X) \in Seq(S) /\ Count(Less(q, X), {x}) = Count(q, {x} \ X)
  BY LessCount
<1>2. Has(Less(q, X), x) <=> Count(Less(q, X), {x}) > 0
  BY <1>1, HasCount
<1>3. Count(q, {}) = 0
  BY CountFacts
<1>4. Has(q, x) <=> Count(q, {x}) > 0
  BY HasCount
<1>5. CASE x \in X
  <2>1. Count(q, {x} \ X) = Count(q, {})
    <3>1. {x} \ X = {}
      BY <1>5
    <3>. QED BY <3>1
  <2>. QED BY <1>1, <1>2, <1>3, <1>5, <2>1
<1>6. CASE x \notin X
  <2>1. {x} \ X = {x}
    BY <1>6
  <2>. QED BY <1>1, <1>2, <1>4, <1>6, <2>1
<1>. QED BY <1>5, <1>6

(* The slot an update deals with. *)
LEMMA NowFacts ==
  ASSUME TypeOK, todo # {}
  PROVE  Now \in todo /\ Now \in Slots
<1>1. todo \in SUBSET Nat
  BY DEF TypeOK, Slots
<1>2. \E s \in todo : \A x \in todo : s <= x
  BY <1>1, Least
<1>. QED BY <1>2 DEF Now, TypeOK

(* The results, and what comes after them when one is appended. *)
LEMMA ResultFacts ==
  ASSUME TypeOK
  PROVE  /\ Len(results) \in Nat /\ DOMAIN results = 1..Len(results)
         /\ \A i \in DOMAIN results : results[i].id \in Tasks /\ results[i].kind \in Kinds
         /\ \A i \in DOMAIN results, t \in Tasks :
              /\ results[i] = Final(t) <=> results[i].id = t /\ results[i].kind = "final"
              /\ results[i] = Failure(t) <=> results[i].id = t /\ results[i].kind = "error"
<1>1. results \in Seq(Answers)
  BY DEF TypeOK
<1>2. Len(results) \in Nat /\ DOMAIN results = 1..Len(results)
      /\ \A i \in DOMAIN results : results[i] \in Answers
  BY <1>1
<1>. QED BY <1>2 DEF Answers, Final, Failure

(* The five counts are numbers. *)
Numbers(t) ==
  /\ InQueue(t) \in Nat /\ InDeferred(t) \in Nat /\ InHand(t) \in {0, 1}
  /\ InSlots(t) \in Nat /\ InResults(t) \in Nat
  /\ Unslotted(t) \in Nat /\ Pending(t) \in Nat
  /\ Unslotted(t) = InQueue(t) + InDeferred(t) + InHand(t)
  /\ Pending(t) = Unslotted(t) + InSlots(t)
  /\ InSlots(t) = 0 <=> Held(t) = {}
  /\ \A s : Held(t) = {s} => InSlots(t) = 1
  /\ InSlots(t) <= 1 <=> \A x, y \in Held(t) : x = y

(* The five counts of every task are numbers, in this state and the next. *)
LEMMA CountsType == TypeOK => \A t \in Tasks : Numbers(t)
<1>. SUFFICES ASSUME TypeOK, NEW t \in Tasks PROVE Numbers(t)
  OBVIOUS
<1>1. IsFiniteSet(Slots)
  BY FS_Interval DEF Slots
<1>2. IsFiniteSet(Held(t))
  BY <1>1, FS_Subset DEF Held
<1>3. /\ InSlots(t) \in Nat
      /\ InSlots(t) = 0 <=> Held(t) = {}
      /\ \A s : Held(t) = {s} => InSlots(t) = 1
      /\ InSlots(t) <= 1 <=> \A x, y \in Held(t) : x = y
  BY <1>2, SmallSets DEF InSlots
<1>4. InQueue(t) \in Nat /\ InDeferred(t) \in Nat /\ InResults(t) \in Nat
  BY CountFacts DEF TypeOK, InQueue, InDeferred, InResults
<1>5. InHand(t) \in {0, 1}
  BY DEF InHand
<1>. QED BY <1>1, <1>2, <1>3, <1>4, <1>5 DEF Unslotted, Pending, Numbers

(* The same of the next state. *)
LEMMA CountsTypeNext == TypeOK' => \A t \in Tasks : Numbers(t)'
<1>1. TypeOK' => (\A t \in Tasks : Numbers(t))'
  BY CountsType, PTL
<1>. QED BY <1>1

(* A deferred task moves to the front of the queue: no task is lost and no  *)
(* entry of another kind comes or goes.                                     *)
LEMMA PopFacts ==
  ASSUME TypeOK, NEW s \in Slots, PopDeferred(s), env' = env
  PROVE  /\ queue' \in Seq(Entries) /\ deferred' \in Seq(Tasks)
         /\ \A t \in Tasks : InQueue(t)' + InDeferred(t)' = InQueue(t) + InDeferred(t)
         /\ \A x : (\A t : x # Run(t)) => (Has(queue', x) <=> Has(queue, x))
<1>1. CASE deferred = <<>> /\ UNCHANGED <<queue, deferred>>
  BY <1>1 DEF TypeOK, InQueue, InDeferred, Carriers, Bearers
<1>2. CASE /\ deferred # <<>>
           /\ queue' = <<Run(deferred[Popped(s)])>> \o queue
           /\ deferred' = RemoveAt(deferred, Popped(s))
  <2>1. deferred \in Seq(Tasks) /\ queue \in Seq(Entries)
    BY DEF TypeOK
  <2>2. Len(deferred) \in Nat \ {0} /\ DOMAIN deferred = 1..Len(deferred)
    BY <1>2, <2>1, EmptySeq
  <2>3. Popped(s) \in 1..Len(deferred)
    <3>1. CASE Wanting(s) = {}
      BY <2>2, <3>1 DEF Popped
    <3>2. CASE Wanting(s) # {}
      <4>1. Wanting(s) \in SUBSET Nat
        BY <2>2 DEF Wanting
      <4>2. \E i \in Wanting(s) : \A j \in Wanting(s) : i <= j
        BY <3>2, <4>1, Least
      <4>3. Popped(s) \in Wanting(s)
        BY <3>2, <4>2 DEF Popped
      <4>. QED BY <4>3 DEF Wanting
    <3>. QED BY <3>1, <3>2
  <2>. DEFINE d == deferred[Popped(s)]
  <2>4. d \in Tasks /\ Run(d) \in Entries /\ <<Run(d)>> \in Seq(Entries)
    BY <2>1, <2>3 DEF Entries
  <2>5. queue' \in Seq(Entries) /\ deferred' \in Seq(Tasks)
    BY <1>2, <2>1, <2>3, <2>4, CountRemoveAt
  <2>6. \A X : Count(queue', X) = Count(<<Run(d)>>, X) + Count(queue, X)
    <3>1. queue' = <<Run(d)>> \o queue
      BY <1>2
    <3>2. ASSUME NEW e \in Seq(Entries), NEW X
          PROVE  Count(e \o queue, X) = Count(e, X) + Count(queue, X)
      BY <2>1, CountConcat
    <3>. QED BY <2>4, <3>1, <3>2
  <2>7. \A X : Count(<<Run(d)>>, X) = IF Run(d) \in X THEN 1 ELSE 0
    BY CountSmall
  <2>8. \A X : Count(deferred, X) = (IF d \in X THEN 1 ELSE 0) + Count(deferred', X)
    BY <1>2, <2>1, <2>3, CountRemoveAt
  <2>9. \A X : Count(queue, X) \in Nat /\ Count(deferred, X) \in Nat /\ Count(deferred', X) \in Nat
    BY <2>1, <2>5, CountFacts
  <2>10. ASSUME NEW t \in Tasks
         PROVE InQueue(t)' + InDeferred(t)' = InQueue(t) + InDeferred(t)
    <3>1. Carriers(t)' = Carriers(t) /\ Bearers(t)' = Bearers(t)
      BY DEF Carriers, Bearers
    <3>2. Run(d) \in Carriers(t) <=> d \in Bearers(t)
      BY EntryFacts DEF Carriers
    <3>3. InQueue(t)' = Count(queue', Carriers(t)) /\ InDeferred(t)' = Count(deferred', Bearers(t))
      BY <3>1 DEF InQueue, InDeferred
    <3>. QED BY <2>6, <2>7, <2>8, <2>9, <3>2, <3>3 DEF InQueue, InDeferred
  <2>11. ASSUME NEW x, \A t : x # Run(t) PROVE Has(queue', x) <=> Has(queue, x)
    <3>1. Count(queue', {x}) = Count(queue, {x})
      BY <2>6, <2>7, <2>9, <2>11
    <3>. QED BY <2>1, <2>5, <3>1, HasCount
  <2>. QED BY <2>5, <2>10, <2>11
<1>. QED BY <1>1, <1>2 DEF PopDeferred

(* The places of a task are the five counts. *)
LEMMA PlacesSum ==
  ASSUME TypeOK, NEW t \in Tasks
  PROVE  Places(t) = Pending(t) + InResults(t)
<1>1. {i \in DOMAIN queue : t \in Carried(queue[i])} = At(queue, Carriers(t))
  <2>1. \A i \in DOMAIN queue : queue[i] \in Entries
    BY DEF TypeOK
  <2>. QED BY <2>1, CarrierFacts DEF At
<1>2. {i \in DOMAIN deferred : t \in {deferred[i]} \cup env.kids[deferred[i]]}
        = At(deferred, Bearers(t))
  <2>1. \A i \in DOMAIN deferred : deferred[i] \in Tasks
    BY DEF TypeOK
  <2>. QED BY <2>1 DEF At, Bearers
<1>3. Cardinality({x \in {hand} : t \in Carried(x)}) = InHand(t)
  <2>1. {x \in {hand} : t \in Carried(x)} = IF t \in Carried(hand) THEN {hand} ELSE {}
    OBVIOUS
  <2>. QED BY <2>1, FS_EmptySet, FS_Singleton DEF InHand
<1>4. {i \in DOMAIN results : results[i] = [id |-> t, kind |-> "final"]} = At(results, {Final(t)})
  BY DEF At, Final
<1>. HIDE DEF Count
<1>5. Places(t) = InQueue(t) + InDeferred(t) + InHand(t) + InSlots(t) + InResults(t)
  BY <1>1, <1>2, <1>3, <1>4 DEF Places, InQueue, InDeferred, InSlots, Held, InResults, Count
<1>. QED BY <1>5, CountsType DEF Numbers

-----------------------------------------------------------------------------
(* The loop.  What every step of it does to the tasks: it never adds one to *)
(* the places; it answers only tasks that are pending; what it takes out of *)
(* the places is answered, or nobody waits for it.                          *)
Reply(t, kind) == results' = Append(results, [id |-> t, kind |-> kind])
Replies ==
  \/ results' = results
  \/ \E t \in Tasks, kind \in Kinds :
       /\ Reply(t, kind) /\ t \in waiting
       /\ Pending(t) = 1
       /\ kind = "partial" => \A i \in DOMAIN results : results[i].id # t
       /\ kind # "partial" => Pending(t)' = 0
Accounted(t) ==
  \/ t \notin waiting
  \/ Reply(t, "final")
  \/ \E k \in Tasks : ReaderOf[k] = ReaderOf[t] /\ Reply(k, "error")
Moves ==
  /\ UNCHANGED <<env, waiting, readerVars>>
  /\ \A t \in Tasks : Pending(t)' <= Pending(t) /\ Unslotted(t)' <= Unslotted(t)
  /\ \A s \in Slots, t \in Tasks : task'[s] = t => task[s] = t \/ Unslotted(t) > 0
  /\ Replies
  /\ \A t \in Tasks : Pending(t)' # Pending(t) => Accounted(t)

(* And what it does to the cancels: each leaves only with its task's slot.  *)
Called(t) == Has(queue, CancelOf(t)) \/ hand = CancelOf(t)
Obeys ==
  /\ \A t \in Tasks : Called(t)' => Called(t)
  /\ \A t \in Tasks, s \in Slots :
       Called(t) /\ task'[s] = t => Called(t)' \/ (pc' = "release" /\ s = Now')
  /\ pc = "release" => task'[Now] = None

(* Such a step preserves the invariants about places, results and cancels.  *)
LEMMA MovesResults ==
  ASSUME IInv, Moves, TypeOK'
  PROVE  ResultInv'
<1>1. /\ \A t \in Tasks : Where(t)' = Where(t) /\ Pending(t)' <= Pending(t)
      /\ got' = got /\ waiting' = waiting
  BY DEF Moves, readerVars, Where
<1>2. \A t \in Tasks : Pending(t) \in Nat /\ Pending(t)' \in Nat /\ PlaceOf(t)
  BY CountsType, CountsTypeNext DEF IInv, Numbers, PlaceInv
<1>3. results \in Seq(Answers) /\ ResultInv
  BY DEF IInv, TypeOK
<1>4. CASE results' = results
  <2>1. \A i \in DOMAIN results : results[i].id \in Tasks
    BY ResultFacts DEF IInv
  <2>. QED BY <1>1, <1>2, <1>3, <1>4, <2>1 DEF ResultInv
<1>5. ASSUME NEW t \in Tasks, NEW kind \in Kinds,
             results' = Append(results, [id |-> t, kind |-> kind]), t \in waiting,
             Pending(t) = 1,
             kind = "partial" => \A i \in DOMAIN results : results[i].id # t,
             kind # "partial" => Pending(t)' = 0
      PROVE  ResultInv'
  <2>. DEFINE n == Len(results) + 1
  <2>0. [id |-> t, kind |-> kind] \in Answers
    BY DEF Answers
  <2>1. /\ DOMAIN results = 1..Len(results) /\ DOMAIN results' = 1..n /\ Len(results) \in Nat
        /\ \A i \in 1..Len(results) : results'[i] = results[i] /\ results[i].id \in Tasks
        /\ results'[n] = [id |-> t, kind |-> kind]
    BY <1>3, <1>5, <2>0, ResultFacts DEF IInv
  <2>2. results'[n].id = t /\ results'[n].kind = kind
    BY <2>1
  <2>3. Where(t) \in {"recv", "stop"} /\ t \notin got
    BY <1>2, <1>3, <1>5 DEF ResultInv, PlaceOf, Early
  <2>4. \A i \in 1..Len(results) : results[i].id = t => results[i].kind = "partial"
    <3>1. InResults(t) = 0
      BY <1>2, <1>5, CountsType DEF IInv, Numbers, PlaceOf
    <3>2. \A i \in DOMAIN results : results[i] # Final(t)
      BY <1>3, <3>1, CountFacts DEF InResults
    <3>3. \A i \in DOMAIN results : results[i] # Failure(t)
      BY <1>3, <1>5 DEF ResultInv
    <3>. QED BY <2>1, <3>2, <3>3, ResultFacts DEF IInv, Kinds
  <2>. HIDE DEF n
  <2>5. \A i \in DOMAIN results' : i = n \/ i \in 1..Len(results)
    BY <2>1 DEF n
  <2>6. (waiting = {u \in Tasks : Where(u) \in {"added", "recv", "stop"}})'
    BY <1>1, <1>3 DEF ResultInv
  <2>7. (\A i \in DOMAIN results :
          Where(results[i].id) \in {"recv", "stop", "cancel"} /\ results[i].id \notin got)'
    BY <1>1, <1>3, <2>1, <2>2, <2>3, <2>5 DEF ResultInv
  <2>8. (\A i, j \in DOMAIN results :
          i < j /\ results[i].id = results[j].id => results[i].kind = "partial")'
    <3>1. ASSUME NEW i \in DOMAIN results', NEW j \in DOMAIN results',
                 i < j, results'[i].id = results'[j].id
          PROVE  results'[i].kind = "partial"
      <4>1. i \in 1..Len(results)
        BY <2>1, <3>1 DEF n
      <4>2. CASE j = n
        BY <2>1, <2>2, <2>4, <3>1, <4>1, <4>2
      <4>3. CASE j # n
        BY <1>3, <2>1, <2>5, <3>1, <4>1, <4>3 DEF ResultInv
      <4>. QED BY <4>2, <4>3
    <3>. QED BY <3>1
  <2>9. (\A i \in DOMAIN results, u \in Tasks : results[i] = Failure(u) => Pending(u) = 0)'
    <3>1. ASSUME NEW i \in DOMAIN results', NEW u \in Tasks, results'[i] = Failure(u)
          PROVE  Pending(u)' = 0
      <4>0. Failure(u).id = u /\ Failure(u).kind = "error"
        BY DEF Failure
      <4>1. CASE i = n
        BY <1>5, <2>2, <3>1, <4>0, <4>1
      <4>2. CASE i # n
        <5>1. i \in DOMAIN results /\ results[i] = Failure(u)
          BY <2>1, <2>5, <3>1, <4>2
        <5>2. Pending(u) = 0
          BY <1>3, <5>1 DEF ResultInv
        <5>. QED BY <1>1, <1>2, <5>2
      <4>. QED BY <4>1, <4>2
    <3>. QED BY <3>1 DEF Failure
  <2>. QED BY <2>6, <2>7, <2>8, <2>9 DEF ResultInv
<1>. QED BY <1>4, <1>5 DEF Moves, Replies, Reply

(* A step that moves as said leaves every task where it may be.             *)
LEMMA MovesPlaces ==
  ASSUME IInv, Moves, TypeOK'
  PROVE  PlaceInv'
<1>1. /\ \A t \in Tasks : Where(t)' = Where(t) /\ Pending(t)' <= Pending(t)
      /\ got' = got /\ reader' = reader
  BY DEF Moves, readerVars, Where
<1>2. \A t \in Tasks : Numbers(t) /\ Numbers(t)' /\ PlaceOf(t)
  BY CountsType, CountsTypeNext DEF IInv, PlaceInv
<1>3. results \in Seq(Answers) /\ results' \in Seq(Answers)
  BY DEF IInv, TypeOK
<1>4. /\ DOMAIN results \subseteq DOMAIN results'
      /\ \A i \in DOMAIN results : results'[i] = results[i]
  <2>1. ASSUME NEW u \in Tasks, NEW kind \in Kinds,
               results' = Append(results, [id |-> u, kind |-> kind])
        PROVE  /\ DOMAIN results \subseteq DOMAIN results'
               /\ \A i \in DOMAIN results : results'[i] = results[i]
    <3>1. [id |-> u, kind |-> kind] \in Answers
      BY DEF Answers
    <3>. QED BY <1>3, <2>1, <3>1
  <2>. QED BY <2>1 DEF Moves, Replies, Reply
<1>4a. \A t \in Tasks : /\ Pending(t) \in Nat /\ Pending(t)' \in Nat
                        /\ InResults(t) \in Nat /\ InResults(t)' \in Nat
  BY <1>2 DEF Numbers
<1>5. ASSUME NEW t \in Tasks PROVE Pending(t)' + InResults(t)' <= Pending(t) + InResults(t)
  <2>1. CASE results' = results
    BY <1>1, <1>2, <2>1 DEF Numbers, InResults
  <2>2. ASSUME NEW u \in Tasks, NEW kind \in Kinds,
               results' = Append(results, [id |-> u, kind |-> kind]),
               Pending(u) = 1, kind # "partial" => Pending(u)' = 0
        PROVE  Pending(t)' + InResults(t)' <= Pending(t) + InResults(t)
    <3>1. [id |-> u, kind |-> kind] \in Answers
      BY DEF Answers
    <3>2. InResults(t)' = InResults(t) + (IF [id |-> u, kind |-> kind] \in {Final(t)} THEN 1 ELSE 0)
      BY <1>3, <2>2, <3>1, CountAppend DEF InResults
    <3>3. [id |-> u, kind |-> kind] \in {Final(t)} => u = t /\ kind = "final"
      BY DEF Final
    <3>. QED BY <1>1, <1>4a, <2>2, <3>2, <3>3
  <2>. QED BY <2>1, <2>2 DEF Moves, Replies, Reply
<1>6. ASSUME NEW t \in Tasks PROVE PlaceOf(t)'
  <2>1. Pending(t)' + InResults(t)' <= 1
    BY <1>2, <1>5 DEF Numbers, PlaceOf
  <2>2. Where(t)' \in Early => t \notin got' /\ Pending(t)' = 0 /\ \A s \in Slots : task'[s] # t
    <3>1. ASSUME Where(t) \in Early, NEW s \in Slots PROVE task'[s] # t
      <4>1. Unslotted(t) = 0 /\ task[s] # t
        BY <1>2, <3>1 DEF Numbers, PlaceOf
      <4>. QED BY <4>1 DEF Moves
    <3>. QED BY <1>1, <1>2, <3>1 DEF Numbers, PlaceOf
  <2>3. ASSUME Where(t)' = "recv", ~HasError(ReaderOf[t])', t \notin got'
        PROVE  Pending(t)' + InResults(t)' = 1
    <3>1. ~HasError(ReaderOf[t])
      BY <1>4, <2>3 DEF HasError, Mine
    <3>2. Pending(t) + InResults(t) = 1
      BY <1>1, <1>2, <2>3, <3>1 DEF PlaceOf
    <3>3. t \in waiting
      BY <1>1, <2>3 DEF IInv, ResultInv
    <3>4. CASE Pending(t)' = Pending(t)
      <4>1. results' = results => InResults(t)' >= InResults(t)
        BY <1>4a DEF InResults
      <4>2. ASSUME NEW u \in Tasks, NEW kind \in Kinds,
                   results' = Append(results, [id |-> u, kind |-> kind])
            PROVE  InResults(t)' >= InResults(t)
        <5>1. [id |-> u, kind |-> kind] \in Answers
          BY DEF Answers
        <5>2. InResults(t)' = InResults(t) + (IF [id |-> u, kind |-> kind] \in {Final(t)} THEN 1 ELSE 0)
          BY <1>3, <4>2, <5>1, CountAppend DEF InResults
        <5>. QED BY <1>4a, <5>2
      <4>3. InResults(t)' >= InResults(t)
        BY <1>4a, <4>1, <4>2 DEF Moves, Replies, Reply
      <4>. QED BY <1>4a, <2>1, <3>2, <3>4, <4>3
    <3>5. CASE results' = Append(results, Final(t))
      <4>1. Final(t) \in Answers
        BY DEF Final, Answers, Kinds
      <4>2. InResults(t)' = InResults(t) + 1
        BY <1>3, <3>5, <4>1, CountAppend DEF InResults
      <4>. QED BY <1>4a, <2>1, <4>2
    <3>6. ASSUME NEW k \in Tasks, ReaderOf[k] = ReaderOf[t],
                 results' = Append(results, [id |-> k, kind |-> "error"])
          PROVE  FALSE
      <4>1. [id |-> k, kind |-> "error"] \in Answers
        BY DEF Answers, Kinds
      <4>2. Len(results) + 1 \in DOMAIN results'
            /\ results'[Len(results) + 1] = [id |-> k, kind |-> "error"]
        BY <1>3, <3>6, <4>1
      <4>. QED BY <2>3, <3>6, <4>2 DEF HasError, Mine
    <3>. QED BY <3>3, <3>4, <3>5, <3>6 DEF Moves, Accounted, Reply, Final
  <2>4. t \in got' => Pending(t)' = 0
    BY <1>1, <1>2 DEF Numbers, PlaceOf
  <2>. QED BY <2>1, <2>2, <2>3, <2>4 DEF PlaceOf
<1>. QED BY <1>6 DEF PlaceInv

(* A step that also obeys the cancels keeps every slot at work for someone. *)
LEMMA MovesCancels ==
  ASSUME IInv, Moves, Obeys, TypeOK'
  PROVE  CancelInv'
<1>1. \A t \in Tasks : Where(t)' = Where(t)
  BY DEF Moves, readerVars, Where
<1>2. \A t \in Tasks : Numbers(t) /\ Numbers(t)'
  BY CountsType, CountsTypeNext DEF IInv
<1>3. missed' = missed /\ reader' = reader /\ CancelInv
  BY DEF Moves, readerVars, IInv
<1>4. (\A t \in Tasks : Has(queue, CancelOf(t)) \/ hand = CancelOf(t) => Where(t) = "gone")'
  BY <1>1, <1>3 DEF Obeys, Called, CancelInv
<1>5. (\A t \in Tasks : Where(t) = "gone" /\ t \notin missed => Unslotted(t) = 0)'
  BY <1>1, <1>2, <1>3 DEF CancelInv, Numbers, Moves
<1>6. ASSUME NEW s \in Slots, task'[s] # None, reader'[ReaderOf[task'[s]]] = "gone",
             task'[s] \notin missed'
      PROVE  \/ pc' = "release" /\ s = Now'
             \/ hand' = CancelOf(task'[s])
             \/ \E i \in DOMAIN queue' : queue'[i] = CancelOf(task'[s])
  <2>1. PICK t \in Tasks : t = task'[s]
    BY <1>6 DEF TypeOK
  <2>2. Unslotted(t) = 0
    BY <1>3, <1>6, <2>1 DEF CancelInv, Where
  <2>3. task[s] = t
    BY <2>1, <2>2 DEF Moves
  <2>4. ~(pc = "release" /\ s = Now)
    BY <1>6 DEF Obeys
  <2>5. t # None
    OBVIOUS
  <2>6. Called(t)
    BY <1>3, <1>6, <2>1, <2>3, <2>4, <2>5 DEF CancelInv, WorksForSomeone, Called, Has
  <2>7. Called(t)' \/ (pc' = "release" /\ s = Now')
    BY <2>1, <2>6 DEF Obeys
  <2>. QED BY <2>1, <2>7 DEF Called, Has
<1>. QED BY <1>4, <1>5, <1>6 DEF CancelInv, WorksForSomeone

(* The places of a task that a step leaves alone. *)
LEMMA SameUnslotted ==
  ASSUME UNCHANGED <<env, queue, deferred, hand>>
  PROVE  \A t \in Tasks : Unslotted(t)' = Unslotted(t) /\ Called(t)' = Called(t)
BY DEF Unslotted, InQueue, InDeferred, InHand, Carriers, Bearers, Carried, Called

(* The slots of a task when no slot changes and none is being given back. *)
LEMMA SameSlots ==
  ASSUME UNCHANGED task, pc # "release", pc' # "release"
  PROVE  \A t \in Tasks : Held(t)' = Held(t) /\ InSlots(t)' = InSlots(t)
BY DEF Held, InSlots

(* A step that moves no task and answers none. *)
LEMMA QuietStep ==
  ASSUME IInv, TypeOK', UNCHANGED <<env, queue, deferred, hand, task>>,
         UNCHANGED <<resultVars, readerVars>>, pc # "release", pc' # "release"
  PROVE  Moves /\ Obeys
<1>1. \A t \in Tasks : /\ Unslotted(t)' = Unslotted(t) /\ Called(t)' = Called(t)
                       /\ InSlots(t)' = InSlots(t)
  BY SameUnslotted, SameSlots
<1>2. \A t \in Tasks : Numbers(t) /\ Numbers(t)'
  BY CountsType, CountsTypeNext DEF IInv
<1>3. \A t \in Tasks : Pending(t)' = Pending(t) /\ Pending(t) \in Nat /\ Unslotted(t) \in Nat
  BY <1>1, <1>2 DEF Numbers
<1>. QED BY <1>1, <1>3 DEF Moves, Replies, Obeys, resultVars, readerVars

(* The type and the loop's own invariant, for such steps. *)
LEMMA QuietLoop ==
  ASSUME IInv,
         \/ LoopDrained \/ LoopEnds \/ LoopUpdated \/ LoopGoesOn \/ LoopSleeps \/ LoopWakes
         \/ \E s \in Slots : SlotWorks(s) \/ SlotWaits(s)
  PROVE  TypeOK' /\ Moves /\ Obeys /\ LoopInv'
<1>. USE DEF IInv
<1>. USE DEF resultVars, readerVars, queueVars, slotVars, loopVars
<1>1. CASE LoopDrained
  <2>1. TypeOK' /\ LoopInv'
    BY <1>1 DEF LoopDrained, TypeOK, LoopInv, Idle
  <2>. QED BY <1>1, <2>1, QuietStep DEF LoopDrained
<1>2. CASE LoopEnds
  <2>1. TypeOK' /\ LoopInv'
    BY <1>2 DEF LoopEnds, TypeOK, LoopInv, Idle
  <2>. QED BY <1>2, <2>1, QuietStep DEF LoopEnds
<1>3. CASE LoopUpdated
  <2>1. TypeOK' /\ LoopInv'
    BY <1>3 DEF LoopUpdated, TypeOK, LoopInv, Idle, Has
  <2>. QED BY <1>3, <2>1, QuietStep DEF LoopUpdated
<1>4. CASE LoopGoesOn
  <2>1. TypeOK' /\ LoopInv'
    BY <1>4 DEF LoopGoesOn, TypeOK, LoopInv, Idle
  <2>. QED BY <1>4, <2>1, QuietStep DEF LoopGoesOn
<1>5. CASE LoopSleeps
  <2>1. ~Has(queue, NextResponse)
    BY <1>5 DEF LoopSleeps, Has
  <2>2. TypeOK' /\ LoopInv'
    BY <1>5, <2>1 DEF LoopSleeps, TypeOK, LoopInv, Idle
  <2>. QED BY <1>5, <2>2, QuietStep DEF LoopSleeps
<1>6. CASE LoopWakes
  <2>1. TypeOK' /\ LoopInv'
    BY <1>6 DEF LoopWakes, TypeOK, LoopInv, Idle
  <2>2. pc # "release" /\ pc' # "release"
    BY <1>6 DEF LoopWakes
  <2>. QED BY <1>6, <2>1, <2>2, QuietStep DEF LoopWakes
<1>7. ASSUME NEW s \in Slots, SlotWorks(s)
      PROVE  TypeOK' /\ Moves /\ Obeys /\ LoopInv'
  <2>1. s \in todo /\ task[s] \in Tasks
    BY <1>7, NowFacts DEF SlotWorks, StepOf, LoopInv, TypeOK
  <2>2. left' \in [Tasks -> 0 .. env.steps]
    <3>1. left \in [Tasks -> 0 .. env.steps] /\ env.steps \in Nat
      BY EnvFacts DEF TypeOK
    <3>. QED BY <1>7, <2>1, <3>1 DEF SlotWorks
  <2>3. TypeOK'
    BY <1>7, <2>2 DEF SlotWorks, TypeOK
  <2>4. LoopInv'
    BY <1>7 DEF SlotWorks, StepOf, LoopInv, Idle, Has
  <2>. QED BY <1>7, <2>3, <2>4, QuietStep DEF SlotWorks, StepOf
<1>8. ASSUME NEW s \in Slots, SlotWaits(s)
      PROVE  TypeOK' /\ Moves /\ Obeys /\ LoopInv'
  <2>1. TypeOK' /\ LoopInv'
    BY <1>8 DEF SlotWaits, StepOf, TypeOK, LoopInv, Idle, Has
  <2>. QED BY <1>8, <2>1, QuietStep DEF SlotWaits, StepOf
<1>. QED BY <1>1, <1>2, <1>3, <1>4, <1>5, <1>6, <1>7, <1>8

(* The loop takes the first entry of the queue into its hand. *)
LEMMA TakesStep ==
  ASSUME IInv, LoopTakes
  PROVE  TypeOK' /\ Moves /\ Obeys /\ LoopInv'
<1>. USE DEF IInv, LoopTakes
<1>. USE DEF resultVars, readerVars, queueVars, slotVars, loopVars
<1>1. queue \in Seq(Entries) /\ queue # <<>> /\ hand = Nothing
  BY DEF TypeOK, LoopInv
<1>2. /\ Head(queue) \in Entries /\ Tail(queue) \in Seq(Entries)
      /\ \A X : Count(queue, X) = (IF Head(queue) \in X THEN 1 ELSE 0) + Count(Tail(queue), X)
  BY <1>1, CountTail
<1>3. TypeOK'
  BY <1>2 DEF TypeOK
<1>4. \A t \in Tasks : /\ Numbers(t) /\ Numbers(t)'
                       /\ InSlots(t)' = InSlots(t) /\ InDeferred(t)' = InDeferred(t)
  BY <1>3, CountsType, CountsTypeNext, SameSlots DEF InDeferred, Bearers
<1>5. ASSUME NEW t \in Tasks PROVE Unslotted(t)' = Unslotted(t) /\ Pending(t)' = Pending(t)
  <2>1. InHand(t) = 0
    BY <1>1, EntryFacts DEF InHand, Carried
  <2>2. Head(queue) \in Carriers(t) <=> t \in Carried(Head(queue))
    BY <1>2, CarrierFacts
  <2>3. InHand(t)' = IF Head(queue) \in Carriers(t) THEN 1 ELSE 0
    BY <2>2 DEF InHand, Carried
  <2>4. InQueue(t)' = Count(Tail(queue), Carriers(t))
    BY DEF InQueue, Carriers, Bearers
  <2>5. InQueue(t) = (IF Head(queue) \in Carriers(t) THEN 1 ELSE 0) + Count(Tail(queue), Carriers(t))
    BY <1>2 DEF InQueue
  <2>6. /\ InQueue(t)' \in Nat /\ InDeferred(t) \in Nat /\ InSlots(t) \in Nat
        /\ Unslotted(t) = InQueue(t) + InDeferred(t) + InHand(t)
        /\ Pending(t) = Unslotted(t) + InSlots(t)
        /\ Unslotted(t)' = InQueue(t)' + InDeferred(t)' + InHand(t)'
        /\ Pending(t)' = Unslotted(t)' + InSlots(t)'
        /\ InSlots(t)' = InSlots(t) /\ InDeferred(t)' = InDeferred(t)
    BY <1>4, ZenonT(30) DEF Numbers
  <2>. HIDE DEF IInv, LoopTakes
  <2>. QED BY <2>1, <2>3, <2>4, <2>5, <2>6
<1>6. \A x : Has(queue, x) <=> hand' = x \/ Has(queue', x)
  BY <1>1, HasTail
<1>8. \A t \in Tasks : Unslotted(t) \in Nat /\ Pending(t) \in Nat
  BY <1>4 DEF Numbers
<1>9. Moves
  BY <1>5, <1>8 DEF Moves, Replies
<1>10. \A t : Called(t)' <=> Called(t)
  BY <1>1, <1>6, EntryFacts DEF Called, CancelOf
<1>11. Obeys
  BY <1>10 DEF Obeys
<1>12. LoopInv'
  BY DEF LoopInv, Idle
<1>. QED BY <1>3, <1>9, <1>11, <1>12

(* The start of an update: NextResponse goes to the queue. *)
LEMMA UpdatesStep ==
  ASSUME IInv, LoopUpdates
  PROVE  TypeOK' /\ Moves /\ Obeys /\ LoopInv'
<1>. USE DEF IInv, LoopUpdates
<1>. USE DEF resultVars, readerVars, slotVars
<1>0. \/ Idle = Slots /\ pc' = "idle" /\ UNCHANGED <<queue, blocked>>
      \/ Idle # Slots /\ pc' = "step" /\ queue' = Append(queue, NextResponse) /\ NotifyOne
  OBVIOUS
<1>1. queue \in Seq(Entries) /\ NextResponse \in Entries
  BY DEF TypeOK, Entries
<1>2. CASE Idle = Slots /\ pc' = "idle" /\ UNCHANGED <<queue, blocked>>
  <2>1. TypeOK' /\ LoopInv'
    BY <1>2 DEF TypeOK, LoopInv, Idle
  <2>. QED BY <1>2, <2>1, QuietStep
<1>3. CASE pc' = "step" /\ queue' = Append(queue, NextResponse) /\ NotifyOne
  <2>1. queue' \in Seq(Entries)
    BY <1>1, <1>3
  <2>2. TypeOK'
    BY <1>3, <2>1 DEF TypeOK, NotifyOne
  <2>3. \A x : Has(queue', x) <=> Has(queue, x) \/ NextResponse = x
    BY <1>1, <1>3, HasAppend
  <2>4. ASSUME NEW t \in Tasks PROVE InQueue(t)' = InQueue(t)
    <3>1. NextResponse \notin Carriers(t)
      BY EntryFacts DEF Carriers
    <3>2. Count(Append(queue, NextResponse), Carriers(t)) = Count(queue, Carriers(t)) + 0
      BY <1>1, <3>1, CountAppend
    <3>3. Count(queue, Carriers(t)) \in Nat
      BY <1>1, CountFacts
    <3>. QED BY <1>3, <3>2, <3>3 DEF InQueue, Carriers, Bearers
  <2>5. \A t \in Tasks : /\ Numbers(t) /\ Numbers(t)'
                         /\ InSlots(t)' = InSlots(t) /\ InQueue(t)' = InQueue(t)
                         /\ InDeferred(t)' = InDeferred(t) /\ InHand(t)' = InHand(t)
    BY <1>3, <2>2, <2>4, CountsType, CountsTypeNext, SameSlots
       DEF InDeferred, Bearers, InHand, Carried
  <2>6. \A t \in Tasks : /\ Unslotted(t)' = Unslotted(t) /\ Pending(t)' = Pending(t)
                         /\ Unslotted(t) \in Nat /\ Pending(t) \in Nat
    BY <2>5 DEF Numbers
  <2>7. Moves
    BY <1>3, <2>6 DEF Moves, Replies
  <2>8. \A t \in Tasks : Called(t)' <=> Called(t)
    BY <2>3, EntryFacts DEF Called, CancelOf
  <2>9. Obeys
    BY <1>3, <2>8 DEF Obeys
  <2>10. LoopInv'
    BY <1>3, <2>3 DEF LoopInv, Idle
  <2>. QED BY <2>2, <2>7, <2>9, <2>10
<1>. QED BY <1>0, <1>2, <1>3

(* An answer is added when it is waited for. *)
LEMMA SendFacts ==
  ASSUME TypeOK, NEW u \in Tasks, NEW kind \in Kinds, Send(u, kind)
  PROVE  /\ results' \in Seq(Answers) /\ waiting' = waiting
         /\ u \in waiting => results' = Append(results, [id |-> u, kind |-> kind])
         /\ u \notin waiting => results' = results
<1>1. results \in Seq(Answers) /\ [id |-> u, kind |-> kind] \in Answers
  BY DEF TypeOK, Answers
<1>. QED BY <1>1 DEF Send

(* A slot that an update deals with holds its task. *)
LEMMA StepFacts ==
  ASSUME IInv, NEW s \in Slots, StepOf(s)
  PROVE  /\ s \in todo /\ s = Now /\ task[s] \in Tasks /\ pc = "step"
         /\ s \in Held(task[s])
         /\ Pending(task[s]) = 1 /\ Unslotted(task[s]) = 0 /\ Held(task[s]) = {s}
<1>. USE DEF IInv
<1>1. s \in todo /\ s = Now /\ task[s] \in Tasks /\ pc = "step"
  BY NowFacts DEF StepOf, LoopInv, TypeOK
<1>2. s \in Held(task[s])
  BY <1>1 DEF Held
<1>3. Numbers(task[s]) /\ PlaceOf(task[s])
  BY <1>1, CountsType DEF PlaceInv
<1>4. InSlots(task[s]) = 1 /\ Unslotted(task[s]) = 0 /\ Pending(task[s]) = 1
  BY <1>2, <1>3 DEF Numbers, PlaceOf
<1>5. Held(task[s]) = {s}
  BY <1>2, <1>3, <1>4 DEF Numbers
<1>. QED BY <1>1, <1>2, <1>4, <1>5

(* A token that is sent. *)
LEMMA SendsStep ==
  ASSUME IInv, NEW s \in Slots, SlotSends(s)
  PROVE  TypeOK' /\ Moves /\ Obeys /\ LoopInv'
<1>. USE DEF IInv, SlotSends
<1>. USE DEF readerVars, queueVars
<1>1. /\ task[s] \in Tasks /\ pc = "step" /\ Pending(task[s]) = 1
      /\ \A i \in DOMAIN results : results[i].id # task[s]
  BY StepFacts
<1>2. /\ results' \in Seq(Answers) /\ waiting' = waiting
      /\ task[s] \in waiting => results' = Append(results, [id |-> task[s], kind |-> "partial"])
      /\ task[s] \notin waiting => results' = results
  BY <1>1, SendFacts DEF Kinds
<1>3. TypeOK'
  <2>1. left' \in [Tasks -> 0 .. env.steps]
    <3>1. left \in [Tasks -> 0 .. env.steps] /\ env.steps \in Nat
      BY EnvFacts DEF TypeOK
    <3>. QED BY <1>1, <3>1
  <2>2. ready' \in [Slots -> BOOLEAN]
    BY DEF Readied, TypeOK
  <2>. QED BY <1>2, <2>1, <2>2 DEF TypeOK
<1>4. LoopInv'
  BY <1>1 DEF LoopInv, Idle, Has
<1>5. \A t \in Tasks : /\ Numbers(t) /\ Numbers(t)'
                       /\ Unslotted(t)' = Unslotted(t) /\ Called(t)' = Called(t)
                       /\ InSlots(t)' = InSlots(t)
  BY <1>1, <1>3, CountsType, CountsTypeNext, SameUnslotted, SameSlots
<1>6. \A t \in Tasks : /\ Pending(t)' = Pending(t) /\ Pending(t) \in Nat /\ Unslotted(t) \in Nat
                       /\ Unslotted(t)' = Unslotted(t)
  BY <1>5 DEF Numbers
<1>7. Replies
  <2>1. "partial" \in Kinds
    BY DEF Kinds
  <2>2. task[s] \in waiting => Reply(task[s], "partial")
    BY <1>2 DEF Reply
  <2>. QED BY <1>1, <1>2, <2>1, <2>2 DEF Replies
<1>8. UNCHANGED <<env, waiting, readerVars, task>>
  BY <1>2
<1>9. Moves
  <2>. HIDE DEF SlotSends, IInv
  <2>. QED BY <1>6, <1>7, <1>8 DEF Moves
<1>10. Obeys
  BY <1>1, <1>5 DEF Obeys
<1>. QED BY <1>3, <1>4, <1>9, <1>10

(* The last answer of a slot's task: from now on the task is nowhere. *)
LEMMA EndsStep ==
  ASSUME IInv, NEW s \in Slots, SlotEnds(s)
  PROVE  TypeOK' /\ Moves /\ Obeys /\ LoopInv'
<1>. USE DEF IInv, SlotEnds
<1>. USE DEF readerVars, queueVars
<1>0. PICK u \in Tasks : u = task[s]
  BY StepFacts
<1>1. /\ u = task[s] /\ u \in Tasks /\ pc = "step" /\ Pending(u) = 1 /\ Unslotted(u) = 0 /\ Held(u) = {s}
      /\ s = Now /\ s \in todo
  BY <1>0, StepFacts
<1>2. PICK kind \in {"final", "error"} :
        Send(u, kind) /\ (ready' = Readied(s) \/ UNCHANGED ready)
  BY <1>0
<1>3. kind \in Kinds
  BY DEF Kinds
<1>4. /\ results' \in Seq(Answers) /\ waiting' = waiting
      /\ u \in waiting => results' = Append(results, [id |-> u, kind |-> kind])
      /\ u \notin waiting => results' = results
  BY <1>1, <1>2, <1>3, SendFacts
<1>5. TypeOK'
  <2>1. ready' \in [Slots -> BOOLEAN]
    BY <1>2 DEF Readied, TypeOK
  <2>. QED BY <1>4, <2>1 DEF TypeOK
<1>6. LoopInv'
  BY <1>1 DEF LoopInv, Idle, Has
<1>7. Now' = Now
  BY DEF Now
<1>8. \A t \in Tasks : /\ Numbers(t) /\ Numbers(t)' /\ Unslotted(t)' = Unslotted(t)
                       /\ Called(t)' = Called(t)
  BY <1>5, CountsType, CountsTypeNext, SameUnslotted
<1>9. Held(u)' = {}
  <2>1. \A x \in Slots : task'[x] = u => x = s
    BY <1>1 DEF Held
  <2>. QED BY <1>1, <1>7, <2>1 DEF Held
<1>10. Pending(u)' = 0
  <2>1. Numbers(u)' /\ Unslotted(u)' = 0
    BY <1>1, <1>8
  <2>. QED BY <1>9, <2>1 DEF Numbers
<1>11. ASSUME NEW t \in Tasks, t # u PROVE Pending(t)' = Pending(t)
  <2>1. Held(t)' = Held(t)
    BY <1>1, <1>7, <1>11 DEF Held
  <2>2. InSlots(t)' = InSlots(t)
    BY <2>1 DEF InSlots
  <2>. QED BY <1>8, <1>11, <2>2 DEF Numbers
<1>12. \A t \in Tasks : /\ Pending(t) \in Nat /\ Unslotted(t) \in Nat
                        /\ Unslotted(t)' = Unslotted(t)
  BY <1>8 DEF Numbers
<1>13. (u \in waiting => Reply(u, kind)) /\ kind # "partial"
  BY <1>2, <1>4 DEF Reply
<1>14. Replies /\ \A t \in Tasks : Pending(t)' # Pending(t) => Accounted(t)
  <2>. HIDE DEF SlotEnds, IInv
  <2>1. Replies
    BY <1>1, <1>3, <1>4, <1>10, <1>13 DEF Replies
  <2>2. \A t \in Tasks : Pending(t)' # Pending(t) => Accounted(t)
    BY <1>1, <1>2, <1>11, <1>13 DEF Accounted
  <2>. QED BY <2>1, <2>2
<1>15. \A t \in Tasks : Pending(t)' <= Pending(t)
  <2>. HIDE DEF SlotEnds, IInv
  <2>. QED BY <1>1, <1>10, <1>11, <1>12
<1>16. UNCHANGED <<env, waiting, readerVars, task>>
  BY <1>4
<1>17. Moves
  <2>. HIDE DEF SlotEnds, IInv
  <2>. QED BY <1>12, <1>14, <1>15, <1>16 DEF Moves
<1>18. Obeys
  BY <1>1, <1>8 DEF Obeys
<1>. QED BY <1>5, <1>6, <1>17, <1>18

(* The slot is given back after the last answer. *)
LEMMA ReleasesStep ==
  ASSUME IInv, SlotReleases
  PROVE  TypeOK' /\ Moves /\ Obeys /\ LoopInv'
<1>. USE DEF IInv, SlotReleases
<1>. USE DEF readerVars, resultVars, Release
<1>1. Now \in todo /\ Now \in Slots /\ Has(queue, NextResponse)
  BY NowFacts DEF LoopInv
<1>2. /\ queue' \in Seq(Entries) /\ deferred' \in Seq(Tasks)
      /\ \A t \in Tasks : InQueue(t)' + InDeferred(t)' = InQueue(t) + InDeferred(t)
      /\ \A x : (\A t : x # Run(t)) => (Has(queue', x) <=> Has(queue, x))
  BY <1>1, PopFacts
<1>3. TypeOK'
  BY <1>1, <1>2 DEF TypeOK, NotifyOne
<1>4. \A t \in Tasks : Held(t)' = Held(t) /\ InSlots(t)' = InSlots(t)
  BY <1>1 DEF Held, InSlots, TypeOK
<1>5. \A t \in Tasks : InHand(t)' = InHand(t)
  BY DEF InHand, Carried
<1>6. \A t \in Tasks : Numbers(t) /\ Numbers(t)'
  BY <1>3, CountsType, CountsTypeNext
<1>7. \A t \in Tasks : /\ Unslotted(t)' = Unslotted(t) /\ Pending(t)' = Pending(t)
                       /\ Unslotted(t) \in Nat /\ Pending(t) \in Nat
  BY <1>2, <1>4, <1>5, <1>6 DEF Numbers
<1>8. \A s \in Slots, t \in Tasks : task'[s] = t => task[s] = t
  BY <1>1 DEF TypeOK
<1>9. Moves
  BY <1>7, <1>8 DEF Moves, Replies
<1>10. ASSUME NEW t PROVE Called(t)' <=> Called(t)
  <2>1. \A v : CancelOf(t) # Run(v)
    BY EntryFacts
  <2>2. Has(queue', CancelOf(t)) <=> Has(queue, CancelOf(t))
    BY <1>2, <2>1
  <2>3. CancelOf(t)' = CancelOf(t)
    BY DEF CancelOf
  <2>. QED BY <2>2, <2>3 DEF Called
<1>11. Obeys
  BY <1>1, <1>10 DEF Obeys, TypeOK
<1>12. Has(queue', NextResponse)
  BY <1>1, <1>2, EntryFacts
<1>13. LoopInv'
  BY <1>1, <1>12 DEF LoopInv, Idle, TypeOK
<1>. QED BY <1>3, <1>9, <1>11, <1>13

-----------------------------------------------------------------------------
(* What the loop does with a task it has in hand.                          *)

(* Room for a task: an idle slot for it and, when it has a child, another.  *)
LEMMA FitsFacts ==
  ASSUME TypeOK, NEW u \in Tasks, NEW s, Fits(u, s)
  PROVE  /\ s \in Slots /\ task[s] = None
         /\ \/ env.kids[u] = {} /\ KidSlot(u, s) = {}
            \/ \E k \in Tasks, x \in Slots :
                 /\ env.kids[u] = {k} /\ KidSlot(u, s) = {x}
                 /\ k # u /\ ReaderOf[k] = ReaderOf[u] /\ x # s /\ task[x] = None
<1>1. s \in Slots /\ task[s] = None
  BY DEF Fits, Idle
<1>2. CASE env.kids[u] = {}
  BY <1>1, <1>2 DEF KidSlot
<1>3. CASE env.kids[u] # {}
  <2>1. Cardinality(env.kids[u]) = 1
    BY <1>3, EnvFacts, SmallSets
  <2>2. PICK k : env.kids[u] = {k}
    BY <2>1, EnvFacts, FS_Singleton
  <2>3. k \in Tasks /\ k # u /\ ReaderOf[k] = ReaderOf[u]
    BY <2>2, EnvFacts
  <2>4. KidSlot(u, s) \subseteq Slots \ {s} /\ \A x \in KidSlot(u, s) : task[x] = None
    BY <1>3 DEF KidSlot, Idle
  <2>5. IsFiniteSet(KidSlot(u, s))
    <3>1. IsFiniteSet(Slots)
      BY FS_Interval DEF Slots
    <3>. QED BY <2>4, <3>1, FS_Subset
  <2>6. PICK x : KidSlot(u, s) = {x}
    BY <2>1, <2>5, FS_Singleton DEF Fits
  <2>. QED BY <1>1, <2>2, <2>3, <2>4, <2>6
<1>. QED BY <1>2, <1>3

(* The task in hand is carried by nobody else and holds no slot. *)
LEMMA HandFacts ==
  ASSUME IInv, NEW u \in Tasks, pc = "hand", hand = Run(u)
  PROVE  /\ \A t \in Tasks : /\ InHand(t) = IF u \in Bearers(t) THEN 1 ELSE 0
                             /\ u \in Bearers(t) <=> t \in {u} \cup env.kids[u]
                             /\ u \in Bearers(t) => /\ Pending(t) = 1 /\ Unslotted(t) = 1
                                                    /\ \A s \in Slots : task[s] # t
<1>. USE DEF IInv
<1>1. ASSUME NEW t \in Tasks
      PROVE  /\ InHand(t) = IF u \in Bearers(t) THEN 1 ELSE 0
             /\ u \in Bearers(t) <=> t \in {u} \cup env.kids[u]
  BY EntryFacts DEF InHand, Carried, Bearers
<1>2. ASSUME NEW t \in Tasks, u \in Bearers(t)
      PROVE  /\ Pending(t) = 1 /\ Unslotted(t) = 1 /\ \A s \in Slots : task[s] # t
  <2>1. Numbers(t) /\ PlaceOf(t) /\ InHand(t) = 1
    BY <1>1, <1>2, CountsType DEF PlaceInv
  <2>2. /\ InQueue(t) \in Nat /\ InDeferred(t) \in Nat /\ InSlots(t) \in Nat /\ InResults(t) \in Nat
        /\ Unslotted(t) = InQueue(t) + InDeferred(t) + InHand(t)
        /\ Pending(t) = Unslotted(t) + InSlots(t)
        /\ InSlots(t) = 0 <=> Held(t) = {}
    BY <2>1, Zenon DEF Numbers
  <2>3. Pending(t) + InResults(t) <= 1
    BY <2>1, Zenon DEF PlaceOf
  <2>. HIDE DEF IInv
  <2>4. Pending(t) = 1 /\ Unslotted(t) = 1 /\ InSlots(t) = 0
    BY <2>1, <2>2, <2>3
  <2>. QED BY <2>2, <2>4 DEF Held
<1>. QED BY <1>1, <1>2

(* A task that finds no room is deferred: out of the hand, into the deferred *)
(* ones.                                                                    *)
LEMMA DefersStep ==
  ASSUME IInv, NEW u \in Tasks, hand = Run(u), Defers(u), LoopProcesses
  PROVE  TypeOK' /\ Moves /\ Obeys
<1>. USE DEF IInv, Defers
<1>. USE DEF readerVars, resultVars, slotVars
<1>0. pc = "hand" /\ hand' = Nothing /\ pc' = "pop" /\ UNCHANGED <<env, todo, readerVars>>
  BY DEF LoopProcesses
<1>1. deferred \in Seq(Tasks) /\ deferred' \in Seq(Tasks)
  BY DEF TypeOK
<1>2. TypeOK'
  BY <1>0, <1>1 DEF TypeOK, NotifyOne
<1>3. \A t \in Tasks : Numbers(t) /\ Numbers(t)' /\ InSlots(t)' = InSlots(t)
  BY <1>0, <1>2, CountsType, CountsTypeNext, SameSlots
<1>4. ASSUME NEW t \in Tasks PROVE Unslotted(t)' = Unslotted(t) /\ Pending(t)' = Pending(t)
  <2>1. InHand(t)' = 0
    BY <1>0, EntryFacts DEF InHand, Carried
  <2>2. InQueue(t)' = InQueue(t)
    BY <1>0 DEF InQueue, Carriers, Bearers
  <2>3. InDeferred(t)' = InDeferred(t) + InHand(t)
    <3>1. InDeferred(t)' = Count(Append(deferred, u), Bearers(t))
      BY <1>0 DEF InDeferred, Bearers
    <3>2. Count(Append(deferred, u), Bearers(t))
            = Count(deferred, Bearers(t)) + (IF u \in Bearers(t) THEN 1 ELSE 0)
      BY <1>1, CountAppend
    <3>. QED BY <1>0, <3>1, <3>2, HandFacts DEF InDeferred
  <2>. HIDE DEF IInv, Defers
  <2>. QED BY <1>3, <2>1, <2>2, <2>3 DEF Numbers
<1>5. \A t \in Tasks : Unslotted(t) \in Nat /\ Pending(t) \in Nat
  BY <1>3 DEF Numbers
<1>6. Moves
  BY <1>0, <1>4, <1>5 DEF Moves, Replies
<1>7. \A t \in Tasks : Called(t)' <=> Called(t)
  BY <1>0, EntryFacts DEF Called, CancelOf
<1>8. Obeys
  BY <1>0, <1>7 DEF Obeys
<1>. QED BY <1>2, <1>6, <1>8

(* A task that finds room gets its slots: out of the hand, into the slots.   *)
LEMMA LaunchesStep ==
  ASSUME IInv, NEW u \in Tasks, hand = Run(u), Launches(u), LoopProcesses
  PROVE  TypeOK' /\ Moves /\ Obeys
<1>. USE DEF IInv
<1>. USE DEF readerVars, resultVars, queueVars
<1>0. /\ pc = "hand" /\ hand' = Nothing /\ pc' = "pop" /\ UNCHANGED <<env, todo, readerVars>>
      /\ UNCHANGED <<queueVars, resultVars, left>>
  BY DEF LoopProcesses, Launches
<1>1. PICK s \in Available(u) :
        /\ Fits(u, s)
        /\ task' = [x \in Slots |-> IF x = s THEN u
                                     ELSE IF x \in KidSlot(u, s) THEN CHOOSE k \in env.kids[u] : TRUE
                                     ELSE task[x]]
        /\ ready' = [ready EXCEPT ![s] = TRUE]
  BY DEF Launches
<1>2. /\ s \in Slots /\ task[s] = None
      /\ \/ env.kids[u] = {} /\ KidSlot(u, s) = {}
         \/ \E k \in Tasks, x \in Slots :
              /\ env.kids[u] = {k} /\ KidSlot(u, s) = {x}
              /\ k # u /\ ReaderOf[k] = ReaderOf[u] /\ x # s /\ task[x] = None
  BY <1>1, FitsFacts
<1>3. ASSUME NEW x \in Slots
      PROVE  /\ task'[x] \in {u} \cup env.kids[u] => task[x] = None
             /\ task'[x] \notin {u} \cup env.kids[u] => task'[x] = task[x]
             /\ task'[x] \in Tasks \cup {None}
             /\ \A y \in Slots : task'[x] \in {u} \cup env.kids[u] /\ task'[x] = task'[y] => x = y
  <2>1. CASE env.kids[u] = {} /\ KidSlot(u, s) = {}
    <3>1. \A y \in Slots : task'[y] = IF y = s THEN u ELSE task[y]
      BY <1>1, <2>1
    <3>2. \A y \in Slots : task[y] # u
      BY <1>0, HandFacts DEF Bearers
    <3>. QED BY <1>2, <2>1, <3>1, <3>2 DEF TypeOK
  <2>2. ASSUME NEW k \in Tasks, NEW z \in Slots,
               env.kids[u] = {k}, KidSlot(u, s) = {z}, k # u, z # s, task[z] = None
        PROVE  /\ task'[x] \in {u} \cup env.kids[u] => task[x] = None
               /\ task'[x] \notin {u} \cup env.kids[u] => task'[x] = task[x]
               /\ task'[x] \in Tasks \cup {None}
               /\ \A y \in Slots : task'[x] \in {u} \cup env.kids[u] /\ task'[x] = task'[y] => x = y
    <3>0. (CHOOSE c \in env.kids[u] : TRUE) = k
      BY <2>2
    <3>1. \A y \in Slots : task'[y] = IF y = s THEN u ELSE IF y = z THEN k ELSE task[y]
      BY <1>1, <2>2, <3>0
    <3>2. \A y \in Slots : task[y] # u /\ task[y] # k
      BY <1>0, <2>2, HandFacts DEF Bearers
    <3>. QED BY <1>2, <2>2, <3>1, <3>2 DEF TypeOK
  <2>. QED BY <1>2, <2>1, <2>2
<1>4. TypeOK'
  <2>1. DOMAIN task' = Slots /\ task' = [x \in Slots |-> task'[x]]
    BY <1>1
  <2>2. task' \in [Slots -> Tasks \cup {None}]
    BY <1>3, <2>1
  <2>3. ready' \in [Slots -> BOOLEAN]
    BY <1>1, <1>2 DEF TypeOK
  <2>. QED BY <1>0, <2>2, <2>3 DEF TypeOK
<1>5. \A t \in Tasks : Numbers(t) /\ Numbers(t)'
  BY <1>4, CountsType, CountsTypeNext
<1>6. ASSUME NEW t \in Tasks PROVE Unslotted(t)' = Unslotted(t) - InHand(t)
  <2>1. InHand(t)' = 0
    BY <1>0, EntryFacts DEF InHand, Carried
  <2>2. InQueue(t)' = InQueue(t) /\ InDeferred(t)' = InDeferred(t)
    BY <1>0 DEF InQueue, InDeferred, Carriers, Bearers
  <2>. QED BY <1>5, <2>1, <2>2 DEF Numbers
<1>7. ASSUME NEW t \in Tasks PROVE InSlots(t)' = InSlots(t) + InHand(t)
  <2>1. CASE u \in Bearers(t)
    <3>1. t \in {u} \cup env.kids[u] /\ InHand(t) = 1
      BY <1>0, <2>1, HandFacts
    <3>2. \E x \in Slots : task'[x] = t
      <4>1. CASE t = u
        BY <1>1, <1>2, <4>1
      <4>2. CASE t # u
        <5>1. PICK x \in Slots : env.kids[u] = {t} /\ KidSlot(u, s) = {x} /\ x # s
          BY <1>2, <3>1, <4>2
        <5>2. (CHOOSE c \in env.kids[u] : TRUE) = t
          BY <5>1
        <5>3. task'[x] = t
          BY <1>1, <5>1, <5>2
        <5>. QED BY <5>3
      <4>. QED BY <4>1, <4>2
    <3>3. PICK x \in Slots : task'[x] = t
      BY <3>2
    <3>4. Held(t)' = {x}
      BY <1>0, <1>3, <3>1, <3>3 DEF Held
    <3>5. Held(t) = {}
      BY <1>0, <2>1, HandFacts DEF Held
    <3>6. InSlots(t)' = 1
      <4>1. Numbers(t)'
        BY <1>5
      <4>. QED BY <3>4, <4>1 DEF Numbers
    <3>7. InSlots(t) = 0
      <4>1. Numbers(t)
        BY <1>5
      <4>. QED BY <3>5, <4>1 DEF Numbers
    <3>. QED BY <3>1, <3>6, <3>7
  <2>2. CASE u \notin Bearers(t)
    <3>1. t \notin {u} \cup env.kids[u] /\ InHand(t) = 0
      BY <1>0, <2>2, HandFacts
    <3>2. \A x \in Slots : task'[x] = t <=> task[x] = t
      BY <1>3, <3>1
    <3>3. Held(t)' = Held(t)
      BY <1>0, <3>2 DEF Held
    <3>4. InSlots(t)' = InSlots(t)
      BY <3>3 DEF InSlots
    <3>. QED BY <1>5, <3>1, <3>4 DEF Numbers
  <2>. QED BY <2>1, <2>2
<1>8. \A t \in Tasks : /\ Pending(t)' = Pending(t) /\ Unslotted(t)' <= Unslotted(t)
                       /\ Pending(t) \in Nat
  BY <1>5, <1>6, <1>7 DEF Numbers
<1>9. \A x \in Slots, t \in Tasks : task'[x] = t => task[x] = t \/ Unslotted(t) > 0
  BY <1>0, <1>3, HandFacts
<1>10. Moves
  BY <1>0, <1>8, <1>9 DEF Moves, Replies
<1>11. \A t \in Tasks : Called(t)' <=> Called(t)
  BY <1>0, EntryFacts DEF Called, CancelOf
<1>12. Obeys
  BY <1>0, <1>11 DEF Obeys
<1>. QED BY <1>4, <1>10, <1>12

(* A failed launch: the task in hand and its child are gone, one of them    *)
(* with an error.                                                           *)
LEMMA LaunchFailsStep ==
  ASSUME IInv, NEW u \in Tasks, hand = Run(u), LaunchFails(u), LoopProcesses
  PROVE  TypeOK' /\ Moves /\ Obeys
<1>. USE DEF IInv
<1>. USE DEF readerVars, slotVars
<1>0. /\ pc = "hand" /\ hand' = Nothing /\ pc' = "pop" /\ UNCHANGED <<env, todo, readerVars>>
      /\ UNCHANGED <<running, sleeping, wake, slotVars>>
  BY DEF LoopProcesses, LaunchFails
<1>1. PICK s \in Available(u), k \in {u} \cup env.kids[u] :
        /\ Fits(u, s) /\ Send(k, "error")
        /\ IF k = u /\ env.kids[u] # {}
             THEN (\A x \in KidSlot(u, s) : PopDeferred(x)) /\ NotifyOne
             ELSE UNCHANGED <<queue, deferred, blocked>>
  BY DEF LaunchFails
<1>2. k \in Tasks /\ \A t \in {u} \cup env.kids[u] : ReaderOf[t] = ReaderOf[k]
  BY EnvFacts
<1>3. \/ UNCHANGED <<queue, deferred, blocked>>
      \/ \E x \in Slots : PopDeferred(x) /\ NotifyOne
  BY <1>1, FitsFacts
<1>4. /\ queue' \in Seq(Entries) /\ deferred' \in Seq(Tasks)
      /\ \A t \in Tasks : InQueue(t)' + InDeferred(t)' = InQueue(t) + InDeferred(t)
      /\ \A x : (\A t : x # Run(t)) => (Has(queue', x) <=> Has(queue, x))
  <2>1. CASE UNCHANGED <<queue, deferred, blocked>>
    BY <1>0, <2>1 DEF TypeOK, InQueue, InDeferred, Carriers, Bearers
  <2>2. CASE \E x \in Slots : PopDeferred(x) /\ NotifyOne
    BY <1>0, <2>2, PopFacts
  <2>. QED BY <1>3, <2>1, <2>2
<1>5. /\ results' \in Seq(Answers) /\ waiting' = waiting
      /\ k \in waiting => Reply(k, "error")
      /\ k \notin waiting => results' = results
  BY <1>1, <1>2, SendFacts DEF Kinds, Reply
<1>6. TypeOK'
  <2>1. blocked' \subseteq Readers \cup {Loop}
    BY <1>3 DEF TypeOK, NotifyOne
  <2>. QED BY <1>0, <1>4, <1>5, <2>1 DEF TypeOK
<1>7. \A t \in Tasks : Numbers(t) /\ Numbers(t)' /\ InSlots(t)' = InSlots(t)
  BY <1>0, <1>6, CountsType, CountsTypeNext, SameSlots
<1>8. ASSUME NEW t \in Tasks
      PROVE  Unslotted(t)' = Unslotted(t) - InHand(t) /\ Pending(t)' = Pending(t) - InHand(t)
  <2>1. InHand(t)' = 0
    BY <1>0, EntryFacts DEF InHand, Carried
  <2>. HIDE DEF IInv
  <2>2. InQueue(t)' + InDeferred(t)' = InQueue(t) + InDeferred(t) /\ InSlots(t)' = InSlots(t)
    BY <1>4, <1>7
  <2>3. Numbers(t) /\ Numbers(t)'
    BY <1>7
  <2>. QED BY <2>1, <2>2, <2>3 DEF Numbers
<1>9. \A t \in Tasks : /\ Unslotted(t) \in Nat /\ Pending(t) \in Nat /\ InHand(t) \in {0, 1}
                       /\ InHand(t) # 0 => t \in {u} \cup env.kids[u]
                       /\ t \in {u} \cup env.kids[u] => Pending(t) = 1 /\ InHand(t) = 1
  BY <1>0, <1>7, HandFacts DEF Numbers
<1>10. Replies
  <2>1. Pending(k) = 1 /\ Pending(k)' = 0 /\ "error" \in Kinds
    BY <1>2, <1>8, <1>9 DEF Kinds
  <2>. HIDE DEF IInv
  <2>. QED BY <1>2, <1>5, <2>1 DEF Replies
<1>11. ASSUME NEW t \in Tasks, Pending(t)' # Pending(t) PROVE Accounted(t)
  <2>1. t \in {u} \cup env.kids[u]
    BY <1>8, <1>9, <1>11
  <2>2. ReaderOf[t] = ReaderOf[k]
    BY <1>2, <2>1
  <2>3. k \notin waiting => t \notin waiting
    BY <1>2, <2>2 DEF ResultInv, Where
  <2>. QED BY <1>2, <1>5, <2>2, <2>3 DEF Accounted
<1>12. Moves
  <2>1. \A t \in Tasks : Pending(t)' <= Pending(t) /\ Unslotted(t)' <= Unslotted(t)
    BY <1>8, <1>9
  <2>. HIDE DEF IInv
  <2>. QED BY <1>0, <1>5, <1>10, <1>11, <2>1 DEF Moves
<1>13. ASSUME NEW t PROVE Called(t)' <=> Called(t)
  <2>1. \A v : CancelOf(t) # Run(v)
    BY EntryFacts
  <2>2. Has(queue', CancelOf(t)) <=> Has(queue, CancelOf(t))
    BY <1>4, <2>1
  <2>3. CancelOf(t)' = CancelOf(t) /\ hand # CancelOf(t) /\ hand' # CancelOf(t)
    BY <1>0, EntryFacts DEF CancelOf
  <2>. QED BY <2>2, <2>3 DEF Called
<1>14. Obeys
  BY <1>0, <1>13 DEF Obeys
<1>. QED BY <1>6, <1>12, <1>14

(* A cancel: the slot of the task, if it has one, is given back. *)
LEMMA CancelsStep ==
  ASSUME IInv, NEW u \in Tasks, hand = CancelOf(u), Cancels(u), LoopProcesses
  PROVE  TypeOK' /\ Moves /\ Obeys
<1>. USE DEF IInv
<1>. USE DEF readerVars, resultVars, slotVars, queueVars
<1>0. /\ pc = "hand" /\ hand' = Nothing /\ pc' = "pop" /\ UNCHANGED <<env, todo, readerVars>>
      /\ UNCHANGED resultVars
  BY DEF LoopProcesses, Cancels
<1>1. Where(u) = "gone" /\ u \notin waiting
  BY DEF CancelInv, ResultInv
<1>2. \/ \E s \in Slots : task[s] = u /\ Release(s)
      \/ (\A s \in Slots : task[s] # u) /\ UNCHANGED <<queueVars, slotVars>>
  BY DEF Cancels
<1>3. /\ queue' \in Seq(Entries) /\ deferred' \in Seq(Tasks)
      /\ \A t \in Tasks : InQueue(t)' + InDeferred(t)' = InQueue(t) + InDeferred(t)
      /\ \A x : (\A t : x # Run(t)) => (Has(queue', x) <=> Has(queue, x))
  <2>1. CASE UNCHANGED <<queueVars, slotVars>>
    BY <1>0, <2>1 DEF TypeOK, InQueue, InDeferred, Carriers, Bearers
  <2>2. CASE \E s \in Slots : Release(s)
    BY <1>0, <2>2, PopFacts DEF Release
  <2>. QED BY <1>2, <2>1, <2>2
<1>4. TypeOK'
  <2>1. CASE UNCHANGED <<queueVars, slotVars>>
    BY <1>0, <2>1 DEF TypeOK
  <2>2. CASE \E s \in Slots : Release(s)
    BY <1>0, <1>3, <2>2 DEF TypeOK, Release, NotifyOne
  <2>. QED BY <1>2, <2>1, <2>2
<1>5. \A t \in Tasks : Numbers(t) /\ Numbers(t)'
  BY <1>4, CountsType, CountsTypeNext
<1>6. \A t \in Tasks : InHand(t) = 0 /\ InHand(t)' = 0
  BY <1>0, EntryFacts DEF InHand, Carried
<1>7. \A t \in Tasks : Unslotted(t)' = Unslotted(t) /\ Unslotted(t) \in Nat
  BY <1>3, <1>5, <1>6 DEF Numbers
<1>8. /\ \A x \in Slots : task'[x] # u
      /\ \A x \in Slots, t \in Tasks : t # u => (task'[x] = t <=> task[x] = t)
  <2>1. CASE (\A s \in Slots : task[s] # u) /\ UNCHANGED <<queueVars, slotVars>>
    BY <2>1
  <2>2. ASSUME NEW s \in Slots, task[s] = u, Release(s)
        PROVE  /\ \A x \in Slots : task'[x] # u
               /\ \A x \in Slots, t \in Tasks : t # u => (task'[x] = t <=> task[x] = t)
    <3>1. \A x \in Slots : task'[x] = IF x = s THEN None ELSE task[x]
      BY <2>2 DEF Release, TypeOK
    <3>2. \A x, y \in Held(u) : x = y
      BY <1>5 DEF PlaceInv, PlaceOf, Numbers
    <3>3. \A x \in Slots : task[x] = u => x = s
      BY <1>0, <2>2, <3>2 DEF Held
    <3>. QED BY <2>2, <3>1, <3>3
  <2>. QED BY <1>2, <2>1, <2>2
<1>9. ASSUME NEW t \in Tasks, t # u PROVE Pending(t)' = Pending(t) /\ Pending(t) \in Nat
  <2>1. Held(t)' = Held(t)
    BY <1>0, <1>8, <1>9 DEF Held
  <2>2. InSlots(t)' = InSlots(t)
    BY <2>1 DEF InSlots
  <2>. QED BY <1>5, <1>7, <2>2 DEF Numbers
<1>10. Pending(u)' <= Pending(u)
  <2>1. Held(u)' = {}
    BY <1>8 DEF Held
  <2>2. InSlots(u)' = 0
    <3>1. Numbers(u)'
      BY <1>5
    <3>. QED BY <2>1, <3>1 DEF Numbers
  <2>. QED BY <1>5, <1>7, <2>2 DEF Numbers
<1>11. Moves
  <2>1. \A t \in Tasks : Pending(t)' <= Pending(t)
    BY <1>9, <1>10
  <2>2. \A t \in Tasks : Pending(t)' # Pending(t) => Accounted(t)
    BY <1>1, <1>9 DEF Accounted
  <2>3. \A x \in Slots, t \in Tasks : task'[x] = t => task[x] = t
    BY <1>8
  <2>. HIDE DEF IInv
  <2>. QED BY <1>0, <1>7, <2>1, <2>2, <2>3 DEF Moves, Replies
<1>12. ASSUME NEW t PROVE /\ Called(t)' => Called(t)
                          /\ t # u => (Called(t)' <=> Called(t))
  <2>1. \A v : CancelOf(t) # Run(v)
    BY EntryFacts
  <2>2. Has(queue', CancelOf(t)) <=> Has(queue, CancelOf(t))
    BY <1>3, <2>1
  <2>3. CancelOf(t)' = CancelOf(t) /\ (t # u => hand # CancelOf(t)) /\ hand' # CancelOf(t)
    BY <1>0, EntryFacts DEF CancelOf
  <2>. QED BY <2>2, <2>3 DEF Called
<1>13. Obeys
  BY <1>0, <1>8, <1>12 DEF Obeys
<1>. QED BY <1>4, <1>11, <1>13

(* Whatever it has in hand. *)
LEMMA ProcessesStep ==
  ASSUME IInv, LoopProcesses
  PROVE  TypeOK' /\ Moves /\ Obeys /\ LoopInv'
<1>. USE DEF IInv
<1>0. /\ pc = "hand" /\ hand' = Nothing /\ pc' = "pop" /\ UNCHANGED <<env, todo, readerVars>>
      /\ hand \in Entries \cup {Nothing}
  BY DEF LoopProcesses, TypeOK
<1>1. LoopInv'
  BY <1>0 DEF LoopInv
<1>2. CASE hand.type = "run"
  <2>1. PICK u \in Tasks : hand = Run(u) /\ hand.id = u
    BY <1>0, <1>2, EntryFacts DEF Entries
  <2>2. Defers(u) \/ Launches(u) \/ LaunchFails(u)
    BY <1>2, <2>1 DEF LoopProcesses
  <2>. QED BY <1>1, <2>1, <2>2, DefersStep, LaunchesStep, LaunchFailsStep
<1>3. CASE hand.type = "cancel"
  <2>1. PICK u \in Tasks : hand = CancelOf(u) /\ hand.id = u
    BY <1>0, <1>3, EntryFacts DEF Entries
  <2>2. Cancels(u)
    BY <1>3, <2>1 DEF LoopProcesses
  <2>. QED BY <1>1, <2>1, <2>2, CancelsStep
<1>4. CASE hand.type = "next"
  <2>1. UNCHANGED <<queueVars, resultVars, slotVars>>
    BY <1>4 DEF LoopProcesses
  <2>2. TypeOK'
    BY <1>0, <2>1 DEF TypeOK, queueVars, resultVars, slotVars, readerVars
  <2>3. \A t : hand # CancelOf(t) /\ hand' # CancelOf(t)
    BY <1>0, <1>4, EntryFacts
  <2>4. \A t \in Tasks : InHand(t) = 0 /\ InHand(t)' = 0
    BY <1>0, <1>4, EntryFacts DEF InHand, Carried
  <2>5. \A t \in Tasks : Numbers(t) /\ Numbers(t)' /\ InSlots(t)' = InSlots(t)
    BY <1>0, <2>1, <2>2, CountsType, CountsTypeNext, SameSlots DEF slotVars
  <2>6. \A t \in Tasks : InQueue(t)' = InQueue(t) /\ InDeferred(t)' = InDeferred(t)
    BY <1>0, <2>1 DEF queueVars, InQueue, InDeferred, Carriers, Bearers
  <2>7. \A t \in Tasks : /\ Pending(t)' = Pending(t) /\ Pending(t) \in Nat
                         /\ Unslotted(t)' = Unslotted(t) /\ Unslotted(t) \in Nat
    BY <2>4, <2>5, <2>6 DEF Numbers
  <2>8. \A t \in Tasks : Called(t)' <=> Called(t)
    BY <2>1, <2>3 DEF Called, queueVars, CancelOf
  <2>9. Moves /\ Obeys
    BY <1>0, <2>1, <2>7, <2>8 DEF Moves, Replies, Obeys, resultVars, slotVars, readerVars
  <2>. QED BY <1>1, <2>2, <2>9
<1>. QED BY <1>2, <1>3, <1>4 DEF LoopProcesses

(* Every step of the loop moves tasks as said, and obeys the cancels. *)
LEMMA LoopMoves ==
  ASSUME IInv, LoopStep \/ LoopSleeps
  PROVE  TypeOK' /\ Moves /\ Obeys /\ LoopInv'
<1>1. CASE \/ LoopDrained \/ LoopEnds \/ LoopUpdated \/ LoopGoesOn \/ LoopSleeps \/ LoopWakes
           \/ \E s \in Slots : SlotWorks(s) \/ SlotWaits(s)
  BY <1>1, QuietLoop
<1>2. CASE LoopTakes
  BY <1>2, TakesStep
<1>3. CASE LoopProcesses
  BY <1>3, ProcessesStep
<1>4. CASE LoopUpdates
  BY <1>4, UpdatesStep
<1>5. CASE SlotReleases
  BY <1>5, ReleasesStep
<1>6. CASE \E s \in Slots : SlotSends(s)
  BY <1>6, SendsStep
<1>7. CASE \E s \in Slots : SlotEnds(s)
  BY <1>7, EndsStep
<1>. QED BY <1>1, <1>2, <1>3, <1>4, <1>5, <1>6, <1>7 DEF LoopStep

(* So the loop preserves the invariant. *)
LEMMA LoopPreserves ==
  ASSUME IInv, LoopStep \/ LoopSleeps
  PROVE  IInv'
<1>1. TypeOK' /\ Moves /\ Obeys /\ LoopInv'
  BY LoopMoves
<1>2. ResultInv' /\ PlaceInv' /\ CancelInv'
  BY <1>1, MovesResults, MovesPlaces, MovesCancels
<1>. QED BY <1>1, <1>2 DEF IInv

-----------------------------------------------------------------------------
(* The requests' threads, and the signal that ends the server.             *)

(* Where tasks are does not change when the queues, the hand and the slots  *)
(* do not.                                                                  *)
LEMMA SameTasks ==
  ASSUME IInv, UNCHANGED <<env, queue, deferred, slotVars, loopVars>>
  PROVE  /\ \A t \in Tasks : /\ Unslotted(t)' = Unslotted(t) /\ InSlots(t)' = InSlots(t)
                             /\ Pending(t)' = Pending(t) /\ Called(t)' = Called(t)
         /\ Now' = Now
         /\ LoopInv'
<1>. USE DEF slotVars, loopVars
<1>1. \A t \in Tasks : Unslotted(t)' = Unslotted(t) /\ Called(t)' = Called(t)
  BY SameUnslotted
<1>2. Now' = Now
  BY DEF Now
<1>3. \A t \in Tasks : InSlots(t)' = InSlots(t)
  BY <1>2 DEF InSlots, Held
<1>4. LoopInv'
  BY DEF IInv, LoopInv, Idle, Has
<1>. QED BY <1>1, <1>2, <1>3, <1>4 DEF Pending

(* Steps that only move requests on: before the tasks are posted, or to the *)
(* end; a request that is gone in one step has received everything.         *)
Advances(t) ==
  \/ Where(t)' = Where(t)
  \/ Where(t) \in Early /\ Where(t)' \in Early
  \/ Where(t) \in {"recv", "stop"} /\ Where(t)' \in {"stop", "cancel"}
  \/ Where(t) \in {"recv", "stop"} /\ Where(t)' = "gone" /\ t \in got

(* Such a step preserves the invariant. *)
LEMMA AdvancesStep ==
  ASSUME IInv, TypeOK', UNCHANGED <<env, queue, deferred, results, slotVars, loopVars, got, missed>>,
         \A t \in Tasks : Advances(t),
         waiting' = {t \in Tasks : Where(t)' \in {"added", "recv", "stop"}}
  PROVE  IInv'
<1>. USE DEF slotVars
<1>1. /\ \A t \in Tasks : /\ Unslotted(t)' = Unslotted(t) /\ Pending(t)' = Pending(t)
                          /\ Called(t)' = Called(t) /\ InResults(t)' = InResults(t)
      /\ Now' = Now /\ LoopInv' /\ pc' = pc
  BY SameTasks DEF InResults, loopVars
<1>2. \A t \in Tasks : Numbers(t) /\ PlaceOf(t)
  BY CountsType DEF IInv, PlaceInv
<1>3. TypeOK /\ ResultInv /\ CancelInv
  BY DEF IInv
<1>4. \A t \in Tasks : HasError(ReaderOf[t])' = HasError(ReaderOf[t])
  BY DEF HasError, Mine
<1>5. PlaceInv'
  <2>1. ASSUME NEW t \in Tasks PROVE PlaceOf(t)'
    BY <1>1, <1>2, <1>4 DEF PlaceOf, Advances, Early
  <2>. QED BY <2>1 DEF PlaceInv
<1>6. ResultInv'
  <2>1. (\A i \in DOMAIN results :
          Where(results[i].id) \in {"recv", "stop", "cancel"} /\ results[i].id \notin got)'
    <3>1. ASSUME NEW i \in DOMAIN results
          PROVE  Where(results[i].id)' \in {"recv", "stop", "cancel"} /\ results[i].id \notin got
      <4>1. PICK t \in Tasks : t = results[i].id
        BY <1>3, ResultFacts
      <4>2. Where(t) \in {"recv", "stop", "cancel"} /\ t \notin got
        BY <1>3, <4>1 DEF ResultInv
      <4>. QED BY <4>1, <4>2 DEF Advances, Early, Where
    <3>. QED BY <3>1
  <2>2. (\A i, j \in DOMAIN results :
          i < j /\ results[i].id = results[j].id => results[i].kind = "partial")'
    BY <1>3 DEF ResultInv
  <2>3. (\A i \in DOMAIN results, t \in Tasks : results[i] = Failure(t) => Pending(t) = 0)'
    BY <1>1, <1>3 DEF ResultInv, Failure
  <2>. QED BY <2>1, <2>2, <2>3 DEF ResultInv, Where
<1>7. CancelInv'
  <2>1. \A t \in Tasks : Where(t) = "gone" => Where(t)' = "gone"
    BY DEF Advances, Early
  <2>2. \A t \in Tasks : Where(t)' = "gone" => Where(t) = "gone" \/ Pending(t) = 0
    BY <1>2 DEF Advances, Early, PlaceOf
  <2>3. \A t \in Tasks : Called(t)' => Where(t)' = "gone"
    BY <1>1, <1>3, <2>1 DEF Called, CancelInv
  <2>4. \A t \in Tasks : Where(t)' = "gone" /\ t \notin missed' => Unslotted(t)' = 0
    BY <1>1, <1>2, <1>3, <2>2 DEF Numbers, CancelInv
  <2>5. ASSUME NEW s \in Slots, task[s] # None, Where(task[s])' = "gone", task[s] \notin missed
        PROVE  (pc = "release" /\ s = Now) \/ Called(task[s])
    <3>1. PICK t \in Tasks : t = task[s]
      BY <1>3, <2>5 DEF TypeOK
    <3>2. CASE Where(t) = "gone"
      BY <1>3, <2>5, <3>1, <3>2 DEF CancelInv, WorksForSomeone, Called, Has, Where
    <3>3. CASE Pending(t) = 0
      <4>1. Held(t) = {}
        BY <1>2, <3>3 DEF Numbers
      <4>. QED BY <3>1, <4>1 DEF Held
    <3>4. Where(t)' = "gone"
      BY <2>5, <3>1 DEF Where
    <3>. QED BY <2>2, <3>1, <3>2, <3>3, <3>4
  <2>6. WorksForSomeone'
    BY <1>1, <2>5 DEF WorksForSomeone, Called, Has, Where, loopVars
  <2>. QED BY <2>3, <2>4, <2>6 DEF CancelInv, Called
<1>. QED BY <1>1, <1>5, <1>6, <1>7 DEF IInv

(* Nothing changes but who is awake. *)
LEMMA TerminateStep ==
  ASSUME IInv, Terminate \/ UNCHANGED vars
  PROVE  IInv'
<1>. USE DEF Terminate, vars, queueVars, resultVars, slotVars, loopVars, readerVars
<1>1. TypeOK'
  BY DEF IInv, TypeOK
<1>2. \A t \in Tasks : Advances(t)
  BY DEF Advances, Where
<1>3. waiting' = {t \in Tasks : Where(t)' \in {"added", "recv", "stop"}}
  BY DEF IInv, ResultInv, Where
<1>. QED BY <1>1, <1>2, <1>3, AdvancesStep

(* The steps of a request that move it on and do nothing else. *)
LEMMA WaitsStep ==
  ASSUME IInv, NEW r \in Readers, ReaderStarts(r) \/ ReaderWakes(r)
  PROVE  IInv'
<1>. USE DEF ReaderStarts, ReaderWakes, resultVars, slotVars, loopVars
<1>1. reader \in [Readers -> Stages]
  BY DEF IInv, TypeOK, Stages, Early
<1>2. /\ UNCHANGED <<env, queue, deferred, running, sleeping, resultVars, slotVars, loopVars, got, missed>>
      /\ wake' \in BOOLEAN /\ blocked' \subseteq Readers \cup {Loop}
      /\ \/ reader' = reader
         \/ /\ reader[r] \in {"start", "parked"}
            /\ \/ reader' = [reader EXCEPT ![r] = "begun"]
               \/ reader' = [reader EXCEPT ![r] = "parked"]
  <2>1. wake \in BOOLEAN /\ blocked \subseteq Readers \cup {Loop}
    BY DEF IInv, TypeOK
  <2>2. CASE ReaderStarts(r)
    BY <2>1, <2>2, Zenon
  <2>3. CASE ReaderWakes(r)
    BY <2>1, <2>3, Zenon
  <2>. QED BY <2>2, <2>3
<1>3. TypeOK'
  BY <1>1, <1>2 DEF IInv, TypeOK
<1>4. \A t \in Tasks : ReaderOf[t] \in Readers
  OBVIOUS
<1>5. \A t \in Tasks : Where(t)' = Where(t) \/ (Where(t) \in {"start", "parked"} /\ Where(t)' \in {"begun", "parked"})
  BY <1>1, <1>2, <1>4 DEF Where
<1>6. waiting' = {t \in Tasks : Where(t)' \in {"added", "recv", "stop"}}
  BY <1>2, <1>5 DEF IInv, ResultInv
<1>. QED BY <1>2, <1>3, <1>5, <1>6, AdvancesStep DEF Advances, Early

(* The results of its tasks are waited for from now on. *)
LEMMA AwaitsStep ==
  ASSUME IInv, NEW r \in Readers, ReaderAwaits(r)
  PROVE  IInv'
<1>. USE DEF ReaderAwaits, queueVars, slotVars, loopVars
<1>1. reader \in [Readers -> Stages] /\ \A t \in Tasks : ReaderOf[t] \in Readers
  BY DEF IInv, TypeOK, Stages, Early
<1>2. TypeOK'
  BY DEF IInv, TypeOK, TasksOf
<1>3. \A t \in Tasks : IF t \in TasksOf(r) THEN Where(t) = "begun" /\ Where(t)' = "added"
                                            ELSE Where(t)' = Where(t)
  BY <1>1 DEF Where, TasksOf
<1>4. waiting' = {t \in Tasks : Where(t)' \in {"added", "recv", "stop"}}
  BY <1>3 DEF IInv, ResultInv, TasksOf
<1>. QED BY <1>2, <1>3, <1>4, AdvancesStep DEF Advances, Early

(* The client went away, or the server ends. *)
LEMMA LeavesStep ==
  ASSUME IInv, NEW r \in Readers, ReaderLeaves(r)
  PROVE  IInv'
<1>. USE DEF ReaderLeaves, queueVars, resultVars, slotVars, loopVars
<1>1. reader \in [Readers -> Stages] /\ \A t \in Tasks : ReaderOf[t] \in Readers
  BY DEF IInv, TypeOK, Stages, Early
<1>2. TypeOK'
  BY DEF IInv, TypeOK
<1>3. \A t \in Tasks : IF t \in TasksOf(r) THEN Where(t) = "recv" /\ Where(t)' = "stop"
                                            ELSE Where(t)' = Where(t)
  BY <1>1 DEF Where, TasksOf
<1>4. waiting' = {t \in Tasks : Where(t)' \in {"added", "recv", "stop"}}
  BY <1>3 DEF IInv, ResultInv
<1>. QED BY <1>2, <1>3, <1>4, AdvancesStep DEF Advances

(* Nobody waits for the results of its tasks any more. *)
LEMMA StopsStep ==
  ASSUME IInv, NEW r \in Readers, ReaderStops(r)
  PROVE  IInv'
<1>. USE DEF ReaderStops, queueVars, slotVars, loopVars
<1>1. reader \in [Readers -> Stages] /\ \A t \in Tasks : ReaderOf[t] \in Readers
  BY DEF IInv, TypeOK, Stages, Early
<1>2. TypeOK'
  BY DEF IInv, TypeOK
<1>3. \A t \in Tasks :
        IF t \in TasksOf(r)
        THEN Where(t) \in {"recv", "stop"} /\ (Where(t)' = "cancel" \/ (Where(t)' = "gone" /\ t \in got))
        ELSE Where(t)' = Where(t)
  BY <1>1 DEF Where, TasksOf
<1>4. waiting' = {t \in Tasks : Where(t)' \in {"added", "recv", "stop"}}
  BY <1>3 DEF IInv, ResultInv
<1>. QED BY <1>2, <1>3, <1>4, AdvancesStep DEF Advances

(* Among the tasks a request posts, each of its tasks travels once: as      *)
(* itself, or inside the one parent it has.                                 *)
LEMMA OneBearer ==
  ASSUME TypeOK, NEW r \in Readers, NEW t \in TasksOf(r)
  PROVE  \E b \in TasksOf(r) \ Children : Bearers(t) \cap (TasksOf(r) \ Children) = {b}
<1>1. EnvOk(env)
  BY DEF TypeOK
<1>2. t \in Tasks /\ ReaderOf[t] = r
  BY DEF TasksOf
<1>3. CASE t \notin Children
  <2>1. \A u \in Tasks : t \notin env.kids[u]
    BY <1>3 DEF Children
  <2>2. Bearers(t) = {t}
    BY <1>2, <2>1 DEF Bearers
  <2>. QED BY <1>3, <2>2
<1>4. CASE t \in Children
  <2>1. PICK p \in Tasks : t \in env.kids[p]
    BY <1>4 DEF Children
  <2>2. \A u \in Tasks : t \in env.kids[u] => u = p
    BY <1>1, <2>1 DEF EnvOk
  <2>3. Bearers(t) = {t, p}
    BY <1>2, <2>1, <2>2 DEF Bearers
  <2>4. p \in TasksOf(r)
    BY <1>1, <1>2, <2>1 DEF EnvOk, TasksOf
  <2>5. p \notin Children
    <3>1. ASSUME NEW u \in Tasks, p \in env.kids[u] PROVE FALSE
      BY <1>1, <2>1, <3>1 DEF EnvOk
    <3>. QED BY <3>1 DEF Children
  <2>. QED BY <1>4, <2>3, <2>4, <2>5
<1>. QED BY <1>3, <1>4

(* What is posted: entries, each task of the request counted once, no other *)
(* task and nothing else.                                                   *)
Posted(ids) == [i \in 1..Cardinality(ids) |-> Run(SetToSeq(ids)[i])]

(* PostTasks puts these entries behind the others. *)
LEMMA PostedFacts ==
  ASSUME TypeOK, NEW r \in Readers
  PROVE  LET u == Posted(TasksOf(r) \ Children) IN
         /\ u \in Seq(Entries)
         /\ \A t \in Tasks : Count(u, Carriers(t)) = IF t \in TasksOf(r) THEN 1 ELSE 0
         /\ \A x : (\A t : x # Run(t)) => ~Has(u, x)
<1>. DEFINE ids == TasksOf(r) \ Children
            n == Cardinality(ids)
            e == SetToSeq(ids)
            u == Posted(ids)
<1>1. IsFiniteSet(ids)
  BY FS_Subset
<1>2. /\ n \in Nat /\ e \in [1..n -> ids]
      /\ \A x \in ids : \E i \in 1..n : e[i] = x
      /\ \A i, j \in 1..n : e[i] = e[j] => i = j
  BY <1>1, SetAsSeq
<1>. HIDE DEF e, n
<1>3. u = [i \in 1..n |-> Run(e[i])]
  BY DEF Posted, e, n
<1>4. ids \subseteq Tasks
  BY DEF TasksOf
<1>. HIDE DEF ids, u
<1>5. u \in Seq(Entries) /\ DOMAIN u = 1..n /\ \A i \in 1..n : u[i] = Run(e[i])
  <2>1. \A i \in 1..n : Run(e[i]) \in Entries
    BY <1>2, <1>4 DEF Entries
  <2>. QED BY <1>2, <1>3, <2>1
<1>6. ASSUME NEW t \in Tasks PROVE At(u, Carriers(t)) = {i \in 1..n : e[i] \in Bearers(t)}
  BY <1>5, EntryFacts DEF At, Carriers
<1>7. ASSUME NEW t \in Tasks PROVE Count(u, Carriers(t)) = IF t \in TasksOf(r) THEN 1 ELSE 0
  <2>1. CASE t \in TasksOf(r)
    <3>1. PICK b \in ids : Bearers(t) \cap ids = {b}
      BY <2>1, OneBearer DEF ids
    <3>2. PICK i \in 1..n : e[i] = b
      BY <1>2, <3>1
    <3>3. At(u, Carriers(t)) = {i}
      BY <1>2, <1>6, <3>1, <3>2
    <3>. QED BY <2>1, <3>3, FS_Singleton DEF Count
  <2>2. CASE t \notin TasksOf(r)
    <3>1. \A b \in Bearers(t) : b \notin ids
      BY <2>2, EnvFacts DEF Bearers, TasksOf, ids
    <3>2. At(u, Carriers(t)) = {}
      BY <1>2, <1>6, <3>1
    <3>. QED BY <2>2, <3>2, FS_EmptySet DEF Count
  <2>. QED BY <2>1, <2>2
<1>8. ASSUME NEW x, \A t : x # Run(t) PROVE ~Has(u, x)
  BY <1>5, <1>8 DEF Has
<1>. QED BY <1>5, <1>7, <1>8 DEF u, ids

(* A request posts its tasks: each of them is on the queue now, once. *)
LEMMA PostsStep ==
  ASSUME IInv, NEW r \in Readers, ReaderPosts(r)
  PROVE  IInv'
<1>. DEFINE u == Posted(TasksOf(r) \ Children)
<1>1. /\ reader[r] = "added" /\ queue' = queue \o u /\ NotifyOne
      /\ reader' = [reader EXCEPT ![r] = "recv"]
      /\ UNCHANGED <<env, deferred, running, sleeping, wake, resultVars, slotVars, loopVars, got, missed>>
  BY DEF ReaderPosts, PostTasks, Posted
<1>2. /\ u \in Seq(Entries)
      /\ \A t \in Tasks : Count(u, Carriers(t)) = IF t \in TasksOf(r) THEN 1 ELSE 0
      /\ \A x : (\A t : x # Run(t)) => ~Has(u, x)
  BY PostedFacts DEF IInv
<1>3. /\ queue \in Seq(Entries) /\ reader \in [Readers -> Stages]
      /\ \A t \in Tasks : ReaderOf[t] \in Readers
  BY DEF IInv, TypeOK, Stages, Early
<1>. HIDE DEF u
<1>4. TypeOK'
  <2>1. queue' \in Seq(Entries)
    BY <1>1, <1>2, <1>3
  <2>2. blocked' \subseteq Readers \cup {Loop}
    BY <1>1 DEF NotifyOne, IInv, TypeOK
  <2>3. reader' \in [Readers -> {"start", "parked", "begun", "added", "recv", "stop", "cancel", "gone"}]
    BY <1>1 DEF IInv, TypeOK
  <2>. QED BY <1>1, <2>1, <2>2, <2>3 DEF IInv, TypeOK, resultVars, slotVars, loopVars
<1>5. /\ \A X : Count(queue', X) = Count(queue, X) + Count(u, X)
      /\ \A x : (\A t : x # Run(t)) => (Has(queue', x) <=> Has(queue, x))
  <2>1. ASSUME NEW X PROVE Count(queue', X) = Count(queue, X) + Count(u, X)
    BY <1>1, <1>2, <1>3, CountConcat
  <2>2. ASSUME NEW x, \A t : x # Run(t) PROVE Has(queue', x) <=> Has(queue, x)
    BY <1>1, <1>2, <1>3, <2>2, HasConcat
  <2>. QED BY <2>1, <2>2
<1>6. \A t \in Tasks : IF t \in TasksOf(r) THEN Where(t) = "added" /\ Where(t)' = "recv"
                                            ELSE Where(t)' = Where(t)
  BY <1>1, <1>3 DEF Where, TasksOf
<1>7. \A t \in Tasks : Numbers(t) /\ PlaceOf(t) /\ Numbers(t)'
  BY <1>4, CountsType, CountsTypeNext DEF IInv, PlaceInv
<1>8. ASSUME NEW t \in Tasks
      PROVE  /\ InSlots(t)' = InSlots(t) /\ InResults(t)' = InResults(t)
             /\ Unslotted(t)' = Unslotted(t) + (IF t \in TasksOf(r) THEN 1 ELSE 0)
             /\ Pending(t)' = Pending(t) + (IF t \in TasksOf(r) THEN 1 ELSE 0)
             /\ Pending(t) \in Nat /\ InResults(t) \in Nat
  <2>1. Now' = Now
    BY <1>1 DEF Now, loopVars
  <2>2. InSlots(t)' = InSlots(t)
    BY <1>1, <2>1 DEF InSlots, Held, loopVars, slotVars
  <2>3. InResults(t)' = InResults(t) /\ InDeferred(t)' = InDeferred(t) /\ InHand(t)' = InHand(t)
    BY <1>1 DEF InResults, InDeferred, InHand, Bearers, Carried, loopVars, resultVars
  <2>4. InQueue(t)' = InQueue(t) + (IF t \in TasksOf(r) THEN 1 ELSE 0)
    <3>1. Carriers(t)' = Carriers(t)
      BY <1>1 DEF Carriers, Bearers
    <3>2. InQueue(t)' = Count(queue', Carriers(t))
      BY <3>1 DEF InQueue
    <3>. QED BY <1>2, <1>5, <3>2 DEF InQueue
  <2>5. Numbers(t) /\ Numbers(t)'
    BY <1>7
  <2>. QED BY <2>2, <2>3, <2>4, <2>5 DEF Numbers
<1>9. TypeOK /\ ResultInv /\ CancelInv /\ LoopInv
  BY DEF IInv
<1>10. \A i \in DOMAIN results : /\ results[i].id \in Tasks
                                 /\ Where(results[i].id)' = Where(results[i].id)
                                 /\ results[i].id \notin TasksOf(r)
  <2>1. ASSUME NEW i \in DOMAIN results
        PROVE  /\ results[i].id \in Tasks
               /\ Where(results[i].id)' = Where(results[i].id)
               /\ results[i].id \notin TasksOf(r)
    <3>1. PICK t \in Tasks : t = results[i].id
      BY <1>9, ResultFacts
    <3>2. Where(t) \in {"recv", "stop", "cancel"}
      BY <1>9, <3>1 DEF ResultInv
    <3>3. t \notin TasksOf(r) /\ Where(t)' = Where(t)
      BY <1>6, <3>2
    <3>. QED BY <1>1, <3>1, <3>3 DEF Where, resultVars
  <2>. QED BY <2>1
<1>11. PlaceInv'
  <2>1. ASSUME NEW t \in TasksOf(r) PROVE PlaceOf(t)'
    <3>1. Pending(t) = 0 /\ t \notin got /\ t \in Tasks /\ results \in Seq(Answers)
      BY <1>6, <1>7, <1>9 DEF TasksOf, PlaceOf, Early, TypeOK
    <3>2. \A i \in DOMAIN results : results[i] # Final(t)
      BY <1>10, <2>1 DEF Final
    <3>3. InResults(t) = 0
      BY <3>1, <3>2, CountFacts DEF InResults
    <3>4. Pending(t)' = 1 /\ InResults(t)' = 0 /\ Where(t)' = "recv"
      BY <1>6, <1>8, <3>1, <3>3
    <3>. QED BY <1>1, <3>1, <3>4 DEF PlaceOf, Early
  <2>2. ASSUME NEW t \in Tasks, t \notin TasksOf(r) PROVE PlaceOf(t)'
    <3>1. Pending(t)' = Pending(t) /\ InResults(t)' = InResults(t) /\ Where(t)' = Where(t)
      BY <1>6, <1>8, <2>2
    <3>2. HasError(ReaderOf[t])' = HasError(ReaderOf[t])
      BY <1>1 DEF HasError, Mine, resultVars
    <3>. QED BY <1>1, <1>7, <3>1, <3>2 DEF PlaceOf, slotVars
  <2>. QED BY <2>1, <2>2 DEF PlaceInv
<1>12. ResultInv'
  <2>1. (waiting = {t \in Tasks : Where(t) \in {"added", "recv", "stop"}})'
    BY <1>1, <1>6, <1>9 DEF ResultInv, resultVars
  <2>2. (\A i \in DOMAIN results :
          Where(results[i].id) \in {"recv", "stop", "cancel"} /\ results[i].id \notin got)'
    BY <1>1, <1>9, <1>10 DEF ResultInv, resultVars, Where
  <2>3. (\A i, j \in DOMAIN results :
          i < j /\ results[i].id = results[j].id => results[i].kind = "partial")'
    BY <1>1, <1>9 DEF ResultInv, resultVars
  <2>4. (\A i \in DOMAIN results, t \in Tasks : results[i] = Failure(t) => Pending(t) = 0)'
    <3>1. ASSUME NEW i \in DOMAIN results, NEW t \in Tasks, results[i] = Failure(t)
          PROVE  Pending(t)' = 0
      <4>1. Pending(t) = 0 /\ t \notin TasksOf(r)
        BY <1>9, <1>10, <3>1 DEF ResultInv, Failure
      <4>. QED BY <1>8, <4>1
    <3>. QED BY <1>1, <3>1 DEF Failure, resultVars
  <2>. QED BY <2>1, <2>2, <2>3, <2>4 DEF ResultInv
<1>13. LoopInv'
  <2>1. Has(queue', NextResponse) <=> Has(queue, NextResponse)
    BY <1>5, EntryFacts
  <2>. QED BY <1>1, <1>9, <2>1 DEF LoopInv, Idle, loopVars, slotVars
<1>14. CancelInv'
  <2>1. \A t : Has(queue', CancelOf(t)) <=> Has(queue, CancelOf(t))
    BY <1>5, EntryFacts
  <2>2. \A t \in Tasks : Where(t)' = "gone" <=> Where(t) = "gone"
    BY <1>6
  <2>3. (\A t \in Tasks : Has(queue, CancelOf(t)) \/ hand = CancelOf(t) => Where(t) = "gone")'
    BY <1>1, <1>9, <2>1, <2>2 DEF CancelInv, loopVars, CancelOf
  <2>4. \A t \in Tasks : Where(t)' = "gone" => Unslotted(t)' = Unslotted(t)
    <3>1. ASSUME NEW t \in Tasks, Where(t)' = "gone" PROVE Unslotted(t)' = Unslotted(t)
      <4>1. t \notin TasksOf(r)
        BY <1>6, <3>1
      <4>2. Unslotted(t) \in Nat
        BY <1>7 DEF Numbers
      <4>. QED BY <1>8, <4>1, <4>2
    <3>. QED BY <3>1
  <2>5. (\A t \in Tasks : Where(t) = "gone" /\ t \notin missed => Unslotted(t) = 0)'
    BY <1>1, <1>9, <2>2, <2>4 DEF CancelInv
  <2>6. WorksForSomeone'
    <3>1. ASSUME NEW s \in Slots, task[s] # None, reader'[ReaderOf[task[s]]] = "gone",
                 task[s] \notin missed
          PROVE  \/ pc = "release" /\ s = Now
                 \/ hand = CancelOf(task[s])
                 \/ Has(queue', CancelOf(task[s]))
      <4>1. PICK t \in Tasks : t = task[s]
        BY <1>9, <3>1 DEF TypeOK
      <4>2. Where(t) = "gone"
        BY <2>2, <3>1, <4>1 DEF Where
      <4>. QED BY <1>9, <2>1, <3>1, <4>1, <4>2 DEF CancelInv, WorksForSomeone, Has, Where
    <3>2. Now' = Now
      BY <1>1 DEF Now, loopVars
    <3>. QED BY <1>1, <3>1, <3>2 DEF WorksForSomeone, Has, CancelOf, loopVars, slotVars
  <2>. QED BY <2>3, <2>5, <2>6 DEF CancelInv
<1>. QED BY <1>4, <1>11, <1>12, <1>13, <1>14 DEF IInv

(* When results are taken out and no pending count grows, what is said of   *)
(* the order of the results, and of failures, still holds.                  *)
LEMMA FewerResults ==
  ASSUME IInv, TypeOK', InOrder(results', results),
         \A t \in Tasks : Pending(t)' <= Pending(t)
  PROVE  /\ \A i \in DOMAIN results' : \E j \in DOMAIN results : results'[i] = results[j]
         /\ (\A i, j \in DOMAIN results :
              i < j /\ results[i].id = results[j].id => results[i].kind = "partial")'
         /\ (\A i \in DOMAIN results, t \in Tasks : results[i] = Failure(t) => Pending(t) = 0)'
<1>1. PICK e \in [1..Len(results') -> 1..Len(results)] :
        /\ \A i \in 1..Len(results') : results'[i] = results[e[i]]
        /\ \A i, j \in 1..Len(results') : i < j => e[i] < e[j]
  BY DEF InOrder
<1>2. /\ DOMAIN results = 1..Len(results) /\ DOMAIN results' = 1..Len(results')
      /\ results \in Seq(Answers) /\ results' \in Seq(Answers) /\ ResultInv
  BY DEF IInv, TypeOK
<1>3. \A t \in Tasks : Numbers(t) /\ Numbers(t)'
  BY CountsType, CountsTypeNext DEF IInv
<1>4. \A i \in DOMAIN results' : e[i] \in DOMAIN results /\ results'[i] = results[e[i]]
  BY <1>1, <1>2
<1>5. (\A i, j \in DOMAIN results :
        i < j /\ results[i].id = results[j].id => results[i].kind = "partial")'
  BY <1>1, <1>2, <1>4 DEF ResultInv
<1>6. (\A i \in DOMAIN results, t \in Tasks : results[i] = Failure(t) => Pending(t) = 0)'
  <2>1. ASSUME NEW i \in DOMAIN results', NEW t \in Tasks, results'[i] = Failure(t)
        PROVE  Pending(t)' = 0
    <3>1. Pending(t) = 0
      BY <1>2, <1>4, <2>1 DEF ResultInv
    <3>2. Pending(t)' \in Nat
      BY <1>3 DEF Numbers
    <3>. QED BY <3>1, <3>2
  <2>. QED BY <2>1 DEF Failure
<1>. QED BY <1>4, <1>5, <1>6

(* A request takes its first result. *)
LEMMA ReceivesStep ==
  ASSUME IInv, NEW r \in Readers, ReaderReceives(r)
  PROVE  IInv'
<1>0. /\ results \in Seq(Answers) /\ reader \in [Readers -> Stages]
      /\ DOMAIN results = 1..Len(results) /\ Len(results) \in Nat
      /\ \A t \in Tasks : ReaderOf[t] \in Readers
      /\ TypeOK /\ ResultInv /\ CancelInv /\ LoopInv
  BY DEF IInv, TypeOK, Stages, Early
<1>1. PICK i \in Mine(r) : \A j \in Mine(r) : i <= j
  <2>1. Mine(r) \in SUBSET Nat
    BY <1>0 DEF Mine
  <2>2. Mine(r) # {}
    BY ZenonT(30) DEF ReaderReceives
  <2>. QED BY <2>1, <2>2, Least
<1>2. (CHOOSE x \in Mine(r) : \A y \in Mine(r) : x <= y) = i
  <2>. DEFINE c == CHOOSE x \in Mine(r) : \A y \in Mine(r) : x <= y
  <2>1. c \in Mine(r) /\ \A y \in Mine(r) : c <= y
    BY <1>1
  <2>2. \A x \in Mine(r) : x \in Nat
    BY <1>0 DEF Mine
  <2>. HIDE DEF c
  <2>3. c <= i /\ i <= c /\ c \in Nat /\ i \in Nat
    BY <1>1, <2>1, <2>2
  <2>4. c = i
    BY <2>3
  <2>. QED BY <2>4 DEF c
<1>. DEFINE v == results[i]
<1>3. /\ reader[r] = "recv"
      /\ results' = RemoveAt(results, i)
      /\ got' = IF v.kind = "final" THEN got \cup {v.id} ELSE got
      /\ reader' = IF v.kind = "error" THEN [reader EXCEPT ![r] = "stop"] ELSE reader
      /\ UNCHANGED <<env, queueVars, waiting, slotVars, loopVars, missed>>
  BY <1>2 DEF ReaderReceives
<1>4. /\ i \in 1..Len(results) /\ v \in Answers /\ v.id \in Tasks /\ v.kind \in Kinds
      /\ ReaderOf[v.id] = r
  <2>1. i \in DOMAIN results /\ ReaderOf[v.id] = r
    BY <1>1 DEF Mine
  <2>2. v \in Answers
    BY <1>0, <2>1
  <2>. HIDE DEF v
  <2>3. v.id \in Tasks /\ v.kind \in Kinds
    BY <2>2 DEF Answers
  <2>. QED BY <1>0, <2>1, <2>2, <2>3
<1>5. /\ results' \in Seq(Answers) /\ Len(results') = Len(results) - 1
      /\ \A j \in 1 .. Len(results) - 1 : results'[j] = IF j < i THEN results[j] ELSE results[j + 1]
  BY <1>0, <1>3, <1>4, CountRemoveAt
<1>6. TypeOK'
  <2>1. got' \subseteq Tasks
    BY <1>0, <1>3, <1>4 DEF TypeOK
  <2>2. reader' \in [Readers -> {"start", "parked", "begun", "added", "recv", "stop", "cancel", "gone"}]
    BY <1>0, <1>3 DEF TypeOK
  <2>. QED BY <1>0, <1>3, <1>5, <2>1, <2>2 DEF TypeOK, queueVars, slotVars, loopVars
<1>7. /\ \A t \in Tasks : /\ Unslotted(t)' = Unslotted(t) /\ Pending(t)' = Pending(t)
                          /\ Called(t)' = Called(t)
      /\ Now' = Now /\ LoopInv'
  BY <1>3, SameTasks DEF queueVars
<1>8. \A t \in Tasks : Numbers(t) /\ PlaceOf(t) /\ Numbers(t)'
  BY <1>6, CountsType, CountsTypeNext DEF IInv, PlaceInv
<1>9. ASSUME NEW t \in Tasks
      PROVE  /\ InResults(t) = (IF v = Final(t) THEN 1 ELSE 0) + InResults(t)'
             /\ InResults(t)' \in Nat /\ Pending(t) \in Nat
  <2>1. Count(results, {Final(t)}) = (IF v \in {Final(t)} THEN 1 ELSE 0)
                                       + Count(RemoveAt(results, i), {Final(t)})
    BY <1>0, <1>4, CountRemoveAt
  <2>2. Final(t)' = Final(t)
    BY DEF Final
  <2>3. InResults(t)' = Count(RemoveAt(results, i), {Final(t)})
    BY <1>3, <2>2 DEF InResults
  <2>4. Numbers(t) /\ Numbers(t)'
    BY <1>8
  <2>. QED BY <2>1, <2>3, <2>4 DEF InResults, Numbers
<1>10. InOrder(results', results)
  <2>. DEFINE e == [j \in 1..Len(results') |-> IF j < i THEN j ELSE j + 1]
  <2>1. e \in [1..Len(results') -> 1..Len(results)]
    BY <1>0, <1>4, <1>5
  <2>2. \A j \in 1..Len(results') : results'[j] = results[e[j]]
    BY <1>0, <1>4, <1>5
  <2>3. \A j, k \in 1..Len(results') : j < k => e[j] < e[k]
    BY <1>0, <1>4, <1>5
  <2>. HIDE DEF e
  <2>. QED BY <2>1, <2>2, <2>3 DEF InOrder
<1>11. /\ \A j \in DOMAIN results' : \E k \in DOMAIN results : results'[j] = results[k]
       /\ (\A j, k \in DOMAIN results :
            j < k /\ results[j].id = results[k].id => results[j].kind = "partial")'
       /\ (\A j \in DOMAIN results, t \in Tasks : results[j] = Failure(t) => Pending(t) = 0)'
  <2>1. \A t \in Tasks : Pending(t)' <= Pending(t)
    BY <1>7, <1>9
  <2>. QED BY <1>6, <1>10, <2>1, FewerResults
(* A result left for the task of the one taken came after it. *)
<1>12. ASSUME NEW j \in DOMAIN results', results'[j].id = v.id
       PROVE  v.kind = "partial"
  <2>1. j \in 1 .. Len(results) - 1
    BY <1>5
  <2>2. CASE j < i
    <3>1. results'[j] = results[j] /\ j \in DOMAIN results
      BY <1>0, <1>4, <1>5, <2>1, <2>2
    <3>2. j \in Mine(r)
      BY <1>4, <1>12, <3>1 DEF Mine
    <3>. QED BY <1>0, <1>1, <1>4, <2>1, <2>2, <3>2
  <2>3. CASE ~(j < i)
    <3>1. results'[j] = results[j + 1] /\ j + 1 \in DOMAIN results /\ i < j + 1
      BY <1>0, <1>4, <1>5, <2>1, <2>3
    <3>. QED BY <1>0, <1>4, <1>12, <3>1 DEF ResultInv
  <2>. QED BY <2>2, <2>3
<1>13. \A t \in Tasks :
         \/ Where(t)' = Where(t)
         \/ Where(t) = "recv" /\ Where(t)' = "stop" /\ ReaderOf[t] = r /\ v.kind = "error"
  BY <1>0, <1>3 DEF Where
<1>14. ASSUME NEW t \in Tasks PROVE PlaceOf(t)'
  <2>1. Pending(t)' + InResults(t)' <= 1
    BY <1>7, <1>8, <1>9 DEF PlaceOf
  <2>2. ASSUME Where(t)' \in Early
        PROVE  t \notin got' /\ Pending(t)' = 0 /\ \A s \in Slots : task'[s] # t
    <3>1. Where(t) \in Early /\ ReaderOf[t] # r
      BY <1>3, <1>13, <2>2 DEF Early, Where
    <3>. QED BY <1>3, <1>4, <1>7, <1>8, <3>1 DEF PlaceOf, slotVars
  <2>3. ASSUME Where(t)' = "recv", ~HasError(ReaderOf[t])', t \notin got'
        PROVE  Pending(t)' + InResults(t)' = 1
    <3>1. Where(t) = "recv" /\ t \notin got
      BY <1>3, <1>13, <2>3
    <3>2. ~(ReaderOf[t] = r /\ v.kind = "error")
      BY <1>0, <1>3, <2>3 DEF Where
    <3>3. ~HasError(ReaderOf[t])
      <4>1. ASSUME NEW j \in Mine(ReaderOf[t]), results[j].kind = "error" PROVE FALSE
        <5>1. j # i
          BY <1>4, <3>2, <4>1 DEF Mine
        <5>2. j \in 1..Len(results) /\ ReaderOf[results[j].id] = ReaderOf[t]
          BY <1>0 DEF Mine
        <5>3. \E k \in DOMAIN results' : results'[k] = results[j]
          <6>1. CASE j < i
            <7>1. j \in 1 .. Len(results) - 1 /\ j \in DOMAIN results'
              BY <1>0, <1>4, <1>5, <5>2, <6>1
            <7>. QED BY <1>5, <6>1, <7>1
          <6>2. CASE ~(j < i)
            <7>1. j - 1 \in 1 .. Len(results) - 1 /\ j - 1 \in DOMAIN results' /\ ~(j - 1 < i) /\ (j - 1) + 1 = j
              BY <1>0, <1>4, <1>5, <5>1, <5>2, <6>2
            <7>. QED BY <1>5, <7>1
          <6>. QED BY <6>1, <6>2
        <5>. QED BY <2>3, <4>1, <5>2, <5>3 DEF HasError, Mine
      <4>. QED BY <4>1 DEF HasError
    <3>4. v # Final(t)
      BY <1>3, <2>3 DEF Final
    <3>. QED BY <1>7, <1>8, <1>9, <3>1, <3>3, <3>4 DEF PlaceOf
  <2>4. ASSUME t \in got' PROVE Pending(t)' = 0
    <3>1. CASE t \in got
      BY <1>7, <1>8, <3>1 DEF PlaceOf
    <3>2. CASE t \notin got
      <4>1. v.id = t /\ v.kind = "final"
        BY <1>3, <2>4, <3>2
      <4>2. v = Final(t)
        BY <1>4, <4>1 DEF Answers, Final
      <4>. QED BY <1>7, <1>8, <1>9, <4>2 DEF PlaceOf
    <3>. QED BY <3>1, <3>2
  <2>. QED BY <2>1, <2>2, <2>3, <2>4 DEF PlaceOf
<1>15. ResultInv'
  <2>1. (waiting = {t \in Tasks : Where(t) \in {"added", "recv", "stop"}})'
    BY <1>0, <1>3, <1>13 DEF ResultInv
  <2>2. ASSUME NEW j \in DOMAIN results'
        PROVE  (Where(results[j].id) \in {"recv", "stop", "cancel"} /\ results[j].id \notin got)'
    <3>1. PICK k \in DOMAIN results : results'[j] = results[k]
      BY <1>11
    <3>2. PICK t \in Tasks : t = results[k].id
      BY <1>0, ResultFacts
    <3>3. Where(t) \in {"recv", "stop", "cancel"} /\ t \notin got
      BY <1>0, <3>2 DEF ResultInv
    <3>4. Where(t)' \in {"recv", "stop", "cancel"}
      BY <1>13, <3>3
    <3>5. t \notin got'
      <4>1. t = v.id => v.kind = "partial"
        BY <1>12, <3>1, <3>2
      <4>. QED BY <1>3, <3>3, <4>1
    <3>. QED BY <3>1, <3>2, <3>4, <3>5 DEF Where
  <2>. QED BY <1>11, <2>1, <2>2 DEF ResultInv
<1>16. CancelInv'
  <2>1. \A t \in Tasks : Where(t)' = "gone" <=> Where(t) = "gone"
    BY <1>13
  <2>2. (\A t \in Tasks : Has(queue, CancelOf(t)) \/ hand = CancelOf(t) => Where(t) = "gone")'
    BY <1>0, <1>7, <2>1 DEF CancelInv, Called
  <2>3. (\A t \in Tasks : Where(t) = "gone" /\ t \notin missed => Unslotted(t) = 0)'
    BY <1>0, <1>3, <1>7, <2>1 DEF CancelInv
  <2>4. WorksForSomeone'
    <3>1. ASSUME NEW s \in Slots, task[s] # None, reader'[ReaderOf[task[s]]] = "gone",
                 task[s] \notin missed
          PROVE  \/ pc = "release" /\ s = Now
                 \/ hand = CancelOf(task[s])
                 \/ \E j \in DOMAIN queue : queue[j] = CancelOf(task[s])
      <4>1. PICK t \in Tasks : t = task[s]
        BY <1>0, <3>1 DEF TypeOK
      <4>2. Where(t) = "gone"
        BY <2>1, <3>1, <4>1 DEF Where
      <4>. QED BY <1>0, <3>1, <4>1, <4>2 DEF CancelInv, WorksForSomeone, Where
    <3>. QED BY <1>3, <1>7, <3>1 DEF WorksForSomeone, CancelOf, queueVars, slotVars, loopVars
  <2>. QED BY <2>2, <2>3, <2>4 DEF CancelInv
<1>. QED BY <1>6, <1>7, <1>14, <1>15, <1>16 DEF IInv, PlaceInv

(* The cancels a request posts: one for each of its tasks, nothing else. *)
Cancellations(ids) == [i \in 1..Cardinality(ids) |-> CancelOf(SetToSeq(ids)[i])]

(* PostCancels puts these entries before the others. *)
LEMMA CancellationFacts ==
  ASSUME NEW r \in Readers
  PROVE  /\ Cancellations(TasksOf(r)) \in Seq(Entries)
         /\ \A x : Has(Cancellations(TasksOf(r)), x) <=> \E t \in TasksOf(r) : x = CancelOf(t)
<1>. DEFINE n == Cardinality(TasksOf(r))
            e == SetToSeq(TasksOf(r))
<1>1. /\ n \in Nat /\ e \in [1..n -> TasksOf(r)]
      /\ \A x \in TasksOf(r) : \E i \in 1..n : e[i] = x
  BY SetAsSeq
<1>. HIDE DEF e, n
<1>2. Cancellations(TasksOf(r)) = [i \in 1..n |-> CancelOf(e[i])]
  BY DEF Cancellations, e, n
<1>3. \A i \in 1..n : CancelOf(e[i]) \in Entries
  BY <1>1 DEF Entries, TasksOf
<1>4. [i \in 1..n |-> CancelOf(e[i])] \in Seq(Entries)
  BY <1>1, <1>3
<1>5. \A x : Has(Cancellations(TasksOf(r)), x) <=> \E i \in 1..n : x = CancelOf(e[i])
  <2>1. DOMAIN Cancellations(TasksOf(r)) = 1..n
    BY <1>2
  <2>2. \A i \in 1..n : Cancellations(TasksOf(r))[i] = CancelOf(e[i])
    BY <1>2
  <2>. QED BY <2>1, <2>2 DEF Has
<1>6. \A x : Has(Cancellations(TasksOf(r)), x) <=> \E t \in TasksOf(r) : x = CancelOf(t)
  BY <1>1, <1>5, ZenonT(30)
<1>. QED BY <1>2, <1>4, <1>6

(* A request has an error among its results. *)
LEMMA HasErrorIff ==
  TypeOK => \A r \in Readers :
              HasError(r) <=> \E t \in Tasks : ReaderOf[t] = r /\ Has(results, Failure(t))
BY ResultFacts DEF HasError, Mine, Has

(* The same of the next state. *)
LEMMA HasErrorIffNext ==
  TypeOK' => \A r \in Readers :
               HasError(r)' <=> \E t \in Tasks : ReaderOf[t] = r /\ Has(results', Failure(t))
<1>1. TypeOK' => (\A r \in Readers :
                   HasError(r) <=> \E t \in Tasks : ReaderOf[t] = r /\ Has(results, Failure(t)))'
  BY HasErrorIff, PTL
<1>. QED BY <1>1 DEF Failure

(* A request gives up: its results and its tasks in the queues are taken    *)
(* out, and the cancels of all of its tasks come first in the queue.        *)
LEMMA CancelStep ==
  ASSUME IInv, NEW r \in Readers, ReaderCancels(r)
  PROVE  IInv'
<1>. DEFINE ids == TasksOf(r)
            runs == {Run(t) : t \in ids}
            answers == [id : ids, kind : Kinds]
            c == Cancellations(ids)
<1>1. /\ reader[r] = "cancel" /\ NotifyOne
      /\ results' = Less(results, answers)
      /\ queue' = c \o Less(queue, runs)
      /\ deferred' = Less(deferred, ids)
      /\ missed' = missed \cup (ids \cap Carried(hand))
      /\ reader' = [reader EXCEPT ![r] = "gone"]
      /\ UNCHANGED <<env, running, sleeping, wake, waiting, slotVars, loopVars, got>>
  BY DEF ReaderCancels, CleanResults, PostCancels, Without, Cancellations
<1>2. /\ results \in Seq(Answers) /\ queue \in Seq(Entries) /\ deferred \in Seq(Tasks)
      /\ reader \in [Readers -> Stages] /\ \A t \in Tasks : ReaderOf[t] \in Readers
      /\ TypeOK /\ ResultInv /\ CancelInv /\ LoopInv
  BY DEF IInv, TypeOK, Stages, Early
<1>3. c \in Seq(Entries) /\ \A x : Has(c, x) <=> \E t \in ids : x = CancelOf(t)
  BY CancellationFacts
<1>4. /\ Less(results, answers) \in Seq(Answers) /\ Less(queue, runs) \in Seq(Entries)
      /\ Less(deferred, ids) \in Seq(Tasks)
      /\ \A X : Count(Less(results, answers), X) = Count(results, X \ answers)
      /\ \A X : Count(Less(queue, runs), X) = Count(queue, X \ runs)
      /\ \A X : Count(Less(deferred, ids), X) = Count(deferred, X \ ids)
  <2>. HIDE DEF answers
  <2>1. \A X : /\ Less(results, answers) \in Seq(Answers)
               /\ Count(Less(results, answers), X) = Count(results, X \ answers)
    BY <1>2, LessCount
  <2>2. \A X : /\ Less(queue, runs) \in Seq(Entries)
               /\ Count(Less(queue, runs), X) = Count(queue, X \ runs)
    BY <1>2, LessCount
  <2>3. \A X : /\ Less(deferred, ids) \in Seq(Tasks)
               /\ Count(Less(deferred, ids), X) = Count(deferred, X \ ids)
    BY <1>2, LessCount
  <2>. QED BY <2>1, <2>2, <2>3
<1>5. InOrder(results', results)
  BY <1>1, <1>2, LessInOrder
<1>6. \A x : /\ Has(results', x) <=> Has(results, x) /\ x \notin answers
             /\ Has(queue', x) <=> Has(c, x) \/ (Has(queue, x) /\ x \notin runs)
  <2>. HIDE DEF answers
  <2>1. \A x : Has(results', x) <=> Has(results, x) /\ x \notin answers
    BY <1>1, <1>2, HasLess
  <2>2. \A x : Has(Less(queue, runs), x) <=> Has(queue, x) /\ x \notin runs
    BY <1>2, HasLess
  <2>3. \A x : Has(queue', x) <=> Has(c, x) \/ Has(Less(queue, runs), x)
    BY <1>1, <1>3, <1>4, HasConcat
  <2>. QED BY <2>1, <2>2, <2>3
<1>. HIDE DEF c
<1>7. TypeOK'
  <2>1. queue' \in Seq(Entries)
    BY <1>1, <1>3, <1>4
  <2>2. blocked' \subseteq Readers \cup {Loop} /\ missed' \subseteq Tasks
    BY <1>1, <1>2 DEF NotifyOne, TypeOK, TasksOf
  <2>3. reader' \in [Readers -> {"start", "parked", "begun", "added", "recv", "stop", "cancel", "gone"}]
    BY <1>1, <1>2 DEF TypeOK
  <2>. QED BY <1>1, <1>2, <1>4, <2>1, <2>2, <2>3 DEF TypeOK, slotVars, loopVars
<1>8. \A t \in Tasks : IF t \in ids THEN Where(t) = "cancel" /\ Where(t)' = "gone"
                                     ELSE Where(t)' = Where(t)
  BY <1>1, <1>2 DEF Where, TasksOf
<1>9. \A t \in Tasks : Numbers(t) /\ PlaceOf(t) /\ Numbers(t)'
  BY <1>7, CountsType, CountsTypeNext DEF IInv, PlaceInv
<1>10. ASSUME NEW t \in Tasks
       PROVE  /\ InQueue(t)' = Count(queue, Carriers(t) \ runs)
              /\ InDeferred(t)' = Count(deferred, Bearers(t) \ ids)
              /\ InHand(t)' = InHand(t) /\ InSlots(t)' = InSlots(t)
              /\ InResults(t)' = Count(results, {Final(t)} \ answers)
  <2>1. Carriers(t)' = Carriers(t) /\ Bearers(t)' = Bearers(t) /\ Final(t)' = Final(t)
    BY <1>1 DEF Carriers, Bearers, Final
  <2>2. Count(c, Carriers(t)) = 0
    <3>1. \A x \in Carriers(t) : ~Has(c, x)
      BY <1>3, EntryFacts DEF Carriers
    <3>2. \A i \in DOMAIN c : c[i] \notin Carriers(t)
      BY <3>1 DEF Has
    <3>. QED BY <1>3, <3>2, CountFacts
  <2>3. Count(queue', Carriers(t)) = Count(c, Carriers(t)) + Count(Less(queue, runs), Carriers(t))
    BY <1>1, <1>3, <1>4, CountConcat
  <2>4. Count(queue, Carriers(t) \ runs) \in Nat
    BY <1>2, CountFacts
  <2>5. InQueue(t)' = Count(queue', Carriers(t))
    BY <2>1 DEF InQueue
  <2>6. InQueue(t)' = Count(queue, Carriers(t) \ runs)
    BY <1>4, <2>2, <2>3, <2>4, <2>5
  <2>7. Now' = Now
    BY <1>1 DEF Now, loopVars
  <2>8. InHand(t)' = InHand(t) /\ InSlots(t)' = InSlots(t)
    BY <1>1, <2>7 DEF InHand, Carried, InSlots, Held, slotVars, loopVars
  <2>9. InDeferred(t)' = Count(deferred, Bearers(t) \ ids)
    BY <1>1, <1>4, <2>1 DEF InDeferred
  <2>10. InResults(t)' = Count(results, {Final(t)} \ answers)
    BY <1>1, <1>4, <2>1 DEF InResults
  <2>. QED BY <2>6, <2>8, <2>9, <2>10
<1>11. ASSUME NEW t \in ids
       PROVE  Unslotted(t)' = InHand(t) /\ InResults(t)' = 0 /\ Pending(t)' <= Pending(t)
  <2>0. t \in Tasks
    BY DEF TasksOf
  <2>1. Bearers(t) \subseteq ids
    BY <1>2, EnvFacts DEF Bearers, TasksOf
  <2>2. Carriers(t) \ runs = {} /\ Bearers(t) \ ids = {} /\ {Final(t)} \ answers = {}
    BY <2>1 DEF Carriers, Final, Kinds
  <2>3. Count(queue, {}) = 0 /\ Count(deferred, {}) = 0 /\ Count(results, {}) = 0
    BY <1>2, CountFacts
  <2>4. InQueue(t)' = 0 /\ InDeferred(t)' = 0 /\ InResults(t)' = 0
    BY <1>10, <2>0, <2>2, <2>3
  <2>5. Numbers(t) /\ Numbers(t)' /\ InHand(t)' = InHand(t) /\ InSlots(t)' = InSlots(t)
    BY <1>9, <1>10, <2>0
  <2>. QED BY <2>4, <2>5 DEF Numbers
<1>12. ASSUME NEW t \in Tasks, t \notin ids
       PROVE  /\ Unslotted(t)' = Unslotted(t) /\ Pending(t)' = Pending(t)
              /\ InResults(t)' = InResults(t)
  <2>1. \A b \in Bearers(t) : b \notin ids
    BY <1>2, <1>12, EnvFacts DEF Bearers, TasksOf
  <2>2. Carriers(t) \ runs = Carriers(t)
    BY <2>1, EntryFacts DEF Carriers
  <2>3. Bearers(t) \ ids = Bearers(t)
    BY <2>1
  <2>4. {Final(t)} \ answers = {Final(t)}
    BY <1>12 DEF Final
  <2>5. /\ InQueue(t)' = InQueue(t) /\ InDeferred(t)' = InDeferred(t) /\ InResults(t)' = InResults(t)
        /\ InHand(t)' = InHand(t) /\ InSlots(t)' = InSlots(t)
    BY <1>10, <2>2, <2>3, <2>4 DEF InQueue, InDeferred, InResults
  <2>. QED BY <2>5 DEF Unslotted, Pending
<1>13. \A t \in Tasks : Pending(t)' <= Pending(t) /\ Pending(t) \in Nat /\ Pending(t)' \in Nat
  <2>1. \A t \in Tasks : Pending(t) \in Nat /\ Pending(t)' \in Nat
    BY <1>9 DEF Numbers
  <2>. QED BY <1>11, <1>12, <2>1
<1>14. ASSUME NEW t \in Tasks PROVE PlaceOf(t)'
  <2>1. InResults(t)' <= InResults(t)
    BY <1>9, <1>11, <1>12 DEF Numbers
  <2>2. CASE t \in ids
    <3>1. Where(t)' = "gone" /\ got' = got
      BY <1>1, <1>8, <2>2
    <3>2. Numbers(t) /\ Numbers(t)' /\ PlaceOf(t) /\ Pending(t)' <= Pending(t) /\ InResults(t)' = 0
      BY <1>9, <1>11, <2>2
    <3>. QED BY <3>1, <3>2 DEF PlaceOf, Numbers, Early
  <2>3. CASE t \notin ids
    <3>1. HasError(ReaderOf[t])' <=> HasError(ReaderOf[t])
      <4>1. HasError(ReaderOf[t]) <=> \E u \in Tasks : ReaderOf[u] = ReaderOf[t] /\ Has(results, Failure(u))
        BY <1>2, HasErrorIff
      <4>2. HasError(ReaderOf[t])' <=> \E u \in Tasks : ReaderOf[u] = ReaderOf[t] /\ Has(results', Failure(u))
        BY <1>2, <1>7, HasErrorIffNext
      <4>3. \A u \in Tasks : ReaderOf[u] = ReaderOf[t] => (Has(results', Failure(u)) <=> Has(results, Failure(u)))
        BY <1>6, <2>3 DEF Failure, TasksOf
      <4>. QED BY <4>1, <4>2, <4>3
    <3>2. Where(t)' = Where(t) /\ Pending(t)' = Pending(t) /\ InResults(t)' = InResults(t)
          /\ got' = got /\ task' = task
      BY <1>1, <1>8, <1>12, <2>3 DEF slotVars
    <3>. QED BY <1>9, <3>1, <3>2 DEF PlaceOf
  <2>. QED BY <2>2, <2>3
<1>15. ResultInv'
  <2>1. (waiting = {t \in Tasks : Where(t) \in {"added", "recv", "stop"}})'
    BY <1>1, <1>2, <1>8 DEF ResultInv
  <2>2. /\ \A i \in DOMAIN results' : \E j \in DOMAIN results : results'[i] = results[j]
        /\ (\A i, j \in DOMAIN results :
             i < j /\ results[i].id = results[j].id => results[i].kind = "partial")'
        /\ (\A i \in DOMAIN results, t \in Tasks : results[i] = Failure(t) => Pending(t) = 0)'
    BY <1>5, <1>7, <1>13, FewerResults
  <2>3. ASSUME NEW i \in DOMAIN results'
        PROVE  (Where(results[i].id) \in {"recv", "stop", "cancel"} /\ results[i].id \notin got)'
    <3>1. PICK j \in DOMAIN results : results'[i] = results[j]
      BY <2>2
    <3>2. PICK v \in Answers : v = results[j]
      BY <1>2, <3>1
    <3>3. v.id \in Tasks /\ Where(v.id) \in {"recv", "stop", "cancel"} /\ v.id \notin got
      BY <1>2, <3>2, ResultFacts DEF ResultInv
    <3>4. v \notin answers
      BY <1>6, <3>1, <3>2 DEF Has
    <3>5. v.id \notin ids
      BY <3>2, <3>4 DEF Answers
    <3>6. Where(v.id)' = Where(v.id)
      BY <1>8, <3>3, <3>5
    <3>. QED BY <1>1, <3>1, <3>2, <3>3, <3>6 DEF Where
  <2>. QED BY <2>1, <2>2, <2>3 DEF ResultInv
<1>16. LoopInv'
  <2>1. Has(queue, NextResponse) => Has(queue', NextResponse)
    BY <1>6, EntryFacts
  <2>2. Now' = Now
    BY <1>1 DEF Now, loopVars
  <2>. QED BY <1>1, <1>2, <2>1, <2>2 DEF LoopInv, Idle, slotVars, loopVars
<1>17. CancelInv'
  <2>1. \A t \in Tasks : Has(queue', CancelOf(t)) <=> t \in ids \/ Has(queue, CancelOf(t))
    <3>1. \A t : CancelOf(t) \notin runs
      BY EntryFacts
    <3>2. \A t : Has(c, CancelOf(t)) <=> t \in ids
      BY <1>3, EntryFacts
    <3>. QED BY <1>6, <3>1, <3>2
  <2>2. \A t \in Tasks : Where(t)' = "gone" <=> t \in ids \/ Where(t) = "gone"
    BY <1>8
  <2>3. (\A t \in Tasks : Has(queue, CancelOf(t)) \/ hand = CancelOf(t) => Where(t) = "gone")'
    BY <1>1, <1>2, <2>1, <2>2 DEF CancelInv, CancelOf, loopVars
  <2>4. ASSUME NEW t \in Tasks, Where(t)' = "gone", t \notin missed' PROVE Unslotted(t)' = 0
    <3>1. CASE t \in ids
      <4>1. t \notin Carried(hand)
        BY <1>1, <2>4, <3>1
      <4>. QED BY <1>11, <3>1, <4>1 DEF InHand
    <3>2. CASE t \notin ids
      BY <1>1, <1>2, <1>12, <2>2, <2>4, <3>2 DEF CancelInv
    <3>. QED BY <3>1, <3>2
  <2>5. WorksForSomeone'
    <3>1. ASSUME NEW s \in Slots, task[s] # None, reader'[ReaderOf[task[s]]] = "gone",
                 task[s] \notin missed'
          PROVE  \/ pc = "release" /\ s = Now
                 \/ hand = CancelOf(task[s])
                 \/ Has(queue', CancelOf(task[s]))
      <4>1. PICK t \in Tasks : t = task[s]
        BY <1>2, <3>1 DEF TypeOK
      <4>2. t \in ids \/ Where(t) = "gone"
        BY <2>2, <3>1, <4>1 DEF Where
      <4>3. t \notin missed
        BY <1>1, <3>1, <4>1
      <4>. QED BY <1>2, <2>1, <3>1, <4>1, <4>2, <4>3 DEF CancelInv, WorksForSomeone, Has, Where
    <3>2. Now' = Now
      BY <1>1 DEF Now, loopVars
    <3>. QED BY <1>1, <3>1, <3>2 DEF WorksForSomeone, Has, CancelOf, loopVars, slotVars
  <2>. QED BY <2>3, <2>4, <2>5 DEF CancelInv
<1>. QED BY <1>7, <1>14, <1>15, <1>16, <1>17 DEF IInv, PlaceInv

-----------------------------------------------------------------------------
(* The theorems.                                                           *)

(* At first no task is anywhere. *)
LEMMA InitIInv == ASSUME Init PROVE IInv
<1>. USE DEF Init
<1>1. TypeOK
  <2>1. EnvOk(env)
    OBVIOUS
  <2>2. left \in [Tasks -> 0 .. env.steps]
    BY <2>1 DEF EnvOk
  <2>3. queue \in Seq(Entries) /\ deferred \in Seq(Tasks) /\ results \in Seq(Answers)
    OBVIOUS
  <2>. QED BY <2>2, <2>3 DEF TypeOK
<1>2. \A t \in Tasks : Where(t) = "start"
  BY DEF Where
<1>3. ASSUME NEW t \in Tasks PROVE Pending(t) = 0 /\ InResults(t) = 0
  <2>1. InQueue(t) = 0 /\ InDeferred(t) = 0 /\ InResults(t) = 0
    BY CountSmall DEF InQueue, InDeferred, InResults
  <2>2. InHand(t) = 0
    BY EntryFacts DEF InHand, Carried
  <2>3. Held(t) = {}
    BY DEF Held
  <2>. QED BY <1>1, <2>1, <2>2, <2>3, CountsType DEF Numbers
<1>4. PlaceInv
  BY <1>2, <1>3 DEF PlaceInv, PlaceOf, Early
<1>5. ResultInv
  BY <1>2 DEF ResultInv
<1>6. LoopInv
  BY DEF LoopInv, Idle
<1>7. CancelInv
  BY <1>2, EntryFacts DEF CancelInv, WorksForSomeone, Has
<1>. QED BY <1>1, <1>4, <1>5, <1>6, <1>7 DEF IInv

(* Every step preserves the invariant. *)
LEMMA NextIInv == ASSUME IInv, [Next]_vars PROVE IInv'
<1>1. CASE LoopStep \/ LoopSleeps
  BY <1>1, LoopPreserves
<1>2. CASE Terminate \/ UNCHANGED vars
  BY <1>2, TerminateStep
<1>3. ASSUME NEW r \in Readers, ReaderStep(r) \/ ReaderLeaves(r) PROVE IInv'
  BY <1>3, WaitsStep, AwaitsStep, PostsStep, ReceivesStep, StopsStep, CancelStep, LeavesStep
     DEF ReaderStep
<1>. QED BY <1>1, <1>2, <1>3 DEF Next

(* The inductive invariant holds in every state of every behaviour of the   *)
(* queue, the loop, the slots and the requests' threads.                    *)
THEOREM Invariance == Spec => []IInv
<1>1. Init => IInv
  BY InitIInv
<1>2. IInv /\ [Next]_vars => IInv'
  BY NextIInv
<1>. QED BY <1>1, <1>2, PTL DEF Spec

(* Every variable has its type: the queues hold entries, the deferred ones  *)
(* tasks, the results answers, the steps left to a task never pass 0.       *)
THEOREM TypeCorrect == Spec => []TypeOK
<1>1. IInv => TypeOK
  BY DEF IInv
<1>. QED BY <1>1, Invariance, PTL

(* A task is in one place at most; in exactly one from the time its request  *)
(* posted it until its final result is received, unless it was cancelled or *)
(* its request got an error; in none after that: it is never lost between   *)
(* the queues and the slots, never run twice, answered once.                *)
THEOREM EveryTaskInOnePlace == Spec => []OnePlace
<1>1. IInv => OnePlace
  <2>1. ASSUME IInv, NEW t \in Tasks
        PROVE  /\ Places(t) <= 1
               /\ (reader[ReaderOf[t]] = "recv" /\ ~HasError(ReaderOf[t]) /\ t \notin got)
                    => Places(t) = 1
               /\ t \in got => Places(t) = 0
    <3>1. Places(t) = Pending(t) + InResults(t)
      BY <2>1, PlacesSum DEF IInv
    <3>2. PlaceOf(t) /\ Numbers(t) /\ ResultInv /\ results \in Seq(Answers)
      BY <2>1, CountsType DEF IInv, PlaceInv, TypeOK
    <3>3. t \in got => InResults(t) = 0
      <4>1. t \in got => \A i \in DOMAIN results : results[i] \notin {Final(t)}
        BY <3>2 DEF ResultInv, Final
      <4>. QED BY <3>2, <4>1, CountFacts DEF InResults
    <3>. QED BY <3>1, <3>2, <3>3 DEF PlaceOf, Numbers, Where
  <2>. QED BY <2>1 DEF OnePlace
<1>. QED BY <1>1, Invariance, PTL

(* No result is left in queue_results for a request that is gone: stop      *)
(* takes out the ones that came in after its first part, and send drops     *)
(* the ones that come later.                                                *)
THEOREM NothingLeftBehind == Spec => []NoneLeftBehind
<1>1. IInv => NoneLeftBehind
  BY DEF IInv, ResultInv, NoneLeftBehind, Where
<1>. QED BY <1>1, Invariance, PTL

(* A slot at work on a task of a request that is gone is being released, or *)
(* the task's cancel is on the queue or in the loop's hand, unless the loop *)
(* had the task in hand when it was cancelled.                              *)
THEOREM SlotsWorkForSomeone == Spec => []WorksForSomeone
<1>1. IInv => WorksForSomeone
  BY DEF IInv, CancelInv
<1>. QED BY <1>1, Invariance, PTL

(* The loop sleeps, and the model is unloaded, only with every slot idle: a *)
(* slot at work has a NEXT_RESPONSE on the queue that keeps the loop awake. *)
THEOREM SleepsWhenIdle == Spec => []UnloadedWhenIdle
<1>1. IInv => UnloadedWhenIdle
  BY DEF IInv, LoopInv, UnloadedWhenIdle
<1>. QED BY <1>1, Invariance, PTL
=============================================================================
